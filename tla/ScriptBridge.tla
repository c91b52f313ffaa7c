----------------------------- MODULE ScriptBridge ---------------------------
(* The boundary between the host and the scripts of a feed: the realm a feed  *)
(* is started in, the values it returns and is given (bridge/*.rs), and the   *)
(* realm of its own in which a compute step runs (sandbox.rs).                *)
(*   JavaScript  --js_to_jsdata-->  JsData  --into_js-->  JavaScript          *)
(*   JavaScript  --js_to_json-->  JSON  --from_json-->  JsData                *)
(* A value of any of them is a tree [kind, ...]. JavaScript's kinds are in    *)
(* lower case, those of JsData are the names of its variants, those of JSON   *)
(* begin with "json".                                                         *)
EXTENDS Integers, Sequences, SequencesExt, FiniteSetsExt, TLC

CONSTANTS Leaf,                       \* JavaScript values without parts
          MaxParts,                   \* bound of the model: elements of an array or object
          LongText, MaxBridge,        \* texts that alone are MAX_BRIDGE_BYTES long; others are short
          MaxPrograms, MaxSource      \* limits of a compute step

Bare(k) == [kind |-> k]
Val(k, v) == [kind |-> k, v |-> v]
Arr(k, items) == [kind |-> k, items |-> items]
Obj(k, props) == [kind |-> k, props |-> props]
Error == Bare("error")      \* the conversion fails
Dropped == Bare("dropped")  \* the conversion has no value
Items(v) == IF "items" \in DOMAIN v THEN v.items ELSE <<>>
Props(v) == IF "props" \in DOMAIN v THEN v.props ELSE <<>>
\* An object is a sequence of properties <<name, value>>, the order JavaScript lists them in.
Mapped(op(_), props) == [i \in DOMAIN props |-> <<props[i][1], op(props[i][2])>>]
Values(props) == {props[i][2] : i \in DOMAIN props}
SizeOf(text) == IF text \in LongText THEN MaxBridge ELSE 1

-----------------------------------------------------------------------------
(* js_to_jsdata: functions are left out of objects, and refused elsewhere.    *)
RECURSIVE JsToJsDataInner(_)
JsToJsDataInner(v) ==
    LET items == [i \in DOMAIN Items(v) |-> JsToJsDataInner(Items(v)[i])]
        kept == SelectSeq(Props(v), LAMBDA p : p[2].kind # "function")
    IN CASE v.kind = "undefined" -> Bare("Undefined")
         [] v.kind = "null" -> Bare("Null")
         [] v.kind = "int" -> Val("Int", v.v)
         [] v.kind = "float" -> Val("Num", v.v)
         [] v.kind = "string" -> Val("Str", v.v)
         [] v.kind = "bytes" -> Val("Bytes", v.v)
         [] v.kind = "array" -> IF Error \in Range(items) THEN Error ELSE Arr("Arr", items)
         [] v.kind = "object" -> LET props == Mapped(JsToJsDataInner, kept)
                                 IN IF Error \in Values(props) THEN Error ELSE Obj("Obj", props)
         [] v.kind = "toJSON" -> Obj("Obj", <<>>)     \* its own properties, and it has none
         [] v.kind \in {"bigint", "function", "symbol"} -> Error
RECURSIVE Measure(_)
Measure(d) ==
    CASE d.kind \in {"Undefined", "Null"} -> 8
      [] d.kind \in {"Int", "Num"} -> 16
      [] d.kind \in {"Str", "Bytes"} -> SizeOf(d.v)
      [] d.kind = "Arr" -> Len(d.items) + MapThenSumSet(LAMBDA i : Measure(d.items[i]), DOMAIN d.items)
      [] d.kind = "Obj" -> MapThenSumSet(LAMBDA i : SizeOf(d.props[i][1]) + 8 + Measure(d.props[i][2]), DOMAIN d.props)
JsToJsData(v) == LET d == JsToJsDataInner(v)
                 IN IF d # Error /\ Measure(d) > MaxBridge THEN Error ELSE d

\* IntoJs for &JsData.
RECURSIVE IntoJs(_)
IntoJs(d) ==
    CASE d.kind = "Undefined" -> Bare("undefined")
      [] d.kind = "Null" -> Bare("null")
      [] d.kind = "Int" -> Val("int", d.v)
      [] d.kind = "Num" -> Val("float", d.v)
      [] d.kind = "Str" -> Val("string", d.v)
      [] d.kind = "Bytes" -> Val("bytes", d.v)
      [] d.kind = "Arr" -> Arr("array", [i \in DOMAIN d.items |-> IntoJs(d.items[i])])
      [] d.kind = "Obj" -> Obj("object", Mapped(IntoJs, d.props))

-----------------------------------------------------------------------------
NotFinite == {"NaN"}
(* js_to_json below the top. A function is an object to into_object, and has  *)
(* no properties to list; one that has toJSON stands for what that returns.   *)
RECURSIVE ConvertToJson(_)
ConvertToJson(v) ==
    LET items == [i \in DOMAIN Items(v) |-> ConvertToJson(Items(v)[i])]
        props == Mapped(ConvertToJson, Props(v))
    IN CASE v.kind \in {"undefined", "symbol"} -> Dropped
         [] v.kind = "null" -> Bare("jsonNull")
         [] v.kind \in {"int", "float"} -> IF v.v \in NotFinite THEN Bare("jsonNull") ELSE Val("jsonNumber", v.v)
         [] v.kind = "string" -> Val("jsonString", v.v)
         [] v.kind \in {"bigint", "bytes"} -> Error
         [] v.kind = "array" ->
              IF Error \in Range(items) THEN Error
              ELSE Arr("jsonArray", [i \in DOMAIN items |-> IF items[i] = Dropped THEN Bare("jsonNull") ELSE items[i]])
         [] v.kind = "object" -> IF Error \in Values(props) THEN Error
                                 ELSE Obj("jsonObject", SelectSeq(props, LAMBDA p : p[2] # Dropped))
         [] v.kind = "function" -> Obj("jsonObject", <<>>)
         [] v.kind = "toJSON" -> ConvertToJson(v.v)
RECURSIVE JsonSize(_)
JsonSize(j) ==
    CASE j.kind = "jsonNull" -> 0
      [] j.kind = "jsonNumber" -> 8
      [] j.kind = "jsonString" -> SizeOf(j.v)
      [] j.kind = "jsonArray" -> Len(j.items) + MapThenSumSet(LAMBDA i : JsonSize(j.items[i]), DOMAIN j.items)
      [] j.kind = "jsonObject" -> MapThenSumSet(LAMBDA i : SizeOf(j.props[i][1]) + 16 + JsonSize(j.props[i][2]), DOMAIN j.props)

\* Mutant: nulls are left out of an array, and the budget is not asked.
JsToJsonSparse(v) == LET j == ConvertToJson(v) IN
    IF v.kind \in {"function", "symbol"} THEN Error
    ELSE IF j.kind = "jsonArray" THEN Arr("jsonArray", SelectSeq(j.items, LAMBDA i : i.kind # "jsonNull")) ELSE j
JsToJson(v) ==
    IF v.kind \in {"function", "symbol"} THEN Error
    ELSE LET j == ConvertToJson(v)
         IN IF j \notin {Error, Dropped} /\ JsonSize(j) > MaxBridge THEN Error ELSE j

\* from_json and into_json: whole numbers in the range of i32 have a variant of their own.
Small == {"0", "1", "2"}
RECURSIVE FromJson(_)
FromJson(j) ==
    CASE j.kind = "jsonNull" -> Bare("Null")
      [] j.kind = "jsonNumber" -> IF j.v \in Small THEN Val("Int", j.v) ELSE Val("Num", j.v)
      [] j.kind = "jsonString" -> Val("Str", j.v)
      [] j.kind = "jsonArray" -> Arr("Arr", [i \in DOMAIN j.items |-> FromJson(j.items[i])])
      [] j.kind = "jsonObject" -> Obj("Obj", Mapped(FromJson, j.props))
RECURSIVE IntoJson(_)
IntoJson(d) ==
    CASE d.kind \in {"Undefined", "Null", "Bytes"} -> Bare("jsonNull")
      [] d.kind \in {"Int", "Num"} -> IF d.v \in NotFinite THEN Bare("jsonNull") ELSE Val("jsonNumber", d.v)
      [] d.kind = "Str" -> Val("jsonString", d.v)
      [] d.kind = "Arr" -> Arr("jsonArray", [i \in DOMAIN d.items |-> IntoJson(d.items[i])])
      [] d.kind = "Obj" -> Obj("jsonObject", Mapped(IntoJson, d.props))

-----------------------------------------------------------------------------
\* Fields: a missing field reads as undefined.
Field(object, name) == LET at == {i \in DOMAIN object.props : object.props[i][1] = name}
                       IN IF at = {} THEN Bare("undefined") ELSE object.props[Max(at)][2]
Missing(v) == v.kind \in {"undefined", "null"}
IsObject(v) == v.kind \in {"object", "array", "bytes", "function", "toJSON"}
\* optional_bytes, read_headers; NoBody and no headers when they are missing.
ReadBytes(v) == IF Missing(v) THEN Bare("noBody") ELSE IF v.kind = "bytes" THEN v ELSE Error
ReadHeaders(v) ==
    IF Missing(v) THEN Obj("headers", <<>>)
    ELSE IF ~IsObject(v) \/ v.kind = "array" THEN Error
    ELSE IF \E p \in Values(Props(v)) : p.kind # "string" THEN Error ELSE Obj("headers", Props(v))
\* HttpRequest::from_js.
ReadRequest(v) ==
    IF v.kind # "object" THEN Error
    ELSE LET url == Field(v, "url")
             method == IF Missing(Field(v, "method")) THEN Val("string", "GET") ELSE Field(v, "method")
             headers == ReadHeaders(Field(v, "headers"))
             body == ReadBytes(Field(v, "body"))
         IN IF \/ url.kind # "string" \/ method.kind # "string" \/ Error \in {headers, body}
               \/ ~Missing(Field(v, "params"))
            THEN Error
            ELSE [kind |-> "request", url |-> url, method |-> method, headers |-> headers, body |-> body]
\* IntoJs for &HttpRequest, what login.patchRequest is handed.
PresentRequest(r) ==
    Obj("object", <<<<"url", r.url>>, <<"method", r.method>>, <<"headers", Obj("object", r.headers.props)>>>>
                  \o IF r.body.kind = "noBody" THEN <<>> ELSE <<<<"body", r.body>>>>)

(* Step::from_js. A step is [type, and its fields]; what the reader makes of  *)
(* it is Error, or what the host goes on with.                                *)
ReadStep(s) ==
    CASE s.type = "request" -> IF s.cacheKey \in {"empty", "long"} THEN Error ELSE ReadRequest(s.request)
      [] s.type = "compute" -> LET input == JsToJsData(s.input)
                               IN IF input = Error THEN Error
                                  ELSE [kind |-> "compute", programs |-> s.programs, source |-> s.source, input |-> input]
      [] s.type = "complete" ->
           LET result == JsToJson(s.result)
               cursor == IF Missing(s.cursor) THEN Dropped ELSE JsToJson(s.cursor)
           IN IF \/ s.result.kind = "undefined" \/ {result, cursor} \cap {Error} # {} \/ result = Dropped
                 \/ ~Missing(s.cursor) /\ cursor = Dropped
              THEN Error
              ELSE [kind |-> "complete", result |-> result,
                    cursor |-> IF cursor = Dropped THEN Dropped ELSE FromJson(cursor)]
      [] s.type = "fail" -> Bare("fail")
      [] s.type = "other" -> Error

-----------------------------------------------------------------------------
VARIABLES
    realm,     \* the feed's: its modules, whether it can compile, whether the wiring global is set
    worker,    \* the compute realm's modules, or {}
    stage,     \* boot, reduce, patch, compute, ended, broken
    returned,  \* the step the script returned
    accepted,  \* what the host read
    event      \* what the next reducer round sees of it
bridgeVars == <<realm, worker, stage, returned, accepted, event>>

PureModules == {"encoding", "crypto", "protobuf"}
NoStep == [type |-> "none"]
NoEvent == [of |-> "none"]
BridgeInit ==
    /\ realm = [modules |-> {}, compiles |-> TRUE, wired |-> FALSE] /\ worker = {}
    /\ stage = "new" /\ returned = NoStep /\ accepted = Dropped /\ event = NoEvent

\* Sandbox::new and install_storage: storage only with a backend of the host.
NewFeedRealm(storage) ==
    /\ stage = "new" /\ stage' = "boot"
    /\ realm' = [modules |-> PureModules \cup {"html"} \cup (IF storage THEN {"storage"} ELSE {}),
                 compiles |-> FALSE, wired |-> storage]
    /\ UNCHANGED <<worker, returned, accepted, event>>
(* eval_module_default, clear_storage_wiring and the checks of the handlers:  *)
(* an import that is not declared, an await at the top or a missing handler   *)
(* breaks the feed; importing storage takes the wiring away as well.          *)
StartFeed(imports, finishes, handlers, login, comments) ==
    /\ stage = "boot"
    /\ stage' = IF /\ imports \subseteq realm.modules /\ finishes /\ handlers
                   /\ login \in {"none", "all"} /\ comments # "value"
                THEN "reduce" ELSE "broken"
    /\ realm' = IF imports \subseteq realm.modules /\ finishes THEN [realm EXCEPT !.wired = FALSE] ELSE realm
    /\ UNCHANGED <<worker, returned, accepted, event>>

\* A reducer round returns a step; a deadline may break it off.
Reduce(s) ==
    /\ stage = "reduce"
    /\ returned' = s /\ accepted' = ReadStep(s)
    /\ stage' = IF ReadStep(s) = Error \/ s.type = "fail" THEN "broken"
                ELSE CASE s.type = "request" -> "patch" [] s.type = "compute" -> "compute" [] OTHER -> "ended"
    /\ event' = IF s.type = "complete" /\ ReadStep(s) # Error /\ ReadStep(s).cursor # Dropped
                THEN [of |-> "cursor", value |-> IntoJs(ReadStep(s).cursor)] ELSE NoEvent
    /\ UNCHANGED <<realm, worker>>
Interrupted == stage \in {"reduce", "compute"} /\ stage' = "broken" /\ worker' = {}
               /\ UNCHANGED <<realm, returned, accepted, event>>
\* login.patchRequest gives back what it was handed, or the feed is not logged in.
Patch(loggedIn) ==
    /\ stage = "patch" /\ stage' = "ended"
    /\ event' = [of |-> "request", value |-> IF loggedIn THEN ReadRequest(PresentRequest(accepted)) ELSE accepted]
    /\ UNCHANGED <<realm, worker, returned, accepted>>
\* Sandbox::compute: a realm without html and storage, and its input as a global.
BeginCompute ==
    /\ stage = "compute" /\ worker = {}
    /\ IF accepted.programs \in 1 .. MaxPrograms /\ accepted.source <= MaxSource /\ Measure(accepted.input) <= MaxBridge
       THEN worker' = PureModules /\ UNCHANGED stage
       ELSE stage' = "broken" /\ UNCHANGED worker
    /\ returned' = NoStep /\ accepted' = Dropped     \* the step is taken apart
    /\ UNCHANGED <<realm, event>>
\* The program answers with its input, or with what came of it; restore_compute.
EndCompute(result) ==
    /\ stage = "compute" /\ worker # {} /\ worker' = {}
    /\ LET d == JsToJsData(result)
       IN IF d = Error \/ d.kind = "Undefined" THEN stage' = "broken" /\ UNCHANGED event
          ELSE stage' = "ended" /\ event' = [of |-> "compute", value |-> IntoJs(d), result |-> result]
    /\ UNCHANGED <<realm, returned, accepted>>

Flat == Leaf \cup {[kind |-> "toJSON", v |-> l] : l \in {l \in Leaf : l.kind = "string"}}
Key == <<"url", "x">>
JsValue == Flat \cup {Arr("array", s) : s \in SeqOf(Flat, MaxParts)}
                \cup {Obj("object", [i \in DOMAIN s |-> <<Key[i], s[i]>>]) : s \in SeqOf(Flat, MaxParts)}
                \cup {Arr("array", <<Obj("object", <<<<"x", l>>>>)>>) : l \in Flat}
Text(t) == Val("string", t)
Request == {Obj("object", <<<<"url", u>>, <<"method", m>>, <<"headers", h>>, <<"body", b>>, <<"params", p>>>>) :
              u \in {Text("a"), Bare("undefined")}, m \in {Bare("undefined"), Text("POST")},
              h \in {Bare("null"), Text("a"), Arr("array", <<>>), Obj("object", <<<<"x", Text("a")>>>>),
                     Obj("object", <<<<"x", Bare("null")>>>>)},
              b \in {Bare("undefined"), Val("bytes", "a"), Text("a")}, p \in {Bare("null"), Text("a")}}
Step == {[type |-> "request", cacheKey |-> k, request |-> r] : k \in {"none", "key", "empty", "long"}, r \in Request}
        \cup {[type |-> "compute", programs |-> n, source |-> 1, input |-> v] : n \in {1, MaxPrograms + 1}, v \in JsValue}
        \cup {[type |-> "compute", programs |-> n, source |-> m, input |-> Bare("undefined")] :
                 n \in {0, MaxPrograms}, m \in {MaxSource, MaxSource + 1}}
        \cup {[type |-> "complete", result |-> v, cursor |-> Bare("null")] : v \in JsValue}
        \cup {[type |-> "complete", result |-> Text("a"), cursor |-> v] : v \in JsValue}
        \cup {[type |-> "fail"], [type |-> "other"]}
BridgeNext ==
    \/ \E storage \in BOOLEAN : NewFeedRealm(storage)
    \/ stage = "boot" /\ \E imports \in SUBSET (PureModules \cup {"html", "storage"}), finishes, handlers \in BOOLEAN,
          login \in {"none", "some", "all"}, comments \in {"none", "functions", "value"} :
            StartFeed(imports, finishes, handlers, login, comments)
    \/ stage = "reduce" /\ \E s \in Step : Reduce(s)
    \/ Interrupted \/ BeginCompute
    \/ \E loggedIn \in BOOLEAN : Patch(loggedIn)
    \/ worker # {} /\ \E v \in JsValue : EndCompute(v)

-----------------------------------------------------------------------------
\* A tree as a set of nodes: where it is, what holds it, its kind and text.
RECURSIVE NodesAt(_, _, _)
NodesAt(v, path, parent) ==
    {[path |-> path, parent |-> parent, kind |-> v.kind,
      text |-> IF v.kind = "toJSON" THEN v.v.v ELSE IF "v" \in DOMAIN v THEN v.v ELSE ""]}
    \cup UNION {NodesAt(Items(v)[i], Append(path, ToString(i)), v.kind) : i \in DOMAIN Items(v)}
    \cup UNION {NodesAt(Props(v)[i][2], Append(path, Props(v)[i][1]), v.kind) : i \in DOMAIN Props(v)}
Nodes(v) == NodesAt(v, <<>>, "top")
Number == {"int", "float"}
Plain(n) == [path |-> n.path, kind |-> IF n.kind \in Number THEN "number" ELSE n.kind, text |-> n.text]
\* What structured copying makes of a node, and what JSON.stringify makes of one
\* that it keeps: it leaves Unkept values out of objects, and puts null for them in arrays.
Unkept == {"undefined", "function", "symbol"}
Copied(n) == IF n.kind = "toJSON" THEN [n EXCEPT !.kind = "object", !.text = ""] ELSE n
Stringified(n) ==
    IF n.kind = "toJSON" THEN [n EXCEPT !.kind = "string"]
    ELSE IF n.kind \in Unkept \/ n.text \in NotFinite THEN [n EXCEPT !.kind = "null", !.text = ""]
    ELSE n
LeftOut(n) == n.kind \in Unkept /\ n.parent = "object"
\* The exception: below the top of a value, js_to_json gives an empty object for a function.
AsObject(n) == [n EXCEPT !.kind = "object"]

(* What a script hands over is what it gets back: the result of a compute     *)
(* step node by node, without functions; a cursor as JSON.stringify would     *)
(* give it, but for each function in it, which the comments of convert.rs     *)
(* say is dropped, or null in an array, and which becomes an empty object;    *)
(* and again the same when it is handed over once more; a request             *)
(* through login.patchRequest as it was. Nothing that arrives exceeds the     *)
(* limit. No script ever runs in a realm that can compile code or reach the   *)
(* wiring of the storage, a computation never has the parser or the storage,  *)
(* and its realm is gone before the feed goes on (convert.rs, step.rs,        *)
(* sandbox.rs, JsFeed::new).                                                  *)
BridgeTrue ==
    /\ event.of = "compute" =>
         /\ {Plain(n) : n \in Nodes(event.value)}
              = {Plain(Copied(n)) : n \in {n \in Nodes(event.result) : n.kind # "function"}}
         /\ Measure(JsToJsDataInner(event.value)) <= MaxBridge
    /\ event.of = "cursor" =>
         /\ {Plain(n) : n \in Nodes(event.value)}
              = {Plain(IF n.kind = "function" THEN AsObject(n) ELSE Stringified(n)) :
                   n \in {n \in Nodes(returned.cursor) : ~LeftOut(n) \/ n.kind = "function"}}
         /\ JsToJson(event.value) = JsToJson(returned.cursor)
         /\ IntoJson(FromJson(JsToJson(event.value))) = JsToJson(event.value)
    /\ event.of = "request" => event.value = accepted
    /\ stage \in {"reduce", "patch", "compute", "ended"} => ~realm.wired /\ ~realm.compiles
    /\ worker \cap {"html", "storage"} = {} /\ (stage # "compute" => worker = {})

=============================================================================
