------------------------------ MODULE FeedPages -----------------------------
(* The lists of a feed: pages of a reducer that name their successor by a     *)
(* cursor become one stream of items, whose identities are checked on the way *)
(* (paged_stream, dedup_stream, unique_search_stream of feed.rs). The reader  *)
(* is the app, which may stop at any item, or a run of the developer tools    *)
(* (debug.rs), which compiles the script, takes the stored login and collects *)
(* what comes before the first error.                                         *)
EXTENDS Integers, Sequences, SequencesExt, FiniteSets

CONSTANTS Id, PageCursor, Absent,
          MaxPages, MaxItems    \* bounds of the model

\* OperationKind; Null is the cursor of a first page.
Operation == {"search", "bookInfo", "chapters", "paragraphs", "login.status",
              "comments.chapter", "comments.paragraph"}
Listed == {"search", "chapters", "paragraphs"}
Null == "null"

VARIABLES
    reader,     \* "app" or "debug"
    operation,  \* what it reads, or "manual"
    step,       \* compile, auth, stage, done
    auth,       \* DebugAuthUse
    fetched,    \* the pages so far: the cursor each was asked with, its items, its next cursor
    ahead,      \* items of the last page that are not taken yet
    taken,      \* identities of the items taken from pages, in order
    delivered,  \* identities of the items that came out
    failure,    \* the error that ended it, or Absent
    output      \* what the run of the developer tools shows, or Absent

pagesVars == <<reader, operation, step, auth, fetched, ahead, taken, delivered, failure, output>>

\* The app reads a feed that is compiled and has its login.
PagesInit ==
    /\ \/ reader = "app" /\ operation \in Listed /\ step = "stage" /\ auth = "applied"
       \/ reader = "debug" /\ operation \in Listed \cup {"bookInfo", "login.status", "manual"}
          /\ step = "compile" /\ auth = "unsupported"
    /\ fetched = <<>> /\ ahead = <<>> /\ taken = <<>> /\ delivered = <<>>
    /\ failure = Absent /\ output = Absent

Stops(error) == step' = "done" /\ failure' = error /\ ahead' = <<>>
Unread == UNCHANGED <<fetched, taken, delivered>>
Fixed == UNCHANGED <<reader, operation>>

-----------------------------------------------------------------------------
(* run_script: the script compiles, then its stored login is put in place; an *)
(* unreadable one ends the run before the stage.                              *)
Compile(works) ==
    /\ step = "compile" /\ Unread /\ Fixed /\ UNCHANGED <<auth, output>>
    /\ IF works THEN step' = "auth" /\ UNCHANGED <<failure, ahead>> ELSE Stops("compile")
HydrateAuth(found) ==
    /\ step = "auth" /\ Unread /\ Fixed /\ UNCHANGED output
    /\ auth' = IF found = "unreadable" THEN "missing" ELSE found
    /\ IF found = "unreadable" THEN Stops("auth") ELSE step' = "stage" /\ UNCHANGED <<failure, ahead>>

-----------------------------------------------------------------------------
AllItems == FlattenSeq([i \in DOMAIN fetched |-> fetched[i].items])
At == IF fetched = <<>> THEN Null ELSE Last(fetched).next
MayFetch == step = "stage" /\ operation \in Listed /\ ahead = <<>> /\ At # Absent
\* The items of a page are read as a whole: only a paragraph may come without an id.
Readable(items) == operation = "paragraphs" \/ Absent \notin Range(items)

\* run_page: the reducer completes with a result and perhaps a next cursor.
FetchPage(items, next) ==
    /\ MayFetch /\ Len(fetched) < MaxPages /\ Fixed /\ UNCHANGED <<auth, taken, delivered, output>>
    /\ IF Readable(items)
       THEN /\ fetched' = Append(fetched, [cursor |-> At, items |-> items, next |-> next])
            /\ ahead' = items /\ UNCHANGED <<step, failure>>
       ELSE Stops("unreadable") /\ UNCHANGED fetched
PageFails == MayFetch /\ Stops("script") /\ Unread /\ Fixed /\ UNCHANGED <<auth, output>>

\* Mutant: an item is named by its place on the page.
IdentityOfPage(item, index) == IF item = Absent THEN <<"generated", index - Len(AllItems) + Len(Last(fetched).items)>> ELSE <<"source", item>>
\* into_paragraph: without an id of its own an item is known by its place.
IdentityOf(item, index) == IF item = Absent THEN <<"generated", index>> ELSE <<"source", item>>

(* The next item. A search passes over what it has seen; a chapter or a       *)
(* paragraph that comes twice is an error, and the stream ends with it.       *)
TakeItem ==
    /\ step = "stage" /\ ahead # <<>> /\ Fixed /\ UNCHANGED <<auth, fetched, output>>
    /\ LET id == IdentityOf(Head(ahead), Len(taken)) IN
       /\ taken' = Append(taken, id)
       /\ \/ /\ id \notin Range(delivered)
             /\ delivered' = Append(delivered, id) /\ ahead' = Tail(ahead) /\ UNCHANGED <<step, failure>>
          \/ /\ id \in Range(delivered) /\ operation = "search"
             /\ ahead' = Tail(ahead) /\ UNCHANGED <<delivered, step, failure>>
          \/ /\ id \in Range(delivered) /\ operation # "search"
             /\ Stops("duplicate") /\ UNCHANGED delivered

StreamEnds == /\ step = "stage" /\ operation \in Listed /\ ahead = <<>> /\ At = Absent
              /\ Stops(Absent) /\ Unread /\ Fixed /\ UNCHANGED <<auth, output>>
AppLeaves == /\ reader = "app" /\ step = "stage"
             /\ Stops("left") /\ Unread /\ Fixed /\ UNCHANGED <<auth, output>>

\* book_info and auth_status: one round; without a login it is not even asked.
RunValue(error) ==
    /\ step = "stage" /\ operation \in {"bookInfo", "login.status"}
    /\ operation = "login.status" /\ auth = "unsupported" <=> error = "unsupported"
    /\ operation = "login.status" /\ auth = "missing" => error = Absent
    /\ Stops(error) /\ Unread /\ Fixed /\ UNCHANGED <<auth, output>>

(* One page of any operation, with the input and the cursor as typed; its     *)
(* next cursor is shown and never followed.                                   *)
DebugOperationPage(input, cursor, named, probes, error) ==
    /\ step = "stage" /\ operation = "manual" /\ Fixed /\ UNCHANGED <<auth, taken, delivered, output>>
    /\ LET refused == \/ input # "object" \/ ~cursor \/ named \notin Operation
                      \/ named = "login.status" /\ ~probes
       IN IF refused THEN Stops("input") /\ UNCHANGED fetched
          ELSE Stops(error) /\ fetched' = Append(fetched, [cursor |-> Null, items |-> <<>>, next |-> Absent])

\* wrap_stream_output, and the results of the other stages.
Report == /\ reader = "debug" /\ step = "done" /\ output = Absent
          /\ failure = Absent \/ delivered # <<>>
          /\ output' = delivered
          /\ UNCHANGED <<reader, operation, step, auth, fetched, ahead, taken, delivered, failure>>

PagesNext ==
    \/ \E works \in BOOLEAN : Compile(works)
    \/ \E found \in {"unsupported", "missing", "applied", "unreadable"} : HydrateAuth(found)
    \/ MayFetch /\ \E items \in SeqOf(Id \cup {Absent}, MaxItems - Len(AllItems)), next \in PageCursor \cup {Absent} : FetchPage(items, next)
    \/ PageFails \/ TakeItem \/ StreamEnds \/ AppLeaves \/ Report
    \/ \E error \in {Absent, "script", "unsupported"} : RunValue(error)
    \/ \E input \in {"broken", "array", "object"}, cursor, probes \in BOOLEAN,
          named \in Operation \cup {"other"}, error \in {Absent, "script"} :
            DebugOperationPage(input, cursor, named, probes, error)

-----------------------------------------------------------------------------
Firsts(s) == SelectSeq([i \in DOMAIN s |-> <<i, s[i]>>], LAMBDA p : \A j \in 1 .. p[1] - 1 : s[j] # p[2])
Distinct(s) == Cardinality(Range(s)) = Len(s)

(* What a list delivers is what its pages hold: a search the first of each    *)
(* identity, any other list its longest beginning without a repetition, with  *)
(* an error after it exactly if it goes on; a paragraph without an id is      *)
(* known by its place in the chapter, whatever page it is on. The pages are a *)
(* chain of cursors, and a list that ends without an error is read to its end.*)
(* As an identity never repeats, a chapter list takes no more pages with      *)
(* items than it has chapters (paged_stream, dedup_stream,                    *)
(* unique_search_stream, into_paragraph of the native feed).                  *)
ListsTrue ==
    /\ operation = "search" => delivered = [i \in DOMAIN Firsts(taken) |-> Firsts(taken)[i][2]]
    /\ operation # "search" => IF failure = "duplicate" THEN ~Distinct(taken) /\ delivered = Front(taken)
                               ELSE Distinct(taken) /\ delivered = taken
    /\ \A i \in DOMAIN taken : taken[i] = IdentityOf(AllItems[i], i - 1)
    /\ \A i \in DOMAIN fetched : fetched[i].cursor = IF i = 1 THEN Null ELSE fetched[i - 1].next
    /\ step = "done" /\ failure = Absent => Len(taken) = Len(AllItems) /\ (fetched # <<>> => At = Absent)
    /\ operation = "chapters" =>
         Cardinality({i \in DOMAIN fetched : fetched[i].items # <<>>}) <= Cardinality(Id) + 1
    \* A run of the developer tools shows what came before its error, and an empty
    \* list only when the list was read to its end.
    /\ output # Absent => output = delivered /\ (delivered = <<>> => failure = Absent)

=============================================================================
