----------------------------- MODULE FeedRuntime ----------------------------
(* The reducer loop of a JavaScript feed (script/js/feed.rs): each round the *)
(* script returns a step, the host executes it and feeds the outcome back.   *)
(* Requests go through login.patchRequest, retries, and a small response     *)
(* cache whose lock is held across the request. Operations of one feed       *)
(* interleave at every await, and each may be dropped at any of them.        *)
EXTENDS WebviewPrompts, FiniteSets

CONSTANTS Kind,          \* Op -> "page", "comments" or "status" (login.status)
          CacheKey, Auth,
          Inst,          \* loaded instances of the feed, the first one loaded first
          MaxSteps,      \* MAX_INTERNAL_STEPS
          MaxRetries,    \* MAX_RETRIES
          MaxCached      \* MAX_CACHED_RESPONSES

ASSUME RuntimeBounds == MaxSteps \in Nat /\ MaxRetries \in Nat /\ MaxCached \in Nat
ASSUME RuntimeLoaded == Inst # {}

VARIABLES
    pc, inst,    \* operation -> where it is, and the instance it runs on
    left,        \* operation -> steps_left
    tries,       \* operation -> attempt of execute_http_with_retry
    want,        \* operation -> cache key of its request, or None
    sent,        \* operation -> the auth its request was patched with
    seen,        \* the auth the last response to a login.status was fetched with
    heard,       \* who gave that response: "site", "cache", or "nothing" yet
    auth,        \* instance -> auth_info
    responses,   \* instance -> response_cache: key -> auth it was fetched with
    holder       \* instance -> the operation holding the lock of the cache

ops == <<pc, inst, left, tries, want, sent, seen, heard>>
caches == <<responses, holder>>
runtime == <<ops, auth, caches>>

RuntimeInit == /\ pc = [o \in Op |-> "idle"]
               /\ inst = [o \in Op |-> CHOOSE i \in Inst : TRUE]
               /\ left = [o \in Op |-> 0] /\ tries = [o \in Op |-> 0]
               /\ want = [o \in Op |-> None] /\ sent = [o \in Op |-> None]
               /\ seen = None /\ heard = "nothing"
               /\ auth = [i \in Inst |-> None]
               /\ responses = [i \in Inst |-> <<>>] /\ holder = [i \in Inst |-> None]

At(o, l) == pc[o] = l
Goto(o, l) == pc' = [pc EXCEPT ![o] = l]
NoRequest(o) == /\ want' = [want EXCEPT ![o] = None] /\ sent' = [sent EXCEPT ![o] = None]
                /\ tries' = [tries EXCEPT ![o] = 0]
Freed(o) == [holder EXCEPT ![inst[o]] = IF @ = o THEN None ELSE @]

\* A response fetched with the auth `a` goes to the reducer.
Hears(o, who, a) == IF Kind[o] = "status" THEN heard' = who /\ seen' = a ELSE UNCHANGED <<seen, heard>>

\* The loop starts with its budget of steps.
Begin(o, i) == /\ At(o, "idle") /\ Goto(o, "invoke")
               /\ inst' = [inst EXCEPT ![o] = i]
               /\ left' = [left EXCEPT ![o] = MaxSteps]
               /\ Hears(o, "nothing", None)
               /\ UNCHANGED <<tries, want, sent, auth, caches, prompts>>

\* Mutant: the loop has no budget.
SpendFree(o, l) == Goto(o, l) /\ UNCHANGED left

Spend(o, l) == IF left[o] = 0 THEN Goto(o, "failed") /\ UNCHANGED left
               ELSE Goto(o, l) /\ left' = [left EXCEPT ![o] = @ - 1]
\* A request has a cache key or none; that of a comment is ignored.
Keys(o) == IF Kind[o] = "comments" THEN {None} ELSE CacheKey \cup {None}
\* The reducer answers with one of its steps, or throws.
Request(o) == /\ At(o, "invoke") /\ Spend(o, "patch")
              /\ \E k \in Keys(o) : want' = [want EXCEPT ![o] = k]
              /\ UNCHANGED <<inst, tries, sent, seen, heard, auth, caches, prompts>>
Compute(o) == /\ At(o, "invoke") /\ Spend(o, "invoke")
              /\ UNCHANGED <<inst, tries, want, sent, seen, heard, auth, caches, prompts>>
Webview(o) == /\ At(o, "invoke") /\ Spend(o, "webview")
              /\ Cardinality({p \in Op : At(p, "webview")}) < Cardinality(Id \ Named)   \* bound
              /\ UNCHANGED <<inst, tries, want, sent, seen, heard, auth, caches, prompts>>
Finish(o) == /\ At(o, "invoke") /\ \E l \in {"done", "failed"} : Goto(o, l)
             /\ UNCHANGED <<inst, left, tries, want, sent, seen, heard, auth, caches, prompts>>
Invoke(o) == Request(o) \/ Compute(o) \/ Webview(o) \/ Finish(o)

\* apply_auth_patch with the auth of this moment, which may be newer than the
\* one the reducer saw.
Patch(o) == /\ At(o, "patch") /\ Goto(o, IF want[o] = None THEN "send" ELSE "lock")
            /\ sent' = [sent EXCEPT ![o] = auth[inst[o]]]
            /\ UNCHANGED <<inst, left, tries, want, seen, heard, auth, caches, prompts>>

\* execute_cached_http: look again under the lock, and keep it on a miss.
Hit(o) == /\ At(o, "lock") /\ holder[inst[o]] = None
          /\ want[o] \in DOMAIN responses[inst[o]]
          /\ Goto(o, "invoke") /\ NoRequest(o) /\ Hears(o, "cache", responses[inst[o]][want[o]])
          /\ UNCHANGED <<inst, left, auth, caches, prompts>>

\* Mutant: nobody looks again once the lock is taken.
MissUnchecked(o) == /\ At(o, "lock") /\ holder[inst[o]] = None
                    /\ holder' = [holder EXCEPT ![inst[o]] = o]
                    /\ Goto(o, "send")
                    /\ UNCHANGED <<inst, left, tries, want, sent, seen, heard, auth, responses, prompts>>

Miss(o) == /\ At(o, "lock") /\ holder[inst[o]] = None
           /\ want[o] \notin DOMAIN responses[inst[o]]
           /\ holder' = [holder EXCEPT ![inst[o]] = o]
           /\ Goto(o, "send")
           /\ UNCHANGED <<inst, left, tries, want, sent, seen, heard, auth, responses, prompts>>
Lock(o) == Hit(o) \/ Miss(o)

Cached(o) == LET old == responses[inst[o]]
             IN  [k \in DOMAIN old \cup {want[o]} |-> IF k = want[o] THEN sent[o] ELSE old[k]]
\* A response; a cacheable one is kept while there is room.
Respond(o) ==
    /\ At(o, "send") /\ Goto(o, "invoke") /\ NoRequest(o)
    /\ Hears(o, "site", sent[o])
    /\ \/ UNCHANGED responses             \* not 200, or too large
       \/ /\ want[o] # None /\ Cardinality(DOMAIN responses[inst[o]]) < MaxCached
          /\ responses' = [responses EXCEPT ![inst[o]] = Cached(o)]
    /\ holder' = Freed(o)
    /\ UNCHANGED <<inst, left, auth, prompts>>
Retry(o) == /\ At(o, "send") /\ tries[o] < MaxRetries
            /\ tries' = [tries EXCEPT ![o] = @ + 1]
            /\ UNCHANGED <<pc, inst, left, want, sent, seen, heard, auth, caches, prompts>>

\* Mutant: an error leaves the cache locked.
HttpFailsLocked(o) == /\ At(o, "send") /\ Goto(o, "failed") /\ NoRequest(o)
                      /\ UNCHANGED <<inst, left, seen, heard, auth, caches, prompts>>

HttpFails(o) == /\ At(o, "send") /\ Goto(o, "failed") /\ NoRequest(o) /\ holder' = Freed(o)
                /\ UNCHANGED <<inst, left, seen, heard, auth, responses, prompts>>
Network(o) == Respond(o) \/ Retry(o) \/ HttpFails(o)

Ask(o) == /\ At(o, "webview") /\ Goto(o, "parked") /\ OpenWebview(o)
          /\ UNCHANGED <<inst, left, tries, want, sent, seen, heard, auth, caches>>
Unpark(o) == /\ At(o, "parked") /\ answer[o] # None
             /\ Goto(o, IF answer[o] = "snapshot" THEN "invoke" ELSE "failed")
             /\ answer' = [answer EXCEPT ![o] = None]
             /\ UNCHANGED <<inst, left, tries, want, sent, seen, heard, auth, caches, pending, app>>

\* The result is taken, or the future is dropped where it stands: guards and
\* receivers go with it.
Settle(o) == /\ pc[o] \in {"done", "failed"} /\ Goto(o, "idle")
             /\ left' = [left EXCEPT ![o] = 0] /\ Hears(o, "nothing", None)
             /\ UNCHANGED <<inst, tries, want, sent, auth, caches, prompts>>
Drop(o) == /\ pc[o] \in {"lock", "send", "webview", "parked"} /\ Goto(o, "idle")
           /\ NoRequest(o) /\ holder' = Freed(o) /\ DropReceiver(o)
           /\ left' = [left EXCEPT ![o] = 0]
           /\ UNCHANGED <<inst, seen, heard, auth, responses>>

Proceed(o) == Invoke(o) \/ Patch(o) \/ Lock(o) \/ Network(o) \/ Ask(o) \/ Unpark(o)
-----------------------------------------------------------------------------
RuntimeTypeOK ==
    /\ pc \in [Op -> {"idle", "invoke", "patch", "lock", "send", "webview", "parked", "done", "failed"}]
    /\ left \in [Op -> 0..MaxSteps] /\ tries \in [Op -> 0..MaxRetries]
    /\ auth \in [Inst -> Auth \cup {None}]
    /\ \A i \in Inst : DOMAIN responses[i] \subseteq CacheKey

\* Single flight: the lock of the response cache is held by an operation that
\* is sending the request of an uncached key, and by no other: no error, drop
\* or hit leaves it locked, and nobody fetches a key that is already there.
OneFetchPerKey ==
    \A o \in Op : (At(o, "send") /\ want[o] # None) <=> (holder[inst[o]] = o)
CachedOnce ==
    /\ OneFetchPerKey
    /\ \A o \in Op : holder[inst[o]] = o => want[o] \notin DOMAIN responses[inst[o]]
    /\ \A i \in Inst : Cardinality(DOMAIN responses[i]) <= MaxCached
=============================================================================
