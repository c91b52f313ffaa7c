------------------------------ MODULE HttpGate ------------------------------
(* The HTTP client of one feed: the gate of its access_domains for the first  *)
(* URL and for every redirect hop, the cap on a body, and the developer       *)
(* trace, which records the requests of the one task that runs in its scope.  *)
(* The server is the environment: it answers anything at any time.            *)
EXTENDS Integers, Sequences, SequencesExt, FiniteSetsExt

CONSTANTS
    Task, Scoped,       \* the tasks of the feed; Scoped is the debug run, or none of them
    Letter, Host,       \* host names, as sequences of characters
    AccessDomains,      \* the allowlist: records [wild, name]
    MaxRedirects, Cap, ChunkSize,
    EntryLimit, BodyBudget, PreviewCap,
    MaxRequests         \* bound of the model: requests of one task

ASSUME GateAssumption == /\ {MaxRedirects, Cap, EntryLimit, BodyBudget, PreviewCap} \subseteq Nat
                         /\ ChunkSize \subseteq Nat \ {0}
Dot == "."
ASSUME NamesAre == /\ Dot \in Letter /\ Host \subseteq Seq(Letter)
                   /\ AccessDomains \subseteq [wild : BOOLEAN, name : Seq(Letter)]
ASSUME OneScope == Scoped \subseteq Task /\ \A s, t \in Scoped : s = t

VARIABLES
    requests,   \* per task: what it is doing, and with which host
    contacted,  \* hosts that have been sent something
    results,    \* per task: how its requests ended, in order
    entries, dropped, budget     \* TraceBufferState

gateVars == <<requests, contacted, results, entries, dropped, budget>>

Idle == [phase |-> "idle", host |-> <<>>, hops |-> 0, body |-> 0]
GateInit == /\ requests = [t \in Task |-> Idle] /\ contacted = {}
            /\ results = [t \in Task |-> <<>>]
            /\ entries = <<>> /\ dropped = 0 /\ budget = BodyBudget

\* host.trim_end_matches('.'): the host without the dots it ends in.
TrimmedHost(h) == SubSeq(h, 1, CHOOSE n \in 0..Len(h) : /\ \A i \in n + 1..Len(h) : h[i] = Dot
                                                        /\ n > 0 => h[n] # Dot)

EndsWith(h, name) == SubSeq(h, Len(h) - Len(name) + 1, Len(h)) = name

\* Mutant: a wildcard matches any host that ends in the name.
AllowedSuffix(host) == LET h == TrimmedHost(host) IN
    \E e \in AccessDomains : IF e.wild THEN Len(h) > Len(e.name) /\ EndsWith(h, e.name) ELSE h = e.name
\* domain_allowed, on characters as the code compares them.
Allowed(host) == LET h == TrimmedHost(host) IN
    \E e \in AccessDomains :
        IF e.wild THEN /\ Len(h) > Len(e.name) /\ EndsWith(h, e.name)
                       /\ h[Len(h) - Len(e.name)] = Dot
        ELSE h = e.name

\* A preview is the start of the body, read as UTF-8: what is no text grows threefold.
Previews(size) == LET n == Min({size, PreviewCap}) IN {n, 3 * n}
Unrecorded == UNCHANGED <<entries, dropped, budget>>

\* A preview that does not fit is cut to what is left, at the start of a character.
CutTo(n) == IF n <= budget THEN {n} ELSE {k \in 0..budget : k > budget - 4}
Record(e) == /\ \E kept \in CutTo(e.preview) : entries' = Append(entries, [e EXCEPT !.preview = kept])
             /\ budget' = (IF e.preview <= budget THEN budget - e.preview ELSE 0)
             /\ UNCHANGED dropped

\* Mutant: an entry past the limit is not counted.
PushUncounted(e) == IF Len(entries) >= EntryLimit THEN Unrecorded ELSE Record(e)
\* push: past the limit an entry is counted only.
Push(e) == IF Len(entries) >= EntryLimit
           THEN dropped' = dropped + 1 /\ UNCHANGED <<entries, budget>>
           ELSE Record(e)
\* The request of t ends; it is recorded when the task runs in the scope of a recorder.
Ends(t, outcome, size, preview) ==
    /\ requests' = [requests EXCEPT ![t] = Idle]
    /\ results' = [results EXCEPT ![t] = Append(@, outcome)]
    /\ IF t \in Scoped /\ outcome \notin {"too_large", "bad_method"}
       THEN Push([outcome |-> outcome, size |-> size, preview |-> preview])
       ELSE Unrecorded
Fails(t, outcome) == Ends(t, outcome, 0, 0) /\ UNCHANGED contacted
Sent(t, h, hops) == /\ requests' = [requests EXCEPT ![t] = [phase |-> "sent", host |-> h, hops |-> hops, body |-> 0]]
                    /\ contacted' = contacted \cup {h}
                    /\ Unrecorded /\ UNCHANGED results

(* execute: the gate first, then the method, then the request goes out.       *)
Execute(t, h, parses) ==
    /\ requests[t].phase = "idle" /\ Len(results[t]) < MaxRequests
    /\ \/ ~Allowed(h) /\ Fails(t, "blocked")
       \/ Allowed(h) /\ ~parses /\ Fails(t, "bad_method")
       \/ Allowed(h) /\ parses /\ Sent(t, h, 0)

SendFails(t) == requests[t].phase = "sent" /\ Fails(t, "send_error")

\* Mutant: the allowlist is not asked for a redirect.
RedirectedFree(t, h) ==
    /\ requests[t].phase = "sent"
    /\ LET hop == requests[t].hops + 1 IN
       \/ hop > MaxRedirects /\ Fails(t, "send_error")
       \/ hop <= MaxRedirects /\ Sent(t, h, hop)
(* redirect_policy: previous() holds the first URL and the hops so far. A hop *)
(* outside the allowlist stops the chain, and execute reports its 3xx.        *)
Redirected(t, h) ==
    /\ requests[t].phase = "sent"
    /\ LET hop == requests[t].hops + 1 IN
       \/ hop > MaxRedirects /\ Fails(t, "send_error")
       \/ hop <= MaxRedirects /\ ~Allowed(h) /\ Fails(t, "blocked")
       \/ hop <= MaxRedirects /\ Allowed(h) /\ Sent(t, h, hop)

(* A final response; its declared length may be missing, or a lie.            *)
Answered(t, declared) ==
    /\ requests[t].phase = "sent"
    /\ \/ declared > Cap /\ Fails(t, "too_large")
       \/ /\ declared <= Cap
          /\ requests' = [requests EXCEPT ![t].phase = "reading"]
          /\ Unrecorded /\ UNCHANGED <<contacted, results>>

\* Mutant: the size is compared before the chunk is added.
FitsCapBefore(t, c) == requests[t].body <= Cap
(* read_body: a chunk that would pass the cap ends the request.               *)
FitsCap(t, c) == requests[t].body + c <= Cap
ReadChunk(t, c) ==
    /\ requests[t].phase = "reading"
    /\ \/ ~FitsCap(t, c) /\ Fails(t, "too_large")
       \/ /\ FitsCap(t, c)
          /\ requests' = [requests EXCEPT ![t].body = @ + c]
          /\ Unrecorded /\ UNCHANGED <<contacted, results>>
BodyFails(t) == requests[t].phase = "reading" /\ Fails(t, "body_error")
BodyEnds(t) == /\ requests[t].phase = "reading"
               /\ \E p \in Previews(requests[t].body) : Ends(t, "response", requests[t].body, p)
               /\ UNCHANGED contacted

GateNext == \E t \in Task :
    \/ \E h \in Host : Redirected(t, h) \/ \E parses \in BOOLEAN : Execute(t, h, parses)
    \/ \E c \in ChunkSize \cup {0, Cap + 1} : Answered(t, c)
    \/ \E c \in ChunkSize : ReadChunk(t, c)
    \/ SendFails(t) \/ BodyFails(t) \/ BodyEnds(t)
GateSpec == GateInit /\ [][GateNext]_gateVars

-----------------------------------------------------------------------------
(* Reference: e covers h when h is its name, or for a wildcard when h is some *)
(* label, a dot and the name; the trailing dots of a host are no part of it.  *)
Words(h) == {SubSeq(h, i, j) : i \in 1..Len(h) + 1, j \in 0..Len(h)}
Covers(e, h) == \E label, dots \in Words(h) :
    /\ Range(dots) \subseteq {Dot}
    /\ h = (IF e.wild THEN label \o <<Dot>> ELSE <<>>) \o e.name \o dots

(* No request, first or redirected, ever reaches a host outside the           *)
(* access_domains, none follows more hops than the limit, and no body that is *)
(* held in memory passes the cap (http.rs: execute, redirect_policy,          *)
(* read_body, domain_allowed).                                                *)
RequestsContained ==
    /\ \A h \in contacted : \E e \in AccessDomains : Covers(e, h)
    /\ \A t \in Task : requests[t].hops <= MaxRedirects /\ requests[t].body <= Cap

\* The requests a trace tells of, and which of them request n is.
Traced(rs) == {n \in DOMAIN rs : rs[n] \notin {"too_large", "bad_method"}}
Rank(rs, n) == Cardinality({m \in Traced(rs) : m <= n})
(* The trace of a debug run lists its own requests in order and no others,    *)
(* but for refusals of a size or a method, counts what is past the limit, and *)
(* keeps previews within the budget of the run (trace.rs: push, scope).       *)
TraceTrue ==
    /\ \A t \in Scoped : LET rs == results[t] IN
         /\ Len(entries) + dropped = Cardinality(Traced(rs))
         /\ \A n \in Traced(rs) : Rank(rs, n) <= Len(entries) => entries[Rank(rs, n)].outcome = rs[n]
    /\ Len(entries) <= EntryLimit /\ (dropped > 0 => Len(entries) = EntryLimit)
    /\ Scoped = {} => entries = <<>> /\ dropped = 0
    /\ \E total \in [0..Len(entries) -> 0..BodyBudget] :
         /\ total[0] = 0 /\ \A n \in DOMAIN entries : total[n] = total[n - 1] + entries[n].preview
         /\ budget >= 0 /\ total[Len(entries)] + budget <= BodyBudget

=============================================================================
