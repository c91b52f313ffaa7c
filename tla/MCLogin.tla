------------------------------- MODULE MCLogin ------------------------------
(* Instances of Login for TLC; the bounds are in the .cfg files. Each        *)
(* behaviour has a cast, who starts anything in it, and each cast has the    *)
(* props that its questions need: that keeps the state space small enough    *)
(* for the temporal properties. What is left out are alternatives of steps   *)
(* that may always go another way, so that no operation is held up by it.    *)
EXTENDS Login

CONSTANT Casts   \* sets of operations and of "upgrade"

VARIABLE cast

Kinds == [o \in Op |-> IF o \in {"status", "comments"} THEN o ELSE "page"]
AllCasts == {{"page"}, {"page", "comments"}, {"page", "status"}, {"status", "upgrade"}}

\* Alone, an operation may leave one prompt behind and open the next; beside
\* another one the login has one prompt at a time, and a page has none.
MayOpen(o) == \/ cast = {"page"}
              \/ o = Verifier /\ Id \cap Named = {}

MCInit == Init /\ cast \in Casts
MCNext == /\ Next /\ UNCHANGED cast
          /\ \A o \in Op \ cast : pc'[o] = "idle"
          /\ \A o \in Op : At(o, "invoke") /\ pc'[o] = "webview" => MayOpen(o)
          /\ tries' # tries => "comments" \in cast \/ \A o \in Op : tries'[o] = 0
          /\ "status" \in cast \/ UNCHANGED <<stored, onTrust, login, hydrated>>
          /\ "page" \in cast => login'.cand \in Valid \cup {None} /\ ~login'.trust
          /\ "upgrade" \in cast \/ UNCHANGED current
MCSpec == MCInit /\ [][MCNext]_<<vars, cast>>
MCFairSpec == MCSpec /\ Fairness
=============================================================================
