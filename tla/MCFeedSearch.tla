----------------------------- MODULE MCFeedSearch ----------------------------
(* FeedSearch for TLC: either one search, of one feed or of all of them,     *)
(* whose caller may leave it, or several searches of one feed, for the       *)
(* permits they share: the drained ones are shorter, and the callers of the  *)
(* others take nothing.                                                      *)
EXTENDS FeedSearch

VARIABLE shared   \* which of the two

One == CHOOSE f \in Feed : TRUE
\* In a behaviour of one search the drained streams have no sender, and their
\* end comes before anything else.
Apart == ~shared /\ \E s \in Drained : ~ended[s]

MCInit ==
    /\ Init
    /\ shared \in BOOLEAN
    /\ IF shared THEN \A s \in Stream : senders[s] = {One} /\ Aggregated(s)
                 ELSE \A s \in Drained : senders[s] = {}
MCNext ==
    /\ Next /\ UNCHANGED shared
    /\ shared => /\ \A s \in Drained, f \in Feed : ItemsOf(s, f)' <= 1
                 /\ \A s \in Stream \ Drained : returned'[s] = <<>>
    /\ Apart => UNCHANGED <<sent, stage, line, cancel>>
                /\ \A s \in Stream \ Drained : UNCHANGED <<reader[s], chan[s]>>
MCSpec == MCInit /\ [][MCNext]_<<vars, shared>> /\ Fairness
=============================================================================
