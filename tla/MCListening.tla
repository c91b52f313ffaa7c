----------------------------- MODULE MCListening ----------------------------
(* Listening for TLC.                                                      *)
EXTENDS Listening, TLC

\* Tasks and books are interchangeable; only the safety runs use it.
Symmetry == Permutations(Task) \cup Permutations(Book)

\* Bounds of the run with all requests: reading by hand ends at the last
\* paragraph of a chapter; a reader opens at the first place, while its book is
\* spoken and no sleep timer is set (at other times it does as reading by hand).
Places ==
    /\ session' = session /\ pc' = pc =>
          \A b \in Book : saved'[b] = saved[b] \/ saved'[b][2] \in {0, NP}
    /\ \/ reopened' \subseteq reopened
       \/ Active /\ reopened' = {session.book} /\ saved'[session.book] = <<1, 0>> /\ session.sleep = "off"
=============================================================================
