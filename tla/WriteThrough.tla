---------------------------- MODULE WriteThrough ----------------------------
(* What the per-feed storage promises a feed script, whatever its queue does *)
(* (src/native/hub/src/feed_storage.rs, module comment): a value that was    *)
(* accepted is shown at once and kept on disk, "a crash can lose the last    *)
(* few writes", and nothing else is ever lost or invented.                   *)
CONSTANTS Cell, Value, None

VARIABLES
    view,     \* what a read returns
    disk,     \* what the disk holds once every accepted write has settled
    unsafe,   \* cells with an accepted write that has not settled
    offered,  \* <<cell, value>> accepted and about to be shown
    open      \* the storage is attached to its database

vars == <<view, disk, unsafe, offered, open>>
Content == [Cell -> Value \cup {None}]

Init == /\ disk \in Content
        /\ view = [c \in Cell |-> None]
        /\ unsafe = {} /\ offered = {} /\ open = FALSE

Load == /\ ~open /\ open' = TRUE
        /\ view' = disk
        /\ UNCHANGED <<disk, unsafe, offered>>

Submit(c, v) == /\ open
                /\ disk' = [disk EXCEPT ![c] = v]
                /\ unsafe' = unsafe \cup {c}
                /\ offered' = offered \cup {<<c, v>>}
                /\ UNCHANGED <<view, open>>

Show(c, v) == /\ <<c, v>> \in offered
              /\ view' = [view EXCEPT ![c] = v]
              /\ offered' \in {offered, offered \ {<<c, v>>}}
              /\ UNCHANGED <<disk, unsafe, open>>

\* The last accepted write of c settles, or the database refuses it.
Settle(c) == /\ c \in unsafe
             /\ unsafe' = unsafe \ {c}
             /\ \E v \in Value \cup {None} : disk' = [disk EXCEPT ![c] = v]
             /\ UNCHANGED <<view, offered, open>>

\* The owner of the cells is uninstalled: what had settled is deleted.
Wipe(cells) == /\ disk' = [c \in Cell |-> IF c \in cells \ unsafe THEN None ELSE disk[c]]
               /\ UNCHANGED <<view, unsafe, offered, open>>

\* A crash loses writes that had not settled and no other.
Down == /\ disk' \in {d \in Content : \A c \in Cell \ unsafe : d[c] = disk[c]}
        /\ view' = [c \in Cell |-> None]
        /\ unsafe' = {} /\ offered' = {} /\ open' = FALSE

Next == \/ Load \/ Down
        \/ \E c \in Cell : Settle(c) \/ \E v \in Value \cup {None} : Submit(c, v) \/ Show(c, v)
        \/ \E cells \in SUBSET Cell : Wipe(cells)

Spec == Init /\ [][Next]_vars
=============================================================================
