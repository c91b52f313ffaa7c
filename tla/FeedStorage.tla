---------------------------- MODULE FeedStorage -----------------------------
(* Per-feed key-value storage of the scripts: a read cache hydrated once and *)
(* an asynchronous writer that drains a FIFO queue into feed_storage, whose  *)
(* rows reference feeds(id).                                                 *)
(* A write is two steps (queue it, then publish it in the cache), and two    *)
(* loaded instances of one feed may be in it at the same time, for the old   *)
(* instance of an upgraded feed lives on in its running streams.             *)
EXTENDS Naturals, Sequences

CONSTANTS Feed, Key, Value, Realm, None,
          MaxQueue     \* bound on queued writes (the code has none)

Cell == Feed \X Key
Stored == Value \cup {None}                \* None: no row
Op == [cell : Cell, value : Stored]        \* value None: Op::Delete

VARIABLES
    installed,  \* feeds with a row in feeds
    table,      \* feed_storage
    cache,      \* FeedStorage.cache
    queue,      \* the writer's channel
    writing,    \* per realm: the write queued and not yet in the cache
    attached,   \* FeedStorage.tx is set
    lapsed      \* history: cells whose cache and table were let drift apart

storageVars == <<table, cache, queue, writing, attached, lapsed>>
vars == <<installed, storageVars>>

Nothing == [c \in Cell |-> None]
Contended(r, c) == \E s \in Realm \ {r} : writing[s] # None /\ writing[s].cell = c

Init == /\ installed \in SUBSET Feed
        /\ table = Nothing /\ cache = Nothing
        /\ queue = <<>> /\ writing = [r \in Realm |-> None]
        /\ attached = FALSE /\ lapsed = {}

\* attach: hydrate the cache, then open the queue; a second call is ignored.
Attach == /\ ~attached /\ attached' = TRUE
          /\ cache' = table
          /\ UNCHANGED <<table, queue, writing, lapsed>>

\* set and delete, first half. Unattached they throw and change nothing.
Enqueue(r, c, v) ==
    /\ attached /\ writing[r] = None /\ Len(queue) < MaxQueue
    /\ queue' = Append(queue, [cell |-> c, value |-> v])
    /\ writing' = [writing EXCEPT ![r] = [cell |-> c, value |-> v]]
    /\ lapsed' = IF Contended(r, c) THEN lapsed \cup {c} ELSE lapsed \ {c}
    /\ UNCHANGED <<table, cache, attached>>

\* Mutant: a delete is queued and the cache keeps the value.
PublishKept(r) ==
    /\ writing[r] # None
    /\ cache' = IF writing[r].value = None THEN cache
                ELSE [cache EXCEPT ![writing[r].cell] = writing[r].value]
    /\ writing' = [writing EXCEPT ![r] = None]
    /\ UNCHANGED <<table, queue, attached, lapsed>>

\* set and delete, second half: under the cache lock.
Publish(r) ==
    /\ writing[r] # None
    /\ cache' = [cache EXCEPT ![writing[r].cell] = writing[r].value]
    /\ writing' = [writing EXCEPT ![r] = None]
    /\ UNCHANGED <<table, queue, attached, lapsed>>

\* Queued writes behind the head.
Queued(c) == \E i \in DOMAIN queue : queue[i].cell = c
QueuedAgain(c) == \E i \in DOMAIN queue : i > 1 /\ queue[i].cell = c

\* Mutant: the writer takes the newest write first.
ApplyNewest ==
    /\ queue # <<>>
    /\ queue[Len(queue)].value = None \/ queue[Len(queue)].cell[1] \in installed
    /\ table' = [table EXCEPT ![queue[Len(queue)].cell] = queue[Len(queue)].value]
    /\ queue' = SubSeq(queue, 1, Len(queue) - 1)
    /\ UNCHANGED <<cache, writing, attached, lapsed>>

\* The writer applies the head.
Apply ==
    /\ queue # <<>>
    /\ Head(queue).value = None \/ Head(queue).cell[1] \in installed
    /\ table' = [table EXCEPT ![Head(queue).cell] = Head(queue).value]
    /\ queue' = Tail(queue)
    /\ UNCHANGED <<cache, writing, attached, lapsed>>

\* The database refuses the head (an error, or the feed has no row to
\* reference): it is dropped with a warning.
Drop ==
    /\ queue # <<>>
    /\ queue' = Tail(queue)
    /\ lapsed' = IF QueuedAgain(Head(queue).cell) THEN lapsed ELSE lapsed \cup {Head(queue).cell}
    /\ UNCHANGED <<table, cache, writing, attached>>

\* ON DELETE CASCADE of a removed feed; the read cache is not told.
Cascade(f) ==
    /\ table' = [c \in Cell |-> IF c[1] = f THEN None ELSE table[c]]
    /\ lapsed' = lapsed \cup {c \in Cell : c[1] = f /\ table[c] # None /\ ~Queued(c)}
    /\ UNCHANGED <<cache, queue, writing, attached>>

\* The process dies: the singleton is never flushed.
Crash ==
    /\ cache' = Nothing /\ queue' = <<>> /\ writing' = [r \in Realm |-> None]
    /\ attached' = FALSE /\ lapsed' = {}
    /\ UNCHANGED table

Next ==
    \/ (Attach \/ Apply \/ Drop \/ Crash) /\ UNCHANGED installed
    \/ \E r \in Realm, c \in Cell, v \in Stored : Enqueue(r, c, v) /\ UNCHANGED installed
    \/ \E r \in Realm : Publish(r) /\ UNCHANGED installed
    \/ \E f \in Feed : \/ Cascade(f) /\ installed' = installed \ {f}
                       \/ installed' = installed \cup {f} /\ UNCHANGED storageVars

Spec == Init /\ [][Next]_vars
-----------------------------------------------------------------------------
TypeOK == /\ installed \subseteq Feed /\ lapsed \subseteq Cell /\ attached \in BOOLEAN
          /\ table \in [Cell -> Stored] /\ cache \in [Cell -> Stored]
          /\ queue \in Seq(Op) /\ writing \in [Realm -> Op \cup {None}]

\* What the table will hold for c once the queue is drained.
IsLast(i, c) == /\ i \in DOMAIN queue /\ queue[i].cell = c
                /\ \A j \in DOMAIN queue : queue[j].cell = c => j <= i
WillHold(c, v) == /\ \A i \in DOMAIN queue : IsLast(i, c) => queue[i].value = v
                  /\ ~Queued(c) => table[c] = v
Settled(c) == IF Queued(c) THEN queue[CHOOSE i \in DOMAIN queue : IsLast(i, c)].value
              ELSE table[c]
\* What the cache will show for c once its writer has published.
InFlight(c) == {r \in Realm : writing[r] # None /\ writing[r].cell = c}
Shown(c) == IF InFlight(c) = {} THEN cache[c]
            ELSE writing[CHOOSE r \in InFlight(c) : TRUE].value

\* Except for a cell whose last write the database refused, whose feed was
\* removed, or that two instances of a feed wrote at once, the value feeds
\* read is the value the disk will hold when the writer has caught up: the
\* queue and the cache are fed in the same order (FeedStorage::set, delete).
CacheSettles == attached => \A c \in Cell \ lapsed : WillHold(c, Shown(c))

\* The storage implements the abstract promise: accepted writes survive a
\* crash once they have left the queue, and reads only show accepted values.
Abstract == INSTANCE WriteThrough WITH
    view <- cache, disk <- [c \in Cell |-> Settled(c)],
    unsafe <- {c \in Cell : Queued(c)}, open <- attached,
    offered <- {<<writing[r].cell, writing[r].value>> : r \in {s \in Realm : writing[s] # None}}
WriteThroughImplemented == Abstract!Spec
=============================================================================
