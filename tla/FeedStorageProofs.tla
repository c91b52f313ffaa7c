-------------------------- MODULE FeedStorageProofs --------------------------
(* The script storage keeps the promise of WriteThrough, and what its read   *)
(* cache shows is what the disk will hold, for any number of feeds, keys,    *)
(* values and loaded scripts.                                                *)
EXTENDS FeedStorage, TLAPS

\* No row is told from every write.
NoneIsNoWrite == None \notin Op

\* r has queued a write of c and not yet published it.
Writes(r, c) == writing[r] # None /\ writing[r].cell = c

(* Without an open queue there is nothing on its way; and for a cell that    *)
(* did not lapse, one script at most is writing it, and what that script is  *)
(* writing, or else what the cache shows, is what the table will hold.       *)
Quiet == ~attached => queue = <<>> /\ writing = [r \in Realm |-> None]
OneWriter(c) == \A r, s \in Realm : Writes(r, c) /\ Writes(s, c) => r = s
WriterAgrees(c) == \A r \in Realm : Writes(r, c) => WillHold(c, writing[r].value)
CacheAgrees(c) == (\A r \in Realm : ~Writes(r, c)) => WillHold(c, cache[c])
CellAgrees(c) == OneWriter(c) /\ WriterAgrees(c) /\ CacheAgrees(c)
Agreement == attached => \A c \in Cell \ lapsed : CellAgrees(c)
StorageInv == TypeOK /\ Quiet /\ Agreement

-----------------------------------------------------------------------------
(* The steps of the module, by name.                                         *)
WriterStep == \/ Attach \/ Apply \/ Drop \/ Crash
              \/ \E r \in Realm, c \in Cell, v \in Stored : Enqueue(r, c, v)
              \/ \E r \in Realm : Publish(r)
FeedStep(f) == \/ Cascade(f) /\ installed' = installed \ {f}
               \/ installed' = installed \cup {f} /\ UNCHANGED storageVars

LEMMA Steps ==
    ASSUME Next
    PROVE  (WriterStep /\ UNCHANGED installed) \/ \E f \in Feed : FeedStep(f)
  BY DEF Next, WriterStep, FeedStep

-----------------------------------------------------------------------------
(* The state stays well typed.                                               *)
LEMMA TypeStep ==
    ASSUME NoneIsNoWrite, TypeOK, Next
    PROVE  TypeOK'
  <1> USE DEF TypeOK, storageVars
  <1>1. CASE WriterStep /\ UNCHANGED installed
    <2>1. CASE Attach
      BY <1>1, <2>1 DEF Attach
    <2>2. CASE Apply
      <3>1. queue # <<>> /\ Head(queue) \in Op /\ Tail(queue) \in Seq(Op)
        BY <2>2 DEF Apply
      <3>2. QED
        BY <1>1, <2>2, <3>1 DEF Apply, Op
    <2>3. CASE Drop
      <3>1. queue # <<>> /\ Head(queue) \in Op /\ Tail(queue) \in Seq(Op)
        BY <2>3 DEF Drop
      <3>2. QED
        BY <1>1, <2>3, <3>1 DEF Drop, Op
    <2>4. CASE Crash
      <3>1. Nothing \in [Cell -> Stored] /\ <<>> \in Seq(Op)
        BY DEF Nothing, Stored
      <3>2. [r \in Realm |-> None] \in [Realm -> Op \cup {None}]
        OBVIOUS
      <3>3. QED
        BY <1>1, <2>4, <3>1, <3>2 DEF Crash
    <2>5. ASSUME NEW r \in Realm, NEW c \in Cell, NEW v \in Stored, Enqueue(r, c, v)
          PROVE  TypeOK'
      <3>1. [cell |-> c, value |-> v] \in Op
        BY DEF Op
      <3>2. QED
        BY <1>1, <2>5, <3>1 DEF Enqueue
    <2>6. ASSUME NEW r \in Realm, Publish(r)
          PROVE  TypeOK'
      <3>1. writing[r] \in Op
        BY <2>6 DEF Publish
      <3>2. QED
        BY <1>1, <2>6, <3>1 DEF Publish, Op
    <2>7. QED
      BY <1>1, <2>1, <2>2, <2>3, <2>4, <2>5, <2>6 DEF WriterStep
  <1>2. ASSUME NEW f \in Feed, FeedStep(f)
        PROVE  TypeOK'
    BY <1>2 DEF FeedStep, Cascade, Stored
  <1>3. QED
    BY <1>1, <1>2, Steps

LEMMA QuietStep ==
    ASSUME TypeOK, Quiet, Next
    PROVE  Quiet'
  <1>1. CASE WriterStep /\ UNCHANGED installed
    BY <1>1 DEF WriterStep, Quiet, TypeOK, Attach, Apply, Drop, Crash, Enqueue, Publish
  <1>2. ASSUME NEW f \in Feed, FeedStep(f)
        PROVE  Quiet'
    BY <1>2 DEF FeedStep, Cascade, Quiet, storageVars
  <1>3. QED
    BY <1>1, <1>2, Steps

-----------------------------------------------------------------------------
(* What the table will hold when the queue is applied, grows or shrinks.     *)
LEMMA TailShifts ==
    ASSUME TypeOK, queue # <<>>, queue' = Tail(queue), NEW c \in Cell
    PROVE  /\ \A i \in DOMAIN queue' : queue'[i] = queue[i + 1] /\ i + 1 \in DOMAIN queue
           /\ \A i \in DOMAIN queue : i > 1 => i - 1 \in DOMAIN queue' /\ queue'[i - 1] = queue[i]
           /\ queue[1] = Head(queue) /\ 1 \in DOMAIN queue
  BY DEF TypeOK

LEMMA ApplyKeeps ==
    ASSUME TypeOK, Apply, NEW c \in Cell, NEW v, WillHold(c, v)
    PROVE  WillHold(c, v)'
  <1>1. /\ queue # <<>> /\ queue' = Tail(queue)
        /\ table' = [table EXCEPT ![Head(queue).cell] = Head(queue).value]
    BY DEF Apply
  <1>2. /\ \A i \in DOMAIN queue' : queue'[i] = queue[i + 1] /\ i + 1 \in DOMAIN queue
        /\ \A i \in DOMAIN queue : i > 1 => i - 1 \in DOMAIN queue' /\ queue'[i - 1] = queue[i]
        /\ queue[1] = Head(queue) /\ 1 \in DOMAIN queue
    BY <1>1, TailShifts
  <1>3. DOMAIN queue \subseteq Nat /\ (\A i \in DOMAIN queue : i >= 1) /\ DOMAIN queue' \subseteq Nat
    BY <1>1 DEF TypeOK
  <1>4. ASSUME NEW i \in DOMAIN queue', IsLast(i, c)'
        PROVE  queue'[i].value = v
    <2>1. i + 1 \in DOMAIN queue /\ queue[i + 1].cell = c
      BY <1>2, <1>4 DEF IsLast
    <2>2. ASSUME NEW j \in DOMAIN queue, queue[j].cell = c
          PROVE  j <= i + 1
      <3>1. CASE j > 1
        BY <1>2, <1>3, <1>4, <2>2, <3>1 DEF IsLast
      <3>2. CASE j = 1
        BY <1>3, <3>2
      <3>3. QED
        BY <1>3, <3>1, <3>2
    <2>3. IsLast(i + 1, c)
      BY <2>1, <2>2 DEF IsLast
    <2>4. QED
      BY <1>2, <2>1, <2>3 DEF WillHold
  <1>5. ASSUME ~Queued(c)'
        PROVE  table'[c] = v
    <2>1. \A i \in DOMAIN queue : i > 1 => queue[i].cell # c
      BY <1>2, <1>5 DEF Queued
    <2>2. CASE Head(queue).cell = c
      <3>1. IsLast(1, c)
        BY <1>2, <1>3, <2>1, <2>2 DEF IsLast
      <3>2. Head(queue).value = v
        BY <1>2, <3>1 DEF WillHold
      <3>3. QED
        BY <1>1, <2>2, <3>2 DEF TypeOK
    <2>3. CASE Head(queue).cell # c
      <3>1. ~Queued(c)
        BY <1>2, <1>3, <2>1, <2>3 DEF Queued
      <3>2. QED
        BY <1>1, <2>3, <3>1 DEF WillHold, TypeOK
    <2>4. QED
      BY <2>2, <2>3
  <1>6. QED
    BY <1>4, <1>5 DEF WillHold

(* Dropping the head leaves what a cell will hold, unless it was its last.   *)
LEMMA DropHeadKeeps ==
    ASSUME TypeOK, Drop, NEW c \in Cell, NEW v, WillHold(c, v), c # Head(queue).cell \/ QueuedAgain(c)
    PROVE  WillHold(c, v)'
  <1>1. queue # <<>> /\ queue' = Tail(queue) /\ table' = table
    BY DEF Drop
  <1>2. /\ \A i \in DOMAIN queue' : queue'[i] = queue[i + 1] /\ i + 1 \in DOMAIN queue
        /\ \A i \in DOMAIN queue : i > 1 => i - 1 \in DOMAIN queue' /\ queue'[i - 1] = queue[i]
        /\ queue[1] = Head(queue) /\ 1 \in DOMAIN queue
    BY <1>1, TailShifts
  <1>3. DOMAIN queue \subseteq Nat /\ (\A i \in DOMAIN queue : i >= 1) /\ DOMAIN queue' \subseteq Nat
    BY <1>1 DEF TypeOK
  <1>4. Head(queue).cell = c => QueuedAgain(c)
    OBVIOUS
  <1>5. ASSUME NEW i \in DOMAIN queue', IsLast(i, c)'
        PROVE  queue'[i].value = v
    <2>1. i + 1 \in DOMAIN queue /\ queue[i + 1].cell = c
      BY <1>2, <1>5 DEF IsLast
    <2>2. ASSUME NEW j \in DOMAIN queue, queue[j].cell = c
          PROVE  j <= i + 1
      <3>1. CASE j > 1
        BY <1>2, <1>3, <1>5, <2>2, <3>1 DEF IsLast
      <3>2. CASE j = 1
        BY <1>3, <3>2
      <3>3. QED
        BY <1>3, <3>1, <3>2
    <2>3. IsLast(i + 1, c)
      BY <2>1, <2>2 DEF IsLast
    <2>4. QED
      BY <1>2, <2>1, <2>3 DEF WillHold
  <1>6. ASSUME ~Queued(c)'
        PROVE  table'[c] = v
    <2>1. \A i \in DOMAIN queue : i > 1 => queue[i].cell # c
      BY <1>2, <1>6 DEF Queued
    <2>2. Head(queue).cell # c
      BY <1>4, <2>1 DEF QueuedAgain
    <2>3. ~Queued(c)
      BY <1>2, <1>3, <2>1, <2>2 DEF Queued
    <2>4. QED
      BY <1>1, <2>3 DEF WillHold
  <1>7. QED
    BY <1>5, <1>6 DEF WillHold

LEMMA DropKeeps ==
    ASSUME TypeOK, Drop, NEW c \in Cell, NEW v, WillHold(c, v), c \notin lapsed'
    PROVE  WillHold(c, v)'
  BY DropHeadKeeps DEF Drop

(* A write that is queued is what its cell will hold; the others are as they *)
(* were.                                                                     *)
LEMMA AppendHolds ==
    ASSUME TypeOK, NEW w \in Op, queue' = Append(queue, w), table' = table
    PROVE  /\ WillHold(w.cell, w.value)'
           /\ \A c \in Cell : \A v : c # w.cell /\ WillHold(c, v) => WillHold(c, v)'
  <1>1. /\ DOMAIN queue' = DOMAIN queue \cup {Len(queue) + 1}
        /\ \A i \in DOMAIN queue : queue'[i] = queue[i] /\ i \in Nat /\ i <= Len(queue)
        /\ queue'[Len(queue) + 1] = w /\ Len(queue) \in Nat
    BY DEF TypeOK
  <1>2. WillHold(w.cell, w.value)'
    <2>1. \A i \in DOMAIN queue' : IsLast(i, w.cell)' => i = Len(queue) + 1
      BY <1>1 DEF IsLast
    <2>2. Queued(w.cell)'
      BY <1>1 DEF Queued
    <2>3. QED
      BY <1>1, <2>1, <2>2 DEF WillHold
  <1>3. ASSUME NEW c \in Cell, NEW v, c # w.cell, WillHold(c, v)
        PROVE  WillHold(c, v)'
    <2>1. \A i \in DOMAIN queue' : IsLast(i, c)' => i \in DOMAIN queue /\ IsLast(i, c)
      BY <1>1, <1>3 DEF IsLast
    <2>2. Queued(c) => Queued(c)'
      BY <1>1 DEF Queued
    <2>3. QED
      BY <1>1, <1>3, <2>1, <2>2 DEF WillHold
  <1>4. QED
    BY <1>2, <1>3

-----------------------------------------------------------------------------
(* Each step keeps the cells in agreement.                                   *)
(* A step that leaves the writers alone and keeps what a cell will hold.     *)
LEMMA SameWriters ==
    ASSUME NEW c \in Cell, CellAgrees(c), UNCHANGED <<writing, cache>>,
           \A v : WillHold(c, v) => WillHold(c, v)'
    PROVE  CellAgrees(c)'
  BY DEF CellAgrees, OneWriter, WriterAgrees, CacheAgrees, Writes

LEMMA AttachAgrees ==
    ASSUME TypeOK, Quiet, Attach
    PROVE  Agreement'
  <1>1. queue' = <<>> /\ cache' = table /\ table' = table /\ \A r \in Realm : writing'[r] = None
    BY DEF Attach, Quiet
  <1>2. ASSUME NEW c \in Cell
        PROVE  CellAgrees(c)'
    <2>1. \A r \in Realm : ~Writes(r, c)'
      BY <1>1 DEF Writes
    <2>2. WillHold(c, cache[c])'
      BY <1>1 DEF WillHold, Queued
    <2>3. QED
      BY <2>1, <2>2 DEF CellAgrees, OneWriter, WriterAgrees, CacheAgrees
  <1>3. QED
    BY <1>2 DEF Agreement

LEMMA EnqueueAgrees ==
    ASSUME NoneIsNoWrite, StorageInv, NEW r \in Realm, NEW c \in Cell, NEW v \in Stored, Enqueue(r, c, v)
    PROVE  Agreement'
  <1> DEFINE w == [cell |-> c, value |-> v]
  <1>1. w \in Op /\ w # None /\ w.cell = c /\ w.value = v
    BY DEF Op, NoneIsNoWrite
  <1>2. /\ attached /\ writing[r] = None /\ queue' = Append(queue, w) /\ table' = table /\ cache' = cache
        /\ writing' = [writing EXCEPT ![r] = w]
    BY DEF Enqueue
  <1>3. TypeOK
    BY DEF StorageInv
  <1>4. /\ WillHold(c, v)'
        /\ \A d \in Cell : \A x : d # c /\ WillHold(d, x) => WillHold(d, x)'
    <2> HIDE DEF w
    <2>1. QED
      BY <1>1, <1>2, <1>3, AppendHolds
  <1>5. writing'[r] = w /\ \A s \in Realm \ {r} : writing'[s] = writing[s]
    BY <1>2, <1>3 DEF TypeOK
  <1>6. ASSUME c \notin lapsed'
        PROVE  CellAgrees(c)'
    <2>1. ~Contended(r, c)
      BY <1>6 DEF Enqueue
    <2>2. \A s \in Realm : Writes(s, c)' => s = r
      BY <1>5, <2>1 DEF Writes, Contended
    <2>3. Writes(r, c)' /\ writing'[r].value = v
      BY <1>1, <1>5 DEF Writes
    <2>4. QED
      BY <1>4, <2>2, <2>3 DEF CellAgrees, OneWriter, WriterAgrees, CacheAgrees
  <1>7. ASSUME NEW d \in Cell \ lapsed', d # c
        PROVE  CellAgrees(d)'
    <2>1. d \in Cell \ lapsed
      BY <1>7 DEF Enqueue
    <2>2. CellAgrees(d)
      BY <1>2, <2>1 DEF StorageInv, Agreement
    <2>3. \A s \in Realm : /\ Writes(s, d)' <=> Writes(s, d)
                           /\ Writes(s, d) => writing'[s] = writing[s]
      BY <1>1, <1>2, <1>5, <1>7 DEF Writes
    <2>4. QED
      BY <1>2, <1>4, <1>7, <2>2, <2>3 DEF CellAgrees, OneWriter, WriterAgrees, CacheAgrees
  <1>8. QED
    BY <1>6, <1>7 DEF Agreement

LEMMA PublishAgrees ==
    ASSUME StorageInv, NEW r \in Realm, Publish(r)
    PROVE  Agreement'
  <1> DEFINE d == writing[r].cell
  <1>1. TypeOK /\ writing[r] # None /\ writing[r] \in Op /\ d \in Cell
    BY DEF StorageInv, TypeOK, Publish, Op
  <1>2. /\ attached /\ cache' = [cache EXCEPT ![d] = writing[r].value]
        /\ writing' = [writing EXCEPT ![r] = None]
        /\ lapsed' = lapsed /\ queue' = queue /\ table' = table
    BY <1>1 DEF Publish, StorageInv, Quiet
  <1>3. writing'[r] = None /\ \A s \in Realm \ {r} : writing'[s] = writing[s]
    BY <1>1, <1>2 DEF TypeOK
  <1>4. \A c \in Cell : \A v : WillHold(c, v) => WillHold(c, v)'
    BY <1>2 DEF WillHold, IsLast, Queued
  <1>5. ASSUME NEW c \in Cell \ lapsed'
        PROVE  CellAgrees(c)'
    <2>1. CellAgrees(c)
      BY <1>2, <1>5 DEF StorageInv, Agreement
    <2>2. \A s \in Realm : Writes(s, c)' => Writes(s, c) /\ s # r /\ writing'[s] = writing[s]
      BY <1>3 DEF Writes
    <2>3. CASE c = d
      <3>1. Writes(r, c)
        BY <1>1, <2>3 DEF Writes
      <3>2. \A s \in Realm : ~Writes(s, c)'
        BY <2>1, <2>2, <3>1 DEF CellAgrees, OneWriter
      <3>3. cache'[c] = writing[r].value
        BY <1>1, <1>2, <2>3 DEF TypeOK
      <3>4. WillHold(c, cache[c])'
        BY <1>4, <2>1, <3>1, <3>3 DEF CellAgrees, WriterAgrees
      <3>5. QED
        BY <3>2, <3>4 DEF CellAgrees, OneWriter, WriterAgrees, CacheAgrees
    <2>4. CASE c # d
      <3>1. cache'[c] = cache[c]
        BY <1>1, <1>2, <2>4 DEF TypeOK
      <3>2. \A s \in Realm : Writes(s, c)' <=> Writes(s, c)
        BY <1>3, <2>4 DEF Writes
      <3>3. OneWriter(c)' /\ WriterAgrees(c)'
        BY <1>4, <2>1, <2>2, <3>2 DEF CellAgrees, OneWriter, WriterAgrees
      <3>4. CacheAgrees(c)'
        BY <1>4, <2>1, <3>1, <3>2 DEF CellAgrees, CacheAgrees
      <3>5. QED
        BY <3>3, <3>4 DEF CellAgrees
    <2>5. QED
      BY <2>3, <2>4
  <1>6. QED
    BY <1>5 DEF Agreement

LEMMA CascadeAgrees ==
    ASSUME StorageInv, NEW f \in Feed, Cascade(f)
    PROVE  Agreement'
  <1>1. /\ table' = [c \in Cell |-> IF c[1] = f THEN None ELSE table[c]]
        /\ lapsed' = lapsed \cup {c \in Cell : c[1] = f /\ table[c] # None /\ ~Queued(c)}
        /\ UNCHANGED <<cache, queue, writing, attached>>
    BY DEF Cascade
  <1>2. ASSUME attached, NEW c \in Cell \ lapsed'
        PROVE  CellAgrees(c)'
    <2>1. CellAgrees(c)
      BY <1>1, <1>2 DEF StorageInv, Agreement
    <2>2. ~Queued(c) => table'[c] = table[c]
      BY <1>1, <1>2
    <2>3. \A v : WillHold(c, v) => WillHold(c, v)'
      BY <1>1, <2>2 DEF WillHold, IsLast, Queued
    <2>4. QED
      BY <1>1, <2>1, <2>3, SameWriters
  <1>3. QED
    BY <1>1, <1>2 DEF Agreement

LEMMA AgreementStep ==
    ASSUME NoneIsNoWrite, StorageInv, Next
    PROVE  Agreement'
  <1>0. TypeOK /\ Quiet /\ Agreement
    BY DEF StorageInv
  <1>1. CASE Attach
    BY <1>0, <1>1, AttachAgrees
  <1>2. CASE Apply
    <2>1. ASSUME attached, NEW c \in Cell \ lapsed
          PROVE  CellAgrees(c)'
      BY <1>0, <1>2, <2>1, ApplyKeeps, SameWriters DEF Apply, Agreement
    <2>2. QED
      BY <1>2, <2>1 DEF Apply, Agreement
  <1>3. CASE Drop
    <2>1. ASSUME attached, NEW c \in Cell \ lapsed'
          PROVE  CellAgrees(c)'
      <3>1. c \in Cell \ lapsed
        BY <1>3, <2>1 DEF Drop
      <3>2. \A v : WillHold(c, v) => WillHold(c, v)'
        BY <1>0, <1>3, <2>1, DropKeeps
      <3>3. QED
        BY <1>0, <1>3, <2>1, <3>1, <3>2, SameWriters DEF Drop, Agreement
    <2>2. QED
      BY <1>3, <2>1 DEF Drop, Agreement
  <1>4. CASE Crash
    BY <1>4 DEF Crash, Agreement
  <1>5. ASSUME NEW r \in Realm, NEW c \in Cell, NEW v \in Stored, Enqueue(r, c, v)
        PROVE  Agreement'
    BY <1>5, EnqueueAgrees
  <1>6. ASSUME NEW r \in Realm, Publish(r)
        PROVE  Agreement'
    BY <1>6, PublishAgrees
  <1>7. ASSUME NEW f \in Feed, Cascade(f)
        PROVE  Agreement'
    BY <1>7, CascadeAgrees
  <1>8. CASE UNCHANGED storageVars
    BY <1>0, <1>8 DEF storageVars, Agreement, CellAgrees, OneWriter, WriterAgrees, CacheAgrees, Writes,
                      WillHold, IsLast, Queued
  <1>9. QED
    BY <1>1, <1>2, <1>3, <1>4, <1>5, <1>6, <1>7, <1>8, Steps DEF WriterStep, FeedStep

-----------------------------------------------------------------------------
LEMMA StorageStart ==
    ASSUME Init
    PROVE  StorageInv
  <1>1. TypeOK
    <2>1. Nothing \in [Cell -> Stored] /\ <<>> \in Seq(Op)
      BY DEF Nothing, Stored
    <2>2. QED
      BY <2>1 DEF Init, TypeOK
  <1>2. QED
    BY <1>1 DEF Init, StorageInv, Quiet, Agreement

LEMMA StorageStep ==
    ASSUME NoneIsNoWrite, StorageInv, [Next]_vars
    PROVE  StorageInv'
  <1>1. CASE Next
    BY <1>1, TypeStep, QuietStep, AgreementStep DEF StorageInv
  <1>2. CASE UNCHANGED vars
    BY <1>2 DEF vars, storageVars, StorageInv, TypeOK, Quiet, Agreement, CellAgrees, OneWriter, WriterAgrees,
                CacheAgrees, Writes, WillHold, IsLast, Queued
  <1>3. QED
    BY <1>1, <1>2

(* What the scripts read agrees with what the disk will hold.                *)
LEMMA InvSettles ==
    ASSUME StorageInv
    PROVE  CacheSettles
  <1> SUFFICES ASSUME attached, NEW c \in Cell \ lapsed
               PROVE  WillHold(c, Shown(c))
    BY DEF CacheSettles
  <1>1. CellAgrees(c)
    BY DEF StorageInv, Agreement
  <1>2. CASE InFlight(c) = {}
    BY <1>1, <1>2 DEF InFlight, Shown, CellAgrees, CacheAgrees, Writes
  <1>3. CASE InFlight(c) # {}
    <2>1. (CHOOSE r \in InFlight(c) : TRUE) \in InFlight(c)
      BY <1>3
    <2>2. QED
      BY <1>1, <1>3, <2>1 DEF InFlight, Shown, CellAgrees, WriterAgrees, Writes
  <1>4. QED
    BY <1>2, <1>3

(* For every number of feeds, keys, values and scripts that write at once:   *)
(* the storage is well typed ...                                             *)
THEOREM StorageTyping ==
    ASSUME NoneIsNoWrite
    PROVE  Spec => []TypeOK
  <1>1. Init => StorageInv
    BY StorageStart
  <1>2. StorageInv /\ [Next]_vars => StorageInv'
    BY StorageStep
  <1>3. StorageInv => TypeOK
    BY DEF StorageInv
  <1>4. QED
    BY <1>1, <1>2, <1>3, PTL DEF Spec

(* ... and except for the cells whose last write was refused, whose feed was *)
(* removed, or that two instances wrote at once, the value a script reads    *)
(* (FeedStorage::get) is the value the table will hold once the writer has   *)
(* drained its queue (FeedStorage::set, delete).                             *)
THEOREM StorageSettles ==
    ASSUME NoneIsNoWrite
    PROVE  Spec => []CacheSettles
  <1>1. Init => StorageInv
    BY StorageStart
  <1>2. StorageInv /\ [Next]_vars => StorageInv'
    BY StorageStep
  <1>3. StorageInv => CacheSettles
    BY InvSettles
  <1>4. QED
    BY <1>1, <1>2, <1>3, PTL DEF Spec
-----------------------------------------------------------------------------
(* The promise of WriteThrough. A cell with a queued write has a last one,   *)
(* and that write is what the cell will hold.                                *)
LastKnown == \A c \in Cell : Queued(c) => \E i \in DOMAIN queue : IsLast(i, c)
PromiseInv == StorageInv /\ LastKnown

LEMMA HoldsSettled ==
    ASSUME TypeOK, LastKnown, NEW c \in Cell
    PROVE  /\ WillHold(c, Settled(c))
           /\ \A v : WillHold(c, v) => v = Settled(c)
           /\ Settled(c) \in Stored
  <1>1. CASE Queued(c)
    <2> DEFINE last == CHOOSE i \in DOMAIN queue : IsLast(i, c)
    <2>1. last \in DOMAIN queue /\ IsLast(last, c)
      BY <1>1 DEF LastKnown
    <2>2. Settled(c) = queue[last].value
      BY <1>1 DEF Settled
    <2>3. ASSUME NEW i \in DOMAIN queue, IsLast(i, c)
          PROVE  i = last
      <3>1. i <= last /\ last <= i
        BY <2>1, <2>3 DEF IsLast
      <3>2. i \in Nat /\ last \in Nat
        BY <2>1 DEF TypeOK
      <3> HIDE DEF last
      <3>3. QED
        BY <3>1, <3>2
    <2>4. queue[last] \in Op
      BY <2>1 DEF TypeOK
    <2> HIDE DEF last
    <2>5. QED
      BY <1>1, <2>1, <2>2, <2>3, <2>4 DEF WillHold, Op
  <1>2. CASE ~Queued(c)
    BY <1>2 DEF Settled, WillHold, Queued, IsLast, TypeOK
  <1>3. QED
    BY <1>1, <1>2

LEMMA LastStep ==
    ASSUME TypeOK, LastKnown, Next
    PROVE  LastKnown'
  <1>1. CASE queue' = queue
    BY <1>1 DEF LastKnown, Queued, IsLast
  <1>2. CASE queue' = <<>>
    BY <1>2 DEF LastKnown, Queued
  <1>3. CASE queue # <<>> /\ queue' = Tail(queue)
    <2> SUFFICES ASSUME NEW c \in Cell, Queued(c)'
                 PROVE  \E i \in DOMAIN queue' : IsLast(i, c)'
      BY DEF LastKnown
    <2>1. /\ \A i \in DOMAIN queue' : queue'[i] = queue[i + 1] /\ i + 1 \in DOMAIN queue
          /\ \A i \in DOMAIN queue : i > 1 => i - 1 \in DOMAIN queue' /\ queue'[i - 1] = queue[i]
      BY <1>3, TailShifts
    <2>2. PICK k \in DOMAIN queue' : queue'[k].cell = c
      BY DEF Queued
    <2>3. Queued(c)
      BY <2>1, <2>2 DEF Queued
    <2>4. PICK n \in DOMAIN queue : IsLast(n, c)
      BY <2>3 DEF LastKnown
    <2>5. DOMAIN queue \subseteq Nat /\ DOMAIN queue' \subseteq Nat /\ \A i \in DOMAIN queue' : i >= 1
      BY <1>3 DEF TypeOK
    <2>6. k + 1 <= n
      BY <2>1, <2>2, <2>4 DEF IsLast
    <2>7. n - 1 \in DOMAIN queue' /\ queue'[n - 1] = queue[n]
      BY <2>1, <2>4, <2>5, <2>6
    <2>8. \A j \in DOMAIN queue' : queue'[j].cell = c => j <= n - 1
      BY <2>1, <2>4, <2>5 DEF IsLast
    <2>9. QED
      BY <2>4, <2>7, <2>8 DEF IsLast
  <1>4. ASSUME NEW w \in Op, queue' = Append(queue, w)
        PROVE  LastKnown'
    <2>1. /\ DOMAIN queue' = DOMAIN queue \cup {Len(queue) + 1}
          /\ \A i \in DOMAIN queue : queue'[i] = queue[i] /\ i \in Nat /\ i <= Len(queue)
          /\ queue'[Len(queue) + 1] = w /\ Len(queue) \in Nat
      BY <1>4 DEF TypeOK
    <2>2. ASSUME NEW c \in Cell, Queued(c)'
          PROVE  \E i \in DOMAIN queue' : IsLast(i, c)'
      <3>1. CASE w.cell = c
        <4>1. Len(queue) + 1 \in DOMAIN queue' /\ queue'[Len(queue) + 1].cell = c
          BY <2>1, <3>1
        <4>2. \A j \in DOMAIN queue' : j <= Len(queue) + 1
          BY <2>1
        <4>3. \E i \in DOMAIN queue' : queue'[i].cell = c /\ \A j \in DOMAIN queue' : j <= i
          BY <4>1, <4>2
        <4>4. QED
          BY <4>3 DEF IsLast
      <3>2. CASE w.cell # c
        <4>1. Queued(c)
          BY <2>1, <2>2, <3>2 DEF Queued
        <4>2. PICK n \in DOMAIN queue : IsLast(n, c)
          BY <4>1 DEF LastKnown
        <4>3. IsLast(n, c)'
          BY <2>1, <3>2, <4>2 DEF IsLast
        <4>4. QED
          BY <2>1, <4>2, <4>3
      <3>3. QED
        BY <3>1, <3>2
    <2>3. QED
      BY <2>2 DEF LastKnown
  <1>5. CASE WriterStep
    <2>1. ASSUME NEW r \in Realm, NEW c \in Cell, NEW v \in Stored, Enqueue(r, c, v)
          PROVE  LastKnown'
      BY <1>4, <2>1 DEF Enqueue, Op
    <2>2. QED
      BY <1>1, <1>2, <1>3, <1>5, <2>1 DEF WriterStep, Attach, Apply, Drop, Crash, Publish
  <1>6. ASSUME NEW f \in Feed, FeedStep(f)
        PROVE  LastKnown'
    BY <1>1, <1>6 DEF FeedStep, Cascade, storageVars
  <1>7. QED
    BY <1>5, <1>6, Steps

(* What a cell will hold is one value, the settled one.                      *)
SettledTruth == \A c \in Cell : /\ WillHold(c, Settled(c)) /\ Settled(c) \in Stored
                                /\ \A v : WillHold(c, v) => v = Settled(c)

LEMMA Settles == TypeOK /\ LastKnown => SettledTruth
  BY HoldsSettled DEF SettledTruth

LEMMA SettlesNext == TypeOK' /\ LastKnown' => SettledTruth'
  BY Settles, PTL

(* The state of WriteThrough, as Abstract maps it.                           *)
Disk == [c \in Cell |-> Settled(c)]
Unsafe == {c \in Cell : Queued(c)}
Offered == {<<writing[r].cell, writing[r].value>> : r \in {s \in Realm : writing[s] # None}}
AbstractNext == [Abstract!Next]_(Abstract!vars)
Keeps(c) == \A v : WillHold(c, v) => WillHold(c, v)'

\* The abstract state is left alone.
LEMMA Stutters ==
    ASSUME UNCHANGED <<cache, attached>>, Disk' = Disk, Unsafe' = Unsafe, Offered' = Offered
    PROVE  AbstractNext
  BY DEF AbstractNext, Abstract!vars, Disk, Unsafe, Offered

\* A cell that will hold what it would have held settles to the same value.
LEMMA SameSettled ==
    ASSUME SettledTruth, SettledTruth', NEW c \in Cell, Keeps(c)
    PROVE  Settled(c)' = Settled(c)
  BY DEF SettledTruth, Keeps

LEMMA AttachLoads ==
    ASSUME TypeOK, Quiet, Attach
    PROVE  AbstractNext
  <1>1. queue = <<>> /\ cache' = table /\ UNCHANGED <<table, queue, writing>>
    BY DEF Attach, Quiet
  <1>2. \A c \in Cell : ~Queued(c) /\ ~Queued(c)'
    BY <1>1 DEF Queued
  <1>3. Disk = table /\ Disk' = table
    BY <1>1, <1>2 DEF Disk, Settled, TypeOK
  <1>4. Unsafe' = Unsafe /\ Offered' = Offered
    BY <1>1, <1>2 DEF Unsafe, Offered
  <1>5. Abstract!Load
    BY <1>1, <1>3, <1>4 DEF Attach, Abstract!Load, Disk, Unsafe, Offered
  <1>6. QED
    BY <1>5 DEF AbstractNext, Abstract!Next

LEMMA EnqueueSubmits ==
    ASSUME NoneIsNoWrite, TypeOK, SettledTruth, SettledTruth',
           NEW r \in Realm, NEW c \in Cell, NEW v \in Stored, Enqueue(r, c, v)
    PROVE  AbstractNext
  <1> DEFINE w == [cell |-> c, value |-> v]
  <1>1. w \in Op /\ w # None /\ w.cell = c /\ w.value = v
    BY DEF Op, NoneIsNoWrite
  <1>2. /\ attached /\ writing[r] = None /\ queue' = Append(queue, w) /\ table' = table /\ cache' = cache
        /\ writing' = [writing EXCEPT ![r] = w] /\ attached' = attached
    BY DEF Enqueue
  <1>3. /\ WillHold(c, v)'
        /\ \A d \in Cell : \A x : d # c /\ WillHold(d, x) => WillHold(d, x)'
    <2> HIDE DEF w
    <2>1. QED
      BY <1>1, <1>2, AppendHolds
  <1>4. Disk' = [Disk EXCEPT ![c] = v]
    <2>1. Settled(c)' = v /\ \A d \in Cell : d # c => Settled(d)' = Settled(d)
      BY <1>3 DEF SettledTruth
    <2>2. QED
      BY <2>1 DEF Disk
  <1>5. Unsafe' = Unsafe \cup {c}
    <2>1. /\ DOMAIN queue' = DOMAIN queue \cup {Len(queue) + 1}
          /\ \A i \in DOMAIN queue : queue'[i] = queue[i]
          /\ queue'[Len(queue) + 1] = w
      BY <1>2 DEF TypeOK
    <2>2. \A d \in Cell : Queued(d)' <=> Queued(d) \/ d = c
      BY <1>1, <2>1 DEF Queued
    <2>3. QED
      BY <2>2 DEF Unsafe
  <1>6. Offered' = Offered \cup {<<c, v>>}
    <2>1. writing'[r] = w /\ \A s \in Realm \ {r} : writing'[s] = writing[s]
      BY <1>2 DEF TypeOK
    <2> HIDE DEF w
    <2>2. QED
      BY <1>1, <1>2, <2>1 DEF Offered
  <1>7. Abstract!Submit(c, v)
    BY <1>2, <1>4, <1>5, <1>6 DEF Abstract!Submit, Disk, Unsafe, Offered
  <1>8. QED
    BY <1>7 DEF AbstractNext, Abstract!Next, Stored

LEMMA PublishShows ==
    ASSUME TypeOK, SettledTruth, SettledTruth', NEW r \in Realm, Publish(r)
    PROVE  AbstractNext
  <1>0. writing[r] \in Op
    BY DEF TypeOK, Publish
  <1>1. PICK d \in Cell, v \in Stored : d = writing[r].cell /\ v = writing[r].value
    BY <1>0 DEF Op
  <1>2. /\ writing[r] # None /\ cache' = [cache EXCEPT ![d] = v]
        /\ writing' = [writing EXCEPT ![r] = None]
        /\ UNCHANGED <<table, queue, attached>>
    BY <1>1 DEF Publish
  <1>3. Disk' = Disk /\ Unsafe' = Unsafe
    BY <1>2 DEF Disk, Unsafe, Settled, Queued, IsLast
  <1>4. writing'[r] = None /\ \A s \in Realm \ {r} : writing'[s] = writing[s]
    BY <1>1, <1>2 DEF TypeOK
  <1>5. <<d, v>> \in Offered
    BY <1>1, <1>2 DEF Offered
  <1>6. Offered' \in {Offered, Offered \ {<<d, v>>}}
    <2>1. CASE \E s \in Realm \ {r} : writing[s] # None /\ <<writing[s].cell, writing[s].value>> = <<d, v>>
      <3>1. Offered' = Offered
        BY <1>1, <1>4, <2>1 DEF Offered
      <3>2. QED
        BY <3>1
    <2>2. CASE \A s \in Realm \ {r} : writing[s] # None => <<writing[s].cell, writing[s].value>> # <<d, v>>
      <3>1. Offered' = Offered \ {<<d, v>>}
        BY <1>1, <1>4, <2>2 DEF Offered
      <3>2. QED
        BY <3>1
    <2>3. QED
      BY <2>1, <2>2
  <1>7. Abstract!Show(d, v)
    BY <1>2, <1>3, <1>5, <1>6 DEF Abstract!Show, Disk, Unsafe, Offered
  <1>8. \E c \in Cell, x \in Value \cup {None} : Abstract!Show(c, x)
    BY <1>1, <1>7 DEF Stored
  <1>9. QED
    BY <1>8 DEF AbstractNext, Abstract!Next

(* The head leaves the queue: unless its cell is queued again, it settles.   *)
LEMMA HeadSettles ==
    ASSUME TypeOK, SettledTruth, SettledTruth', queue # <<>>, queue' = Tail(queue),
           UNCHANGED <<cache, writing, attached>>,
           \A c \in Cell : c # Head(queue).cell \/ QueuedAgain(c) => Keeps(c)
    PROVE  AbstractNext
  <1>0. Head(queue) \in Op
    BY DEF TypeOK
  <1>1. PICK h \in Cell : h = Head(queue).cell
    BY <1>0 DEF Op
  <1>2. /\ \A i \in DOMAIN queue' : queue'[i] = queue[i + 1] /\ i + 1 \in DOMAIN queue
        /\ \A i \in DOMAIN queue : i > 1 => i - 1 \in DOMAIN queue' /\ queue'[i - 1] = queue[i]
        /\ queue[1] = Head(queue) /\ 1 \in DOMAIN queue
    BY TailShifts
  <1>3. /\ DOMAIN queue \subseteq Nat /\ (\A i \in DOMAIN queue : i >= 1)
        /\ DOMAIN queue' \subseteq Nat /\ (\A i \in DOMAIN queue' : i >= 1)
    BY DEF TypeOK
  <1>4. \A c \in Cell : (Queued(c)' <=> QueuedAgain(c)) /\ (Queued(c) <=> QueuedAgain(c) \/ c = h)
    <2>1. ASSUME NEW c \in Cell, Queued(c)'
          PROVE  QueuedAgain(c)
      <3>1. PICK i \in DOMAIN queue' : queue'[i].cell = c
        BY <2>1 DEF Queued
      <3>2. i + 1 \in DOMAIN queue /\ i + 1 > 1 /\ queue[i + 1].cell = c
        BY <1>2, <1>3, <3>1
      <3>3. QED
        BY <3>2 DEF QueuedAgain
    <2>2. ASSUME NEW c \in Cell, QueuedAgain(c)
          PROVE  Queued(c)'
      BY <1>2, <2>2 DEF Queued, QueuedAgain
    <2>3. ASSUME NEW c \in Cell, Queued(c), ~QueuedAgain(c)
          PROVE  c = h
      BY <1>1, <1>2, <1>3, <2>3 DEF Queued, QueuedAgain
    <2>4. \A c \in Cell : QueuedAgain(c) \/ c = h => Queued(c)
      BY <1>1, <1>2 DEF Queued, QueuedAgain
    <2>5. QED
      BY <2>1, <2>2, <2>3, <2>4
  <1>5. Offered' = Offered
    BY DEF Offered
  <1>6. \A c \in Cell : c # h \/ QueuedAgain(c) => Settled(c)' = Settled(c)
    BY <1>1, SameSettled
  <1>7. CASE QueuedAgain(h)
    <2>1. Disk' = Disk /\ Unsafe' = Unsafe
      BY <1>4, <1>6, <1>7 DEF Disk, Unsafe
    <2>2. QED
      BY <1>5, <2>1, Stutters
  <1>8. CASE ~QueuedAgain(h)
    <2> DEFINE v == Settled(h)'
    <2>1. v \in Stored
      BY <1>1 DEF SettledTruth
    <2>2. Disk' = [Disk EXCEPT ![h] = v]
      BY <1>6 DEF Disk
    <2>3. h \in Unsafe /\ Unsafe' = Unsafe \ {h}
      BY <1>1, <1>4, <1>8 DEF Unsafe
    <2>4. Abstract!Settle(h)
      BY <1>5, <2>1, <2>2, <2>3 DEF Abstract!Settle, Disk, Unsafe, Offered, Stored
    <2>5. QED
      BY <1>1, <2>4 DEF AbstractNext, Abstract!Next
  <1>9. QED
    BY <1>7, <1>8

LEMMA CascadeWipes ==
    ASSUME TypeOK, NEW f \in Feed, Cascade(f)
    PROVE  AbstractNext
  <1> DEFINE cells == {c \in Cell : c[1] = f}
  <1>1. /\ table' = [c \in Cell |-> IF c[1] = f THEN None ELSE table[c]]
        /\ UNCHANGED <<cache, queue, writing, attached>>
    BY DEF Cascade
  <1>2. Unsafe' = Unsafe /\ Offered' = Offered
    BY <1>1 DEF Unsafe, Offered, Queued
  <1>3. \A c \in Cell : Queued(c) => Settled(c)' = Settled(c)
    BY <1>1 DEF Settled, Queued, IsLast
  <1>4. \A c \in Cell : ~Queued(c) => Settled(c) = table[c] /\ Settled(c)' = table'[c]
    BY <1>1 DEF Settled, Queued
  <1>5. Disk' = [c \in Cell |-> IF c \in cells \ Unsafe THEN None ELSE Disk[c]]
    BY <1>1, <1>3, <1>4 DEF Disk, Unsafe
  <1>6. Abstract!Wipe(cells)
    BY <1>1, <1>2, <1>5 DEF Abstract!Wipe, Disk, Unsafe, Offered
  <1>7. QED
    BY <1>6 DEF AbstractNext, Abstract!Next

LEMMA CrashGoesDown ==
    ASSUME TypeOK, Crash
    PROVE  AbstractNext
  <1>1. /\ cache' = [c \in Cell |-> None] /\ queue' = <<>> /\ attached' = FALSE /\ table' = table
        /\ writing' = [r \in Realm |-> None]
    BY DEF Crash, Nothing
  <1>2. \A c \in Cell : ~Queued(c)'
    BY <1>1 DEF Queued
  <1>3. Disk' = table
    BY <1>1, <1>2 DEF Disk, Settled, TypeOK
  <1>4. Unsafe' = {} /\ Offered' = {}
    BY <1>1, <1>2 DEF Unsafe, Offered
  <1>5. table \in Abstract!Content /\ \A c \in Cell \ Unsafe : table[c] = Disk[c]
    BY DEF TypeOK, Abstract!Content, Stored, Unsafe, Disk, Settled
  <1>6. Abstract!Down
    BY <1>1, <1>3, <1>4, <1>5 DEF Abstract!Down, Disk, Unsafe, Offered
  <1>7. QED
    BY <1>6 DEF AbstractNext, Abstract!Next

LEMMA AbstractStep ==
    ASSUME NoneIsNoWrite, PromiseInv, PromiseInv', Next
    PROVE  AbstractNext
  <1>1. TypeOK /\ Quiet /\ SettledTruth /\ SettledTruth'
    BY Settles, SettlesNext DEF PromiseInv, StorageInv
  <1>2. CASE Attach
    BY <1>1, <1>2, AttachLoads
  <1>3. CASE Apply
    <2>1. \A c \in Cell : Keeps(c)
      BY <1>1, <1>3, ApplyKeeps DEF Keeps
    <2>2. QED
      BY <1>1, <1>3, <2>1, HeadSettles DEF Apply
  <1>4. CASE Drop
    <2>1. ASSUME NEW c \in Cell, c # Head(queue).cell \/ QueuedAgain(c)
          PROVE  Keeps(c)
      BY <1>1, <1>4, <2>1, DropHeadKeeps DEF Keeps
    <2>2. QED
      BY <1>1, <1>4, <2>1, HeadSettles DEF Drop
  <1>5. CASE Crash
    BY <1>1, <1>5, CrashGoesDown
  <1>6. ASSUME NEW r \in Realm, NEW c \in Cell, NEW v \in Stored, Enqueue(r, c, v)
        PROVE  AbstractNext
    BY <1>1, <1>6, EnqueueSubmits
  <1>7. ASSUME NEW r \in Realm, Publish(r)
        PROVE  AbstractNext
    BY <1>1, <1>7, PublishShows
  <1>8. ASSUME NEW f \in Feed, Cascade(f)
        PROVE  AbstractNext
    BY <1>1, <1>8, CascadeWipes
  <1>9. CASE UNCHANGED storageVars
    BY <1>9, Stutters DEF storageVars, Disk, Unsafe, Offered, Settled, Queued, IsLast
  <1>10. QED
    BY <1>2, <1>3, <1>4, <1>5, <1>6, <1>7, <1>8, <1>9, Steps DEF WriterStep, FeedStep

LEMMA AbstractStart ==
    ASSUME Init
    PROVE  Abstract!Init /\ LastKnown
  <1>1. \A c \in Cell : ~Queued(c)
    BY DEF Init, Queued
  <1>2. Disk \in Abstract!Content
    BY <1>1 DEF Init, Nothing, Disk, Settled, Abstract!Content
  <1>3. Unsafe = {} /\ Offered = {}
    BY <1>1 DEF Init, Unsafe, Offered
  <1>4. QED
    BY <1>1, <1>2, <1>3 DEF Init, Nothing, Abstract!Init, LastKnown, Disk, Unsafe, Offered

(* The storage implements the promise: a value that was accepted is shown    *)
(* and settles in the database, a crash loses none but the writes still in   *)
(* the queue, and a read returns nothing that was not accepted               *)
(* (feed_storage.rs).                                                        *)
THEOREM StorageWritesThrough ==
    ASSUME NoneIsNoWrite
    PROVE  Spec => WriteThroughImplemented
  <1>1. Init => PromiseInv /\ Abstract!Init
    BY StorageStart, AbstractStart DEF PromiseInv
  <1>2. PromiseInv /\ [Next]_vars => PromiseInv'
    <2>1. CASE Next
      BY <2>1, StorageStep, LastStep DEF PromiseInv, StorageInv
    <2>2. CASE UNCHANGED vars
      BY <2>2, StorageStep DEF PromiseInv, LastKnown, vars, storageVars, Queued, IsLast
    <2>3. QED
      BY <2>1, <2>2
  <1>3. PromiseInv /\ PromiseInv' /\ [Next]_vars => [Abstract!Next]_(Abstract!vars)
    <2>1. CASE Next
      BY <2>1, AbstractStep DEF AbstractNext
    <2>2. CASE UNCHANGED vars
      <3>1. AbstractNext
        BY <2>2, Stutters DEF vars, storageVars, Disk, Unsafe, Offered, Settled, Queued, IsLast
      <3>2. QED
        BY <3>1 DEF AbstractNext
    <2>3. QED
      BY <2>1, <2>2
  <1>4. QED
    BY <1>1, <1>2, <1>3, PTL DEF Spec, WriteThroughImplemented, Abstract!Spec
=============================================================================
