------------------------- MODULE FeedRegistryProofs --------------------------
(* The registry, its bootstrap and its scripts use the script storage as     *)
(* FeedStorage says, so that its promise holds through upgrades, removals,   *)
(* failed bootstraps and crashes, for any number of feeds and scripts; all   *)
(* actors work on one database; an upgrade keeps what the user decided; and  *)
(* the registry answers with the scripts of its tables.                      *)
EXTENDS FeedRegistry, TLAPS

Proved == INSTANCE FeedStorageProofs WITH installed <- Installed

-----------------------------------------------------------------------------
(* The registry uses the storage through its operations only.                *)
JobOfFeed == job # None => job.script.feed \in Feed /\ job.realm \in Realm

StorageSame == UNCHANGED <<rows, storage>>

LEMMA SameIsStutter ==
    ASSUME StorageSame
    PROVE  UNCHANGED Storage!vars
  BY DEF StorageSame, storage, Installed, Storage!vars, Storage!storageVars

LEMMA BootSteps ==
    ASSUME Boot
    PROVE  [Storage!Next]_(Storage!vars)
  <1>1. CASE BootStorage
    <2>1. CASE attached
      BY <1>1, <2>1, SameIsStutter DEF BootStorage, StorageSame, disk, storage
    <2>2. CASE ~attached
      BY <1>1, <2>2 DEF BootStorage, disk, Installed, Storage!Next
    <2>3. QED
      BY <2>1, <2>2
  <1>2. CASE Crash
    BY <1>2 DEF Crash, disk, Installed, Storage!Next
  <1>3. CASE Open \/ BootFails \/ BootRegistry \/ BootLogin \/ BootStores
    <2>1. StorageSame
      BY <1>3 DEF Open, BootFails, BootRegistry, BootLogin, BootStores, StorageSame, disk, storage
    <2>2. QED
      BY <2>1, SameIsStutter
  <1>4. QED
    BY <1>1, <1>2, <1>3 DEF Boot

LEMMA CompileSteps ==
    ASSUME NEW kind, NEW p, NEW f \in Feed, p.script.feed = f, NEW n \in Slot, Compile(kind, p, <<f, n>>)
    PROVE  [Storage!Next]_(Storage!vars)
  <1>1. rows' = rows /\ <<f, n>> \in Realm
    BY DEF Compile, disk, Realm
  <1>2. CASE p.script.body \in EarlyWriter
    <2>1. PICK k \in Key, v \in Value : Storage!Enqueue(<<f, n>>, <<f, k>>, v)
      BY <1>2 DEF Compile
    <2>2. <<f, k>> \in Storage!Cell /\ v \in Storage!Stored
      BY DEF Storage!Cell, Storage!Stored
    <2>3. Installed' = Installed
      BY <1>1 DEF Installed
    <2>4. QED
      BY <1>1, <2>1, <2>2, <2>3 DEF Storage!Next
  <1>3. CASE p.script.body \notin EarlyWriter
    BY <1>1, <1>3, SameIsStutter DEF Compile, StorageSame
  <1>4. QED
    BY <1>2, <1>3

LEMMA MessageSteps ==
    ASSUME JobOfFeed, Message
    PROVE  [Storage!Next]_(Storage!vars)
  <1>1. ASSUME NEW s \in Script, NEW u \in Url \cup {None}, Preview(s, u)
        PROVE  [Storage!Next]_(Storage!vars)
    BY <1>1, SameIsStutter DEF Preview, StorageSame, disk
  <1>2. ASSUME NEW s \in Script, NEW u \in Url \cup {None}, Import(s, u)
        PROVE  [Storage!Next]_(Storage!vars)
    <2>1. PICK n \in FreeSlot(s.feed) : Compile("import", [script |-> s, url |-> u], <<s.feed, n>>)
      BY <1>2 DEF Import
    <2>2. s.feed \in Feed /\ n \in Slot
      BY ScriptsOfFeeds DEF FreeSlot
    <2>3. [script |-> s, url |-> u].script.feed = s.feed
      OBVIOUS
    <2>4. QED
      BY <2>1, <2>2, <2>3, CompileSteps
  <1>3. ASSUME NEW f \in Feed, Install(f)
        PROVE  [Storage!Next]_(Storage!vars)
    <2>1. PICK i \in DOMAIN pending :
              /\ pending[i].script.feed = f
              /\ IF Bound("registry") /\ Loads(pending[i].script)
                 THEN \E n \in FreeSlot(f) : Compile("install", pending[i], <<f, n>>)
                 ELSE UNCHANGED <<disk, scripts, job, bootVars, storage>>
      BY <1>3 DEF Install
    <2>2. CASE \E n \in FreeSlot(f) : Compile("install", pending[i], <<f, n>>)
      <3>1. PICK n \in FreeSlot(f) : Compile("install", pending[i], <<f, n>>)
        BY <2>2
      <3>2. n \in Slot
        BY DEF FreeSlot
      <3>3. QED
        BY <2>1, <3>1, <3>2, CompileSteps
    <2>3. CASE UNCHANGED <<disk, scripts, job, bootVars, storage>>
      BY <2>3, SameIsStutter DEF StorageSame, disk
    <2>4. QED
      BY <2>1, <2>2, <2>3
  <1>4. ASSUME NEW f \in Feed, Remove(f)
        PROVE  [Storage!Next]_(Storage!vars)
    <2>1. Installed' = Installed \ {f}
      BY <1>4 DEF Remove, Installed
    <2>2. QED
      BY <1>4, <2>1 DEF Remove, Storage!Next
  <1>5. ASSUME NEW f \in Feed, NEW e \in BOOLEAN, SetEnabled(f, e)
        PROVE  [Storage!Next]_(Storage!vars)
    <2>1. Installed' = Installed
      BY <1>5 DEF SetEnabled, Installed
    <2>2. QED
      BY <1>5, <2>1 DEF SetEnabled, storage, Storage!vars, Storage!storageVars
  <1>6. CASE Commit
    <2>1. PICK f \in Feed : f = job.script.feed
      BY <1>6 DEF Commit, JobOfFeed
    <2>2. Installed' = Installed \cup {f}
      BY <1>6, <2>1 DEF Commit, Installed
    <2>3. UNCHANGED Storage!storageVars
      BY <1>6 DEF Commit, storage, Storage!storageVars
    <2>4. QED
      BY <2>2, <2>3 DEF Storage!Next
  <1>7. CASE GiveUp
    BY <1>7, SameIsStutter DEF GiveUp, StorageSame, disk
  <1>8. QED
    BY <1>1, <1>2, <1>3, <1>4, <1>5, <1>6, <1>7 DEF Message

LEMMA RegistrySteps ==
    ASSUME JobOfFeed, [Next]_vars
    PROVE  [Storage!Next]_(Storage!vars)
  <1>1. CASE StorageStep
    BY <1>1 DEF StorageStep, disk, Installed, Storage!Next
  <1>2. ASSUME NEW r \in Realm, Release(r)
        PROVE  [Storage!Next]_(Storage!vars)
    BY <1>2, SameIsStutter DEF Release, StorageSame, disk
  <1>3. ASSUME NEW r \in Realm, NEW k \in Key, NEW v \in Value \cup {None}, Store(r, k, v)
        PROVE  [Storage!Next]_(Storage!vars)
    <2>1. <<r[1], k>> \in Storage!Cell /\ v \in Storage!Stored
      BY DEF Realm, Storage!Cell, Storage!Stored
    <2>2. QED
      BY <1>3, <2>1 DEF Store, disk, Installed, Storage!Next
  <1>4. CASE UNCHANGED vars
    BY <1>4, SameIsStutter DEF vars, StorageSame, disk
  <1>5. QED
    BY <1>1, <1>2, <1>3, <1>4, BootSteps, MessageSteps DEF Next

LEMMA JobStep ==
    ASSUME JobOfFeed, [Next]_vars
    PROVE  JobOfFeed'
  <1>1. CASE UNCHANGED job
    BY <1>1 DEF JobOfFeed
  <1>2. CASE job' = None
    BY <1>2 DEF JobOfFeed
  <1>3. ASSUME NEW kind, NEW p, NEW f \in Feed, p.script.feed = f, NEW n \in Slot, Compile(kind, p, <<f, n>>)
        PROVE  JobOfFeed'
    BY <1>3 DEF Compile, JobOfFeed, Realm
  <1>4. ASSUME NEW s \in Script, NEW u \in Url \cup {None}, Import(s, u)
        PROVE  JobOfFeed'
    <2>1. PICK n \in FreeSlot(s.feed) : Compile("import", [script |-> s, url |-> u], <<s.feed, n>>)
      BY <1>4 DEF Import
    <2>2. s.feed \in Feed /\ n \in Slot /\ [script |-> s, url |-> u].script.feed = s.feed
      BY ScriptsOfFeeds DEF FreeSlot
    <2>3. QED
      BY <1>3, <2>1, <2>2
  <1>5. ASSUME NEW f \in Feed, Install(f)
        PROVE  JobOfFeed'
    <2>1. PICK i \in DOMAIN pending :
              /\ pending[i].script.feed = f
              /\ IF Bound("registry") /\ Loads(pending[i].script)
                 THEN \E n \in FreeSlot(f) : Compile("install", pending[i], <<f, n>>)
                 ELSE UNCHANGED <<disk, scripts, job, bootVars, storage>>
      BY <1>5 DEF Install
    <2>2. ASSUME NEW n \in FreeSlot(f), Compile("install", pending[i], <<f, n>>)
          PROVE  JobOfFeed'
      <3>1. n \in Slot
        BY DEF FreeSlot
      <3>2. QED
        BY <1>3, <2>1, <2>2, <3>1
    <2>3. QED
      BY <1>1, <2>1, <2>2
  <1>6. CASE Boot
    BY <1>1, <1>2, <1>6 DEF Boot, Open, BootFails, BootRegistry, BootLogin, BootStores, BootStorage, Crash
  <1>7. CASE Message
    BY <1>1, <1>2, <1>4, <1>5, <1>7 DEF Message, Preview, Remove, SetEnabled, Commit, GiveUp
  <1>8. QED
    BY <1>1, <1>6, <1>7 DEF Next, StorageStep, Release, Store, vars

(* The storage the registry's scripts write is the storage of FeedStorage,   *)
(* through installs, upgrades, removals, bootstraps and crashes              *)
(* (registry_actor.rs, app_data_actor.rs, feed_storage.rs).                  *)
THEOREM RegistryStorage == Spec => StorageImplemented
  <1>1. Init => Storage!Init /\ JobOfFeed
    BY DEF Init, JobOfFeed
  <1>2. JobOfFeed /\ [Next]_vars => JobOfFeed'
    BY JobStep
  <1>3. JobOfFeed /\ [Next]_vars => [Storage!Next]_(Storage!vars)
    BY RegistrySteps
  <1>4. QED
    BY <1>1, <1>2, <1>3, PTL DEF Spec, StorageImplemented, Storage!Spec

-----------------------------------------------------------------------------
(* What is proved of FeedStorage holds of the storage of the registry.       *)
LEMMA OneStorage ==
    /\ Storage!Init => Proved!Init
    /\ [Storage!Next]_(Storage!vars) => [Proved!Next]_(Proved!vars)
    /\ Proved!NoneIsNoWrite
  <1>1. Storage!Init => Proved!Init
    BY DEF Storage!Init, Proved!Init, Storage!Nothing, Proved!Nothing, Storage!Cell, Proved!Cell
  <1>2. [Storage!Next]_(Storage!vars) => [Proved!Next]_(Proved!vars)
    <2>1. /\ Storage!Cell = Proved!Cell /\ Storage!Stored = Proved!Stored /\ Storage!Nothing = Proved!Nothing
          /\ Storage!vars = Proved!vars /\ Storage!storageVars = Proved!storageVars
      BY DEF Storage!Cell, Proved!Cell, Storage!Stored, Proved!Stored, Storage!Nothing, Proved!Nothing,
             Storage!vars, Proved!vars, Storage!storageVars, Proved!storageVars
    <2>2. CASE UNCHANGED Storage!vars
      BY <2>2 DEF Storage!vars, Proved!vars, Storage!storageVars, Proved!storageVars
    <2>3. Storage!Attach => Proved!Attach
      BY DEF Storage!Attach, Proved!Attach
    <2>4. Storage!Apply => Proved!Apply
      BY DEF Storage!Apply, Proved!Apply
    <2>5. Storage!Drop => Proved!Drop
      BY DEF Storage!Drop, Proved!Drop, Storage!QueuedAgain, Proved!QueuedAgain
    <2>6. Storage!Crash => Proved!Crash
      BY <2>1 DEF Storage!Crash, Proved!Crash
    <2>7. ASSUME NEW r \in Realm, NEW c \in Storage!Cell, NEW v \in Storage!Stored, Storage!Enqueue(r, c, v)
          PROVE  Proved!Enqueue(r, c, v)
      BY <2>7 DEF Storage!Enqueue, Proved!Enqueue, Storage!Contended, Proved!Contended
    <2>8. ASSUME NEW r \in Realm, Storage!Publish(r)
          PROVE  Proved!Publish(r)
      BY <2>8 DEF Storage!Publish, Proved!Publish
    <2>9. ASSUME NEW f \in Feed, Storage!Cascade(f)
          PROVE  Proved!Cascade(f)
      BY <2>1, <2>9 DEF Storage!Cascade, Proved!Cascade, Storage!Queued, Proved!Queued
    <2>10. CASE Storage!Next
      <3>1. CASE \E f \in Feed : Installed' = Installed \cup {f} /\ UNCHANGED Storage!storageVars
        BY <3>1 DEF Storage!storageVars, Proved!storageVars, Proved!Next
      <3>2. CASE \E f \in Feed : Storage!Cascade(f) /\ Installed' = Installed \ {f}
        BY <2>9, <3>2 DEF Proved!Next
      <3>3. CASE /\ UNCHANGED Installed
                 /\ \/ Storage!Attach \/ Storage!Apply \/ Storage!Drop \/ Storage!Crash
                    \/ \E r \in Realm : Storage!Publish(r)
        BY <2>3, <2>4, <2>5, <2>6, <2>8, <3>3 DEF Proved!Next
      <3>4. CASE \E r \in Realm, c \in Storage!Cell, v \in Storage!Stored :
                    Storage!Enqueue(r, c, v) /\ UNCHANGED Installed
        BY <2>1, <2>7, <3>4 DEF Proved!Next
      <3>5. QED
        BY <2>10, <3>1, <3>2, <3>3, <3>4 DEF Storage!Next
    <2>11. QED
      BY <2>2, <2>10
  <1>3. Proved!NoneIsNoWrite
    BY NoneIsNoWrite DEF Proved!NoneIsNoWrite, Proved!Op, Storage!Op, Proved!Cell, Storage!Cell,
                         Proved!Stored, Storage!Stored
  <1>4. QED
    BY <1>1, <1>2, <1>3

LEMMA ProvedSpec == Spec => Proved!Spec
  <1>1. Storage!Init => Proved!Init
    BY OneStorage
  <1>2. [Storage!Next]_(Storage!vars) => [Proved!Next]_(Proved!vars)
    BY OneStorage
  <1>3. QED
    BY <1>1, <1>2, RegistryStorage, PTL DEF StorageImplemented, Storage!Spec, Proved!Spec

(* Through upgrades, removals and crashes, and whichever instances of a feed *)
(* are still running, what a script reads is what the table will hold,       *)
(* except in the cells CacheSettles excepts (feed_storage.rs).               *)
THEOREM RegistrySettles == Spec => []CacheSettles
  <1>1. Proved!Spec => []Proved!CacheSettles
    BY OneStorage, Proved!StorageSettles
  <1>2. Proved!CacheSettles => CacheSettles
    BY DEF CacheSettles, Storage!CacheSettles, Proved!CacheSettles, Storage!Cell, Proved!Cell,
           Storage!WillHold, Proved!WillHold, Storage!IsLast, Proved!IsLast, Storage!Queued, Proved!Queued,
           Storage!Shown, Proved!Shown, Storage!InFlight, Proved!InFlight
  <1>3. QED
    BY <1>1, <1>2, ProvedSpec, PTL

LEMMA OneAbstract ==
    /\ Proved!Cell = Storage!Cell /\ \A c \in Storage!Cell : Proved!Queued(c) <=> Storage!Queued(c)
    /\ \A c \in Storage!Cell : Proved!Settled(c) = Storage!Settled(c)
  BY DEF Storage!Cell, Proved!Cell, Storage!Queued, Proved!Queued, Storage!Settled, Proved!Settled,
         Storage!IsLast, Proved!IsLast

\* The two mappings to the abstract state are one.
ProvedView == <<[c \in Proved!Cell |-> Proved!Settled(c)], {c \in Proved!Cell : Proved!Queued(c)}>>
StorageView == <<[c \in Storage!Cell |-> Storage!Settled(c)], {c \in Storage!Cell : Storage!Queued(c)}>>

SameView == ProvedView = StorageView

LEMMA OneView == SameView
  BY OneAbstract DEF SameView, ProvedView, StorageView

LEMMA OneViewNext == SameView'
  BY OneView, PTL

(* ... and the scripts of the registry get what WriteThrough promises.       *)
THEOREM RegistryWritesThrough == Spec => WriteThroughImplemented
  <1>1. Proved!Spec => Proved!WriteThroughImplemented
    BY OneStorage, Proved!StorageWritesThrough
  <1>2. Proved!Abstract!Init => Storage!Abstract!Init
    BY OneAbstract DEF Proved!Abstract!Init, Storage!Abstract!Init, Proved!Abstract!Content, Storage!Abstract!Content
  <1>3. [Proved!Abstract!Next]_(Proved!Abstract!vars) => [Storage!Abstract!Next]_(Storage!Abstract!vars)
    <2>1. /\ Proved!Cell = Storage!Cell
          /\ [c \in Proved!Cell |-> Proved!Settled(c)] = [c \in Storage!Cell |-> Storage!Settled(c)]
          /\ {c \in Proved!Cell : Proved!Queued(c)} = {c \in Storage!Cell : Storage!Queued(c)}
      BY OneAbstract, OneView DEF SameView, ProvedView, StorageView
    <2>2. /\ [c \in Proved!Cell |-> Proved!Settled(c)]' = [c \in Storage!Cell |-> Storage!Settled(c)]'
          /\ {c \in Proved!Cell : Proved!Queued(c)}' = {c \in Storage!Cell : Storage!Queued(c)}'
      BY OneViewNext DEF SameView, ProvedView, StorageView
    <2>3. CASE UNCHANGED Proved!Abstract!vars
      BY <2>1, <2>2, <2>3 DEF Proved!Abstract!vars, Storage!Abstract!vars
    <2>4. CASE Proved!Abstract!Next
      <3>1. Proved!Abstract!Load => Storage!Abstract!Load
        BY <2>1, <2>2 DEF Proved!Abstract!Load, Storage!Abstract!Load
      <3>2. Proved!Abstract!Down => Storage!Abstract!Down
        BY <2>1, <2>2 DEF Proved!Abstract!Down, Storage!Abstract!Down,
                          Proved!Abstract!Content, Storage!Abstract!Content
      <3>3. ASSUME NEW c \in Proved!Cell, Proved!Abstract!Settle(c)
            PROVE  Storage!Abstract!Settle(c)
        BY <2>1, <2>2, <3>3 DEF Proved!Abstract!Settle, Storage!Abstract!Settle
      <3>4. ASSUME NEW c \in Proved!Cell, NEW v, Proved!Abstract!Submit(c, v)
            PROVE  Storage!Abstract!Submit(c, v)
        BY <2>1, <2>2, <3>4 DEF Proved!Abstract!Submit, Storage!Abstract!Submit
      <3>5. ASSUME NEW c \in Proved!Cell, NEW v, Proved!Abstract!Show(c, v)
            PROVE  Storage!Abstract!Show(c, v)
        BY <2>1, <2>2, <3>5 DEF Proved!Abstract!Show, Storage!Abstract!Show
      <3>6. ASSUME NEW cells, Proved!Abstract!Wipe(cells)
            PROVE  Storage!Abstract!Wipe(cells)
        BY <2>1, <2>2, <3>6 DEF Proved!Abstract!Wipe, Storage!Abstract!Wipe
      <3>7. QED
        BY <2>1, <2>4, <3>1, <3>2, <3>3, <3>4, <3>5, <3>6 DEF Proved!Abstract!Next, Storage!Abstract!Next
    <2>5. QED
      BY <2>3, <2>4
  <1>4. QED
    BY <1>1, <1>2, <1>3, ProvedSpec, PTL
       DEF Proved!WriteThroughImplemented, WriteThroughImplemented, Storage!WriteThroughImplemented,
           Proved!Abstract!Spec, Storage!Abstract!Spec

-----------------------------------------------------------------------------
(* Once the registry is bound, every other bound actor holds its database; a *)
(* later attempt stops at the registry's refusal.                            *)
Stages == {"login", "stores", "storage", "ready"}
BootInv ==
    /\ handle \in [Component -> Nat] /\ attempt \in Nat
    /\ boot \in {"down", "failed", "refused", "registry"} \cup Stages
    /\ boot = "registry" => attempt # 0
    /\ \A c \in Component : Bound(c) => handle[c] = handle["registry"]
    /\ boot \in Stages => Bound("registry") /\ handle["registry"] = attempt
    /\ boot \in Stages \ {"login"} => Bound("login")
    /\ boot \in {"storage", "ready"} => Bound("stores")
    /\ boot = "ready" => Bound("hub") /\ attached

LEMMA BootStart ==
    ASSUME Init
    PROVE  BootInv
  BY DEF Init, BootInv, Component, Bound, Stages

LEMMA BootStep ==
    ASSUME BootInv, [Next]_vars
    PROVE  BootInv'
  <1> USE DEF BootInv, Component, Bound, Stages
  <1>1. CASE UNCHANGED bootVars /\ (attached' = attached \/ attached')
    BY <1>1 DEF bootVars
  <1>2. CASE Open
    BY <1>2 DEF Open, storage
  <1>3. CASE BootFails
    BY <1>3 DEF BootFails, storage
  <1>4. CASE BootRegistry
    BY <1>4 DEF BootRegistry, Bind, storage
  <1>5. CASE BootLogin
    BY <1>5 DEF BootLogin, Bind, storage
  <1>6. CASE BootStores
    BY <1>6 DEF BootStores, Bind, storage
  <1>7. CASE BootStorage
    BY <1>7 DEF BootStorage, Bind, storage, Storage!Attach
  <1>8. CASE Crash
    BY <1>8 DEF Crash
  <1>9. ASSUME NEW kind, NEW p, NEW r, Compile(kind, p, r)
        PROVE  BootInv'
    BY <1>1, <1>9 DEF Compile, storage, Storage!Enqueue
  <1>10. CASE Message
    <2>1. ASSUME NEW s \in Script, NEW u \in Url \cup {None}, Import(s, u)
          PROVE  BootInv'
      BY <1>9, <2>1 DEF Import
    <2>2. ASSUME NEW f \in Feed, Install(f)
          PROVE  BootInv'
      BY <1>1, <1>9, <2>2 DEF Install, storage
    <2>3. QED
      BY <1>1, <1>10, <2>1, <2>2 DEF Message, Preview, Remove, SetEnabled, Commit, GiveUp, storage, Storage!Cascade
  <1>11. CASE StorageStep \/ (\E r \in Realm : Release(r))
              \/ (\E r \in Realm, k \in Key, v \in Value \cup {None} : Store(r, k, v))
    BY <1>1, <1>11 DEF StorageStep, Release, Store, storage, Storage!Publish, Storage!Apply, Storage!Drop, Storage!Enqueue
  <1>12. CASE UNCHANGED vars
    BY <1>1, <1>12 DEF vars, storage
  <1>13. QED
    BY <1>2, <1>3, <1>4, <1>5, <1>6, <1>7, <1>8, <1>10, <1>11, <1>12 DEF Next, Boot

(* However often a bootstrap fails and is tried again, no two actors work on *)
(* different databases, and the app is ready only with all of them and the   *)
(* storage bound (app_data_actor.rs: set_data_directory).                    *)
THEOREM RegistryOneDatabase == Spec => []OneDatabase
  <1>1. Init => BootInv
    BY BootStart
  <1>2. BootInv /\ [Next]_vars => BootInv'
    BY BootStep
  <1>3. BootInv => OneDatabase
    BY DEF BootInv, OneDatabase, Bound, Ready, Component, Stages
  <1>4. QED
    BY <1>1, <1>2, <1>3, PTL DEF Spec

-----------------------------------------------------------------------------
(* Installing over an installed feed keeps it paused if it was, and keeps    *)
(* where it came from (feeds.rs: upsert_feed).                               *)
StateKept == \A f \in Installed \cap DOMAIN rows' :
                rows'[f].script # rows[f].script =>
                    /\ rows'[f].enabled = rows[f].enabled
                    /\ rows[f].url # None => rows'[f].url # None

LEMMA StateStep ==
    ASSUME [Next]_vars
    PROVE  StateKept
  <1>1. CASE UNCHANGED rows
    BY <1>1 DEF StateKept
  <1>2. CASE Commit
    BY <1>2 DEF Commit, Upserted, StateKept, Installed
  <1>3. ASSUME NEW f \in Feed, Remove(f)
        PROVE  StateKept
    BY <1>3 DEF Remove, StateKept, Installed
  <1>4. ASSUME NEW f \in Feed, NEW e \in BOOLEAN, SetEnabled(f, e)
        PROVE  StateKept
    BY <1>4 DEF SetEnabled, StateKept, Installed
  <1>5. CASE Boot
    BY <1>1, <1>5 DEF Boot, Open, BootFails, BootRegistry, BootLogin, BootStores, BootStorage, Crash, disk
  <1>6. CASE Message
    BY <1>1, <1>2, <1>3, <1>4, <1>6 DEF Message, Preview, Import, Install, Compile, GiveUp, disk
  <1>7. QED
    BY <1>1, <1>5, <1>6 DEF Next, StorageStep, Release, Store, vars, disk

(* An upgrade neither resumes a paused feed nor forgets its source, whatever *)
(* else happens to the registry (registry_actor.rs, feeds.rs: upsert_feed).  *)
THEOREM RegistryUserState == Spec => UserStateKept
  <1>1. [Next]_vars => [StateKept]_vars
    BY StateStep
  <1>2. QED
    BY <1>1, PTL DEF Spec, UserStateKept, StateKept
-----------------------------------------------------------------------------
(* The history of a feed: its table holds one row per version, and an        *)
(* install takes the row of its version out and puts its own in.             *)
OneRow(h) == \A i, j \in DOMAIN h : h[i].version = h[j].version => i = j
Inserted(h, i, s) == SubSeq(h, 1, i - 1) \o <<s>> \o SubSeq(h, i, Len(h))

LEMMA DroppedType ==
    ASSUME NEW S, NEW h \in Seq(S), NEW at \in SUBSET DOMAIN h
    PROVE  Dropped(h, at) \in Seq(S) /\ Len(Dropped(h, at)) <= Len(h)
  <1>1. CASE at = {}
    BY <1>1 DEF Dropped
  <1>2. CASE at # {}
    <2>1. PICK i \in at : Dropped(h, at) = SubSeq(h, 1, i - 1) \o SubSeq(h, i + 1, Len(h))
      BY <1>2 DEF Dropped
    <2>2. i \in 1..Len(h)
      OBVIOUS
    <2>3. QED
      BY <2>1, <2>2
  <1>3. QED
    BY <1>1, <1>2

LEMMA WithoutVersion ==
    ASSUME NEW h \in Seq(Script), OneRow(h), NEW v
    PROVE  /\ Without(h, v) \in Seq(Script) /\ Len(Without(h, v)) <= Len(h)
           /\ OneRow(Without(h, v))
           /\ \A j \in DOMAIN Without(h, v) : Without(h, v)[j].version # v
  <1>1. Without(h, v) \in Seq(Script) /\ Len(Without(h, v)) <= Len(h)
    BY DroppedType DEF Without, OfVersion
  <1>2. CASE OfVersion(h, v) = {}
    BY <1>2 DEF Without, Dropped, OfVersion
  <1>3. CASE OfVersion(h, v) # {}
    <2>1. PICK i \in OfVersion(h, v) : Without(h, v) = SubSeq(h, 1, i - 1) \o SubSeq(h, i + 1, Len(h))
      BY <1>3 DEF Without, Dropped
    <2>2. i \in 1..Len(h) /\ h[i].version = v
      BY DEF OfVersion
    <2>3. \A k \in 1..Len(h) : h[k].version = v => k = i
      BY <2>2 DEF OneRow
    <2>4. Len(Without(h, v)) = Len(h) - 1
      <3> DEFINE a == SubSeq(h, 1, i - 1)
      <3> DEFINE b == SubSeq(h, i + 1, Len(h))
      <3>1. /\ a \in Seq(Script) /\ Len(a) = i - 1 /\ b \in Seq(Script) /\ Len(b) = Len(h) - i
            /\ Len(h) \in Nat /\ i \in Nat
        BY <2>2
      <3>2. Without(h, v) = a \o b
        BY <2>1
      <3> HIDE DEF a, b
      <3>3. Len(a \o b) = Len(a) + Len(b)
        BY <3>1
      <3>4. QED
        BY <3>1, <3>2, <3>3
    <2>5. ASSUME NEW j \in DOMAIN Without(h, v)
          PROVE  Without(h, v)[j] = h[IF j < i THEN j ELSE j + 1]
      <3>1. j \in 1..Len(h) - 1
        BY <2>4, <1>1
      <3>2. QED
        BY <2>1, <2>2, <3>1
    <2>6. ASSUME NEW j \in DOMAIN Without(h, v)
          PROVE  (IF j < i THEN j ELSE j + 1) \in 1..Len(h) \ {i}
      <3>1. j \in 1..Len(h) - 1
        BY <2>4, <1>1
      <3>2. QED
        BY <2>2, <3>1
    <2>7. \A j \in DOMAIN Without(h, v) : Without(h, v)[j].version # v
      BY <2>3, <2>5, <2>6
    <2>8. ASSUME NEW j \in DOMAIN Without(h, v), NEW k \in DOMAIN Without(h, v),
                 Without(h, v)[j].version = Without(h, v)[k].version
          PROVE  j = k
      <3>1. (IF j < i THEN j ELSE j + 1) = (IF k < i THEN k ELSE k + 1)
        BY <2>5, <2>6, <2>8 DEF OneRow
      <3>2. j \in Nat /\ k \in Nat /\ i \in Nat
        BY <1>1, <2>2
      <3>3. QED
        BY <3>1, <3>2
    <2>9. QED
      BY <1>1, <2>7, <2>8 DEF OneRow
  <1>4. QED
    BY <1>2, <1>3

LEMMA InsertedRows ==
    ASSUME NEW h \in Seq(Script), OneRow(h), NEW i \in 1..Len(h) + 1, NEW s \in Script,
           \A j \in DOMAIN h : h[j].version # s.version
    PROVE  /\ Inserted(h, i, s) \in Seq(Script) /\ OneRow(Inserted(h, i, s))
           /\ Inserted(h, i, s)[i] = s /\ Len(Inserted(h, i, s)) = Len(h) + 1
           /\ \A j \in DOMAIN Inserted(h, i, s) : j # i => Inserted(h, i, s)[j].version # s.version
  <1> DEFINE t == Inserted(h, i, s)
  <1> DEFINE at(j) == IF j < i THEN j ELSE j - 1
  <1> DEFINE a == SubSeq(h, 1, i - 1)
  <1> DEFINE b == SubSeq(h, i, Len(h))
  <1>1. /\ a \in Seq(Script) /\ Len(a) = i - 1 /\ \A j \in 1..i - 1 : a[j] = h[j]
        /\ b \in Seq(Script) /\ Len(b) = Len(h) - i + 1
        /\ \A j \in 1..Len(h) - i + 1 : b[j] = h[i + j - 1]
        /\ Len(h) \in Nat /\ i \in Nat
    OBVIOUS
  <1>2. t = a \o <<s>> \o b
    BY DEF Inserted
  <1> HIDE DEF a, b, t
  <1>3. t \in Seq(Script) /\ Len(t) = Len(h) + 1
    BY <1>1, <1>2
  <1>4. t[i] = s
    BY <1>1, <1>2
  <1>5. ASSUME NEW j \in 1..Len(h) + 1, j # i
        PROVE  t[j] = h[at(j)] /\ at(j) \in 1..Len(h)
    <2>1. CASE j < i
      BY <1>1, <1>2, <2>1
    <2>2. CASE j > i
      <3>1. t[j] = b[j - i] /\ j - i \in 1..Len(h) - i + 1
        BY <1>1, <1>2, <2>2
      <3>2. QED
        BY <1>1, <2>2, <3>1
    <2>3. QED
      BY <1>1, <1>5, <2>1, <2>2
  <1>6. DOMAIN t = 1..Len(h) + 1
    BY <1>3
  <1>7. \A j \in DOMAIN t : j # i => t[j].version # s.version
    BY <1>5, <1>6
  <1>8. ASSUME NEW j \in DOMAIN t, NEW k \in DOMAIN t, t[j].version = t[k].version
        PROVE  j = k
    <2>1. CASE j = i \/ k = i
      BY <1>4, <1>7, <1>8, <2>1
    <2>2. CASE j # i /\ k # i
      <3>1. at(j) = at(k)
        BY <1>5, <1>6, <1>8, <2>2 DEF OneRow
      <3>2. j \in Nat /\ k \in Nat /\ i \in Nat
        BY <1>6
      <3>3. QED
        BY <2>2, <3>1, <3>2
    <2>3. QED
      BY <2>1, <2>2
  <1>9. QED
    BY <1>3, <1>4, <1>7, <1>8 DEF OneRow, t

LEMMA NewestRows ==
    ASSUME NEW h \in Seq(Script), h # <<>>
    PROVE  /\ Newest(h, Keep) \in Seq(Script) /\ Len(Newest(h, Keep)) \in 1..Keep
           /\ DOMAIN Newest(h, Keep) \subseteq DOMAIN h
           /\ \A i \in DOMAIN Newest(h, Keep) : Newest(h, Keep)[i] = h[i]
  BY Bounds DEF Newest

-----------------------------------------------------------------------------
(* What the tables say of the installed feeds, what the registry is awaiting *)
(* and what is loaded. A job has an instance of its own, which runs its      *)
(* script and is not yet the one the registry answers with.                  *)
Pending == [script : Script, url : Url \cup {None}]

TablesInv ==
    /\ Installed \subseteq Feed /\ \A f \in Installed : rows[f] \in Row /\ rows[f].script.feed = f
    /\ history \in [Feed -> Seq(Script)]
    /\ \A f \in Feed : Len(history[f]) <= Keep /\ OneRow(history[f])
    /\ \A f \in Installed : \A i \in DOMAIN history[f] :
          history[f][i].version = rows[f].script.version => history[f][i] = rows[f].script
    /\ \A f \in Installed \ stale : history[f] # <<>> /\ history[f][1] = rows[f].script

JobInv ==
    /\ pending \in Seq(Pending) /\ Len(pending) <= PendingCap
    /\ job # None => /\ job.script \in Script /\ job.url \in Url \cup {None}
                     /\ job.realm \in Realm /\ job.realm[1] = job.script.feed
                     /\ loaded[job.realm] = job.script
                     /\ compiled[job.realm[1]] # job.realm[2]

LoadedInv ==
    /\ loaded \in [Realm -> Script \cup {None}] /\ compiled \in [Feed -> Slot \cup {None}]
    /\ broken \subseteq Feed
    /\ \A f \in Feed : compiled[f] # None =>
          f \in Installed \ broken /\ loaded[<<f, compiled[f]>>] = rows[f].script
    /\ Bound("registry") => Installed = broken \cup {f \in Feed : compiled[f] # None}

RegistryInv == BootInv /\ TablesInv /\ JobInv /\ LoadedInv

LEMMA RegistryStart ==
    ASSUME Init
    PROVE  RegistryInv
  <1>1. PICK old \in {{}} \cup {{s} : s \in Script} :
            /\ rows = [f \in {s.feed : s \in old} |->
                         [script |-> CHOOSE s \in old : TRUE, enabled |-> TRUE, url |-> None]]
            /\ history = [f \in Feed |-> IF f \in DOMAIN rows THEN <<rows[f].script>> ELSE <<>>]
    BY DEF Init
  <1>2. \A f \in Installed : rows[f] \in Row /\ rows[f].script.feed = f /\ f \in Feed
    <2>1. CASE old = {}
      BY <1>1, <2>1 DEF Installed
    <2>2. ASSUME NEW s \in Script, old = {s}
          PROVE  \A f \in Installed : rows[f] \in Row /\ rows[f].script.feed = f /\ f \in Feed
      BY <1>1, <2>2, ScriptsOfFeeds DEF Installed, Row
    <2>3. QED
      BY <2>1, <2>2
  <1>3. \A f \in Installed : rows[f].script \in Script
    BY <1>2 DEF Row
  <1>4. TablesInv
    <2>1. \A f \in Feed : /\ f \in Installed => history[f] = <<rows[f].script>>
                          /\ f \notin Installed => history[f] = <<>>
      BY <1>1 DEF Installed
    <2>2. /\ \A x \in Script : <<x>> \in Seq(Script) /\ Len(<<x>>) = 1 /\ DOMAIN <<x>> = {1} /\ <<x>>[1] = x
          /\ <<>> \in Seq(Script) /\ Len(<<>>) = 0 /\ DOMAIN <<>> = {}
      OBVIOUS
    <2>3. \A f \in Feed : history[f] \in Seq(Script) /\ Len(history[f]) <= 1 /\ OneRow(history[f])
      <3>1. ASSUME NEW x \in Script
            PROVE  OneRow(<<x>>) /\ Len(<<x>>) <= 1
        BY <2>2 DEF OneRow
      <3>2. OneRow(<<>>) /\ Len(<<>>) <= 1
        BY <2>2 DEF OneRow
      <3>3. \A f \in Installed : \E x \in Script : history[f] = <<x>>
        BY <1>2, <1>3, <2>1
      <3>4. \A f \in Feed : history[f] = <<>> \/ \E x \in Script : history[f] = <<x>>
        BY <2>1, <3>3
      <3>5. QED
        BY <2>2, <3>1, <3>2, <3>4
    <2>4. history \in [Feed -> Seq(Script)]
      BY <1>1, <2>3
    <2>5. \A f \in Feed : Len(history[f]) <= Keep
      <3>1. ASSUME NEW f \in Feed
            PROVE  Len(history[f]) <= Keep
        <4>1. Len(history[f]) \in Nat
          BY <2>3
        <4>2. QED
          BY <2>3, <4>1, Bounds
      <3>2. QED
        BY <3>1
    <2>6. ASSUME NEW f \in Installed
          PROVE  /\ history[f] # <<>> /\ history[f][1] = rows[f].script
                 /\ \A i \in DOMAIN history[f] : history[f][i] = rows[f].script
      <3>1. history[f] = <<rows[f].script>> /\ rows[f].script \in Script
        BY <1>2, <1>3, <2>1
      <3>2. Len(history[f]) # Len(<<>>) /\ DOMAIN history[f] = {1} /\ history[f][1] = rows[f].script
        BY <2>2, <3>1
      <3>3. QED
        BY <3>2
    <2>7. QED
      BY <1>2, <2>3, <2>4, <2>5, <2>6 DEF TablesInv
  <1>5. JobInv
    BY Bounds DEF Init, JobInv
  <1>6. LoadedInv
    BY DEF Init, LoadedInv, NoScripts, Bound, Component
  <1>7. QED
    BY <1>4, <1>5, <1>6, BootStart DEF RegistryInv

(* What a commit leaves in the history of its feed.                          *)
LEMMA CommittedHistory ==
    ASSUME NEW h \in Seq(Script), OneRow(h), NEW s \in Script,
           NEW i \in 1..Len(Without(h, s.version)) + 1
    PROVE  LET new == Newest(Inserted(Without(h, s.version), i, s), Keep)
           IN  /\ new \in Seq(Script) /\ new # <<>> /\ Len(new) <= Keep /\ OneRow(new)
               /\ \A j \in DOMAIN new : new[j].version = s.version => new[j] = s
               /\ i = 1 => new[1] = s
  <1> DEFINE w == Without(h, s.version)
  <1> DEFINE t == Inserted(w, i, s)
  <1>1. w \in Seq(Script) /\ OneRow(w) /\ \A j \in DOMAIN w : w[j].version # s.version
    BY WithoutVersion
  <1> HIDE DEF w
  <1>2. /\ t \in Seq(Script) /\ OneRow(t) /\ t[i] = s /\ Len(t) = Len(w) + 1
        /\ \A j \in DOMAIN t : j # i => t[j].version # s.version
    <2>1. i \in 1..Len(w) + 1
      BY DEF w
    <2>2. QED
      BY <1>1, <2>1, InsertedRows
  <1> HIDE DEF t
  <1>3. t # <<>>
    BY <1>1, <1>2
  <1> DEFINE n == Newest(t, Keep)
  <1>4. /\ n \in Seq(Script) /\ Len(n) \in 1..Keep /\ DOMAIN n \subseteq DOMAIN t
        /\ \A j \in DOMAIN n : n[j] = t[j]
    BY <1>2, <1>3, NewestRows
  <1> HIDE DEF n
  <1>5. n # <<>> /\ Len(n) <= Keep /\ 1 \in DOMAIN n
    BY <1>4, Bounds
  <1>6. OneRow(n)
    BY <1>2, <1>4 DEF OneRow
  <1>7. \A j \in DOMAIN n : n[j].version = s.version => n[j] = s
    BY <1>2, <1>4
  <1>8. i = 1 => n[1] = s
    BY <1>2, <1>4, <1>5
  <1>9. QED
    BY <1>4, <1>5, <1>6, <1>7, <1>8 DEF n, t, w

LEMMA TablesStep ==
    ASSUME RegistryInv, [Next]_vars
    PROVE  TablesInv'
  <1> USE DEF RegistryInv
  <1>1. CASE UNCHANGED disk
    BY <1>1 DEF disk, TablesInv, Installed
  <1>2. CASE Commit
    <2> DEFINE s == job.script
    <2> DEFINE f == s.feed
    <2> DEFINE h == Without(history[f], s.version)
    <2>1. s \in Script /\ f \in Feed /\ job.url \in Url \cup {None}
      BY <1>2, ScriptsOfFeeds DEF Commit, JobInv
    <2>2. PICK i \in 1..Len(h) + 1 :
              /\ history' = [history EXCEPT ![f] = Newest(Inserted(h, i, s), Keep)]
              /\ stale' = IF i = 1 THEN stale \ {f} ELSE stale \cup {f}
      BY <1>2 DEF Commit, Inserted
    <2>3. rows' = [g \in Installed \cup {f} |-> IF g = f THEN Upserted(s, job.url) ELSE rows[g]]
      BY <1>2 DEF Commit
    <2> DEFINE new == Newest(Inserted(h, i, s), Keep)
    <2> HIDE DEF s
    <2>4. history[f] \in Seq(Script) /\ OneRow(history[f])
      BY <2>1 DEF TablesInv
    <2>5. /\ new \in Seq(Script) /\ new # <<>> /\ Len(new) <= Keep /\ OneRow(new)
          /\ \A j \in DOMAIN new : new[j].version = s.version => new[j] = s
          /\ i = 1 => new[1] = s
      BY <2>1, <2>2, <2>4, CommittedHistory
    <2> HIDE DEF new, h
    <2>6. history' = [history EXCEPT ![f] = new]
      BY <2>2 DEF new
    <2>7. Upserted(s, job.url) \in Row /\ Upserted(s, job.url).script = s
      BY <2>1 DEF Upserted, Row, TablesInv, Installed
    <2>8. Installed' = Installed \cup {f} /\ \A g \in Installed' : rows'[g] = IF g = f THEN Upserted(s, job.url) ELSE rows[g]
      BY <2>3 DEF Installed
    <2>9. /\ history'[f] = new /\ history' \in [Feed -> Seq(Script)]
          /\ \A g \in Feed \ {f} : history'[g] = history[g]
      BY <2>1, <2>5, <2>6 DEF TablesInv
    <2>10. \A g \in Installed' : rows'[g] \in Row /\ rows'[g].script.feed = g /\ g \in Feed
      BY <2>1, <2>7, <2>8 DEF TablesInv
    <2>11. \A g \in Feed : Len(history'[g]) <= Keep /\ OneRow(history'[g])
      BY <2>5, <2>9 DEF TablesInv
    <2>12. \A g \in Installed' : \A j \in DOMAIN history'[g] :
              history'[g][j].version = rows'[g].script.version => history'[g][j] = rows'[g].script
      <3>1. ASSUME NEW g \in Installed', g # f
            PROVE  history'[g] = history[g] /\ rows'[g] = rows[g] /\ g \in Installed
        BY <2>8, <2>9, <2>10, <3>1
      <3>2. ASSUME NEW g \in Installed', g # f, NEW j \in DOMAIN history'[g],
                   history'[g][j].version = rows'[g].script.version
            PROVE  history'[g][j] = rows'[g].script
        BY <3>1, <3>2 DEF TablesInv
      <3>3. \A j \in DOMAIN history'[f] : history'[f][j].version = rows'[f].script.version =>
              history'[f][j] = rows'[f].script
        BY <2>5, <2>7, <2>8, <2>9
      <3>4. QED
        BY <3>2, <3>3
    <2>13. \A g \in (Installed \ stale)' : history'[g] # <<>> /\ history'[g][1] = rows'[g].script
      BY <2>1, <2>2, <2>5, <2>7, <2>8, <2>9 DEF TablesInv
    <2>14. QED
      BY <2>9, <2>10, <2>11, <2>12, <2>13 DEF TablesInv, OneRow
  <1>3. ASSUME NEW f \in Feed, Remove(f)
        PROVE  TablesInv'
    BY <1>3, Bounds DEF Remove, TablesInv, Installed, OneRow
  <1>4. ASSUME NEW f \in Feed, NEW e \in BOOLEAN, SetEnabled(f, e)
        PROVE  TablesInv'
    <2>1. UNCHANGED <<history, stale>> /\ Installed' = Installed
      BY <1>4 DEF SetEnabled, Installed
    <2>2. \A g \in Installed : rows'[g].script = rows[g].script /\ (rows[g] \in Row => rows'[g] \in Row)
      BY <1>4 DEF SetEnabled, Installed, Row
    <2>3. QED
      BY <2>1, <2>2 DEF TablesInv, OneRow
  <1>5. CASE Boot
    BY <1>1, <1>5 DEF Boot, Open, BootFails, BootRegistry, BootLogin, BootStores, BootStorage, Crash
  <1>6. CASE Message
    BY <1>1, <1>2, <1>3, <1>4, <1>6 DEF Message, Preview, Import, Install, Compile, GiveUp
  <1>7. QED
    BY <1>1, <1>5, <1>6 DEF Next, StorageStep, Release, Store, vars

LEMMA ActiveScriptTrue ==
    ASSUME TablesInv, NEW f \in Installed
    PROVE  /\ ActiveScript(f) # None => ActiveScript(f) = rows[f].script
           /\ f \notin stale => ActiveScript(f) = rows[f].script
  <1>1. f \in Feed /\ history[f] \in Seq(Script)
    BY DEF TablesInv
  <1>2. OfVersion(history[f], rows[f].script.version) # {} => ActiveScript(f) = rows[f].script
    <2>1. \A i \in OfVersion(history[f], rows[f].script.version) : history[f][i] = rows[f].script
      BY DEF TablesInv, OfVersion
    <2>2. QED
      BY <2>1 DEF ActiveScript
  <1>3. OfVersion(history[f], rows[f].script.version) = {} => ActiveScript(f) = None
    BY DEF ActiveScript
  <1>4. f \notin stale => 1 \in OfVersion(history[f], rows[f].script.version)
    <2>1. ASSUME f \notin stale
          PROVE  history[f] # <<>> /\ history[f][1] = rows[f].script
      BY <2>1 DEF TablesInv
    <2>2. history[f] # <<>> => 1 \in DOMAIN history[f]
      BY <1>1
    <2>3. QED
      BY <2>1, <2>2 DEF OfVersion
  <1>5. QED
    BY <1>2, <1>3, <1>4

(* A script is compiled in an instance nothing runs in, so it is not the one *)
(* the registry answers with.                                                *)
LEMMA CompileKeeps ==
    ASSUME RegistryInv, NEW kind, NEW p \in Pending, NEW f \in Feed, p.script.feed = f, NEW n \in FreeSlot(f),
           Compile(kind, p, <<f, n>>), pending' \in Seq(Pending), Len(pending') <= PendingCap
    PROVE  JobInv' /\ LoadedInv'
  <1>1. n \in Slot /\ loaded[<<f, n>>] = None /\ <<f, n>> \in Realm
    BY DEF FreeSlot, Realm
  <1>2. p.script \in Script /\ p.url \in Url \cup {None}
    BY DEF Pending
  <1>3. UNCHANGED <<rows, compiled, broken, handle>>
    BY DEF Compile, disk, bootVars
  <1>4. /\ loaded' = [loaded EXCEPT ![<<f, n>>] = p.script]
        /\ job' = [kind |-> kind, script |-> p.script, url |-> p.url, realm |-> <<f, n>>]
    BY DEF Compile
  <1>5. \A g \in Feed : compiled[g] # None => g \in Installed /\ rows[g].script \in Script
    BY DEF RegistryInv, LoadedInv, TablesInv, Row
  <1>6. \A g \in Feed : compiled[g] # None => <<g, compiled[g]>> # <<f, n>>
    <2>1. \A g \in Feed : compiled[g] # None => loaded[<<g, compiled[g]>>] # None
      BY <1>5, NoneIsNothing DEF RegistryInv, LoadedInv
    <2>2. QED
      BY <1>1, <2>1
  <1>7. compiled[f] # n
    <2>1. n # None
      BY <1>1, NoneIsNothing
    <2>2. QED
      BY <1>6, <2>1
  <1>8. loaded' \in [Realm -> Script \cup {None}] /\ loaded'[<<f, n>>] = p.script
    BY <1>1, <1>2, <1>4 DEF RegistryInv, LoadedInv
  <1>9. \A g \in Feed : compiled[g] # None => loaded'[<<g, compiled[g]>>] = loaded[<<g, compiled[g]>>]
    <2>1. \A g \in Feed : compiled[g] # None => <<g, compiled[g]>> \in Realm
      BY DEF RegistryInv, LoadedInv, Realm
    <2>2. QED
      BY <1>4, <1>6, <2>1 DEF RegistryInv, LoadedInv
  <1>10. LoadedInv'
    BY <1>3, <1>8, <1>9 DEF RegistryInv, LoadedInv, Installed, Bound
  <1>11. JobInv'
    BY <1>1, <1>2, <1>3, <1>4, <1>7, <1>8 DEF JobInv
  <1>12. QED
    BY <1>10, <1>11

LEMMA PushedType ==
    ASSUME JobInv, NEW p \in Pending
    PROVE  Pushed(p) \in Seq(Pending) /\ Len(Pushed(p)) <= PendingCap
  <1> DEFINE rest == WithoutFeed(pending, p.script.feed)
  <1>1. rest \in Seq(Pending) /\ Len(rest) <= PendingCap
    <2>1. rest \in Seq(Pending) /\ Len(rest) <= Len(pending) /\ pending \in Seq(Pending) /\ Len(pending) <= PendingCap
      BY DroppedType DEF WithoutFeed, JobInv
    <2> HIDE DEF rest
    <2>2. QED
      BY <2>1, Bounds
  <1>2. Pushed(p) = Append(IF Len(rest) < PendingCap THEN rest ELSE Tail(rest), p)
    BY DEF Pushed
  <1> HIDE DEF rest
  <1>3. QED
    BY <1>1, <1>2, Bounds

LEMMA LoadedSteps ==
    ASSUME RegistryInv, [Next]_vars
    PROVE  JobInv' /\ LoadedInv'
  <1> USE DEF RegistryInv
  <1>1. ASSUME UNCHANGED <<rows, loaded, compiled, broken, pending, job>>, Bound("registry")' = Bound("registry")
        PROVE  JobInv' /\ LoadedInv'
    BY <1>1 DEF JobInv, LoadedInv, Installed
  <1>2. CASE Open \/ BootFails \/ BootLogin \/ BootStores \/ BootStorage
    <2>1. Bound("registry")' = Bound("registry")
      BY <1>2 DEF Open, BootFails, BootLogin, BootStores, BootStorage, Bind, Bound, BootInv, Component
    <2>2. QED
      BY <1>1, <1>2, <2>1 DEF Open, BootFails, BootLogin, BootStores, BootStorage, disk, scripts
  <1>3. CASE BootRegistry
    <2>1. CASE Bound("registry")
      BY <1>1, <1>3, <2>1 DEF BootRegistry, disk, scripts, Bound
    <2>2. CASE ~Bound("registry")
      <3> DEFINE first == CHOOSE n \in Slot : TRUE
      <3> DEFINE good == {f \in Installed : ActiveScript(f) # None /\ Loads(ActiveScript(f))}
      <3>1. first \in Slot /\ first # None
        BY NoneIsNothing
      <3>2. /\ compiled' = [f \in Feed |-> IF f \in good THEN first ELSE None]
            /\ loaded' = [r \in Realm |-> IF r[1] \in good /\ r[2] = first THEN ActiveScript(r[1]) ELSE None]
            /\ broken' = Installed \ good /\ job' = None /\ UNCHANGED <<rows, pending>>
        BY <1>3, <2>2 DEF BootRegistry, disk
      <3>3. \A f \in good : f \in Feed /\ ActiveScript(f) = rows[f].script /\ rows[f].script \in Script
        BY ActiveScriptTrue DEF TablesInv, Row
      <3>4. good \subseteq Installed
        OBVIOUS
      <3> HIDE DEF first, good
      <3>5. loaded' \in [Realm -> Script \cup {None}]
        BY <3>2, <3>3
      <3>6. \A f \in Feed : compiled'[f] # None => f \in good /\ compiled'[f] = first
        BY <3>2
      <3>7. \A f \in good : <<f, first>> \in Realm /\ loaded'[<<f, first>>] = rows[f].script
        BY <3>1, <3>2, <3>3 DEF Realm
      <3>8. Installed' = Installed /\ Installed \subseteq Feed
        BY <3>2 DEF Installed, TablesInv
      <3>9. Installed = broken' \cup {f \in Feed : compiled'[f] # None}
        BY <3>1, <3>2, <3>3, <3>4, <3>8
      <3>10. LoadedInv'
        BY <3>1, <3>2, <3>4, <3>5, <3>6, <3>7, <3>8, <3>9 DEF LoadedInv
      <3>11. QED
        BY <3>2, <3>10 DEF JobInv
    <2>3. QED
      BY <2>1, <2>2
  <1>4. CASE Crash
    BY <1>4, Bounds DEF Crash, JobInv, LoadedInv, NoScripts, Bound, Component
  <1>5. ASSUME NEW s \in Script, NEW u \in Url \cup {None}, Preview(s, u)
        PROVE  JobInv' /\ LoadedInv'
    <2>1. pending' \in Seq(Pending) /\ Len(pending') <= PendingCap
      BY <1>5, PushedType DEF Preview, Pending
    <2>2. QED
      BY <1>5, <2>1 DEF Preview, JobInv, LoadedInv, Idle, disk, scripts, bootVars, Installed, Bound
  <1>6. ASSUME NEW s \in Script, NEW u \in Url \cup {None}, Import(s, u)
        PROVE  JobInv' /\ LoadedInv'
    <2>1. PICK n \in FreeSlot(s.feed) : Compile("import", [script |-> s, url |-> u], <<s.feed, n>>)
      BY <1>6 DEF Import
    <2>2. [script |-> s, url |-> u] \in Pending /\ s.feed \in Feed /\ [script |-> s, url |-> u].script.feed = s.feed
      BY ScriptsOfFeeds DEF Pending
    <2>3. pending' \in Seq(Pending) /\ Len(pending') <= PendingCap
      BY <1>6 DEF Import, JobInv
    <2>4. QED
      BY <2>1, <2>2, <2>3, CompileKeeps
  <1>7. ASSUME NEW f \in Feed, Install(f)
        PROVE  JobInv' /\ LoadedInv'
    <2>1. PICK i \in DOMAIN pending :
              /\ pending[i].script.feed = f
              /\ pending' = WithoutFeed(pending, f)
              /\ IF Bound("registry") /\ Loads(pending[i].script)
                 THEN \E n \in FreeSlot(f) : Compile("install", pending[i], <<f, n>>)
                 ELSE UNCHANGED <<disk, scripts, job, bootVars, storage>>
      BY <1>7 DEF Install
    <2>2. pending[i] \in Pending
      BY DEF JobInv
    <2>3. pending' \in Seq(Pending) /\ Len(pending') <= PendingCap
      <3>1. /\ pending' \in Seq(Pending) /\ Len(pending') <= Len(pending)
            /\ pending \in Seq(Pending) /\ Len(pending) <= PendingCap
        BY <2>1, DroppedType DEF WithoutFeed, JobInv
      <3>2. QED
        BY <3>1, Bounds
    <2>4. CASE \E n \in FreeSlot(f) : Compile("install", pending[i], <<f, n>>)
      BY <2>1, <2>2, <2>3, <2>4, CompileKeeps
    <2>5. CASE UNCHANGED <<disk, scripts, job, bootVars, storage>>
      BY <1>7, <2>3, <2>5 DEF Install, Idle, JobInv, LoadedInv, disk, scripts, bootVars, Installed, Bound
    <2>6. QED
      BY <2>1, <2>4, <2>5
  <1>8. ASSUME NEW f \in Feed, Remove(f)
        PROVE  JobInv' /\ LoadedInv'
    BY <1>8 DEF Remove, Idle, JobInv, LoadedInv, TablesInv, bootVars, Installed, Bound
  <1>9. ASSUME NEW f \in Feed, NEW e \in BOOLEAN, SetEnabled(f, e)
        PROVE  JobInv' /\ LoadedInv'
    <2>1. Installed' = Installed /\ \A g \in Installed : rows'[g].script = rows[g].script
      BY <1>9 DEF SetEnabled, Installed
    <2>2. QED
      BY <1>9, <2>1 DEF SetEnabled, Idle, JobInv, LoadedInv, scripts, bootVars, Bound
  <1>10. CASE Commit
    <2> DEFINE f == job.script.feed
    <2>1. /\ job.script \in Script /\ f \in Feed /\ job.realm \in Realm /\ job.realm[1] = f
          /\ loaded[job.realm] = job.script
      BY <1>10, ScriptsOfFeeds DEF Commit, JobInv
    <2>2. job.realm = <<f, job.realm[2]>> /\ job.realm[2] \in Slot
      BY <2>1 DEF Realm
    <2>3. /\ rows' = [g \in Installed \cup {f} |-> IF g = f THEN Upserted(job.script, job.url) ELSE rows[g]]
          /\ compiled' = [compiled EXCEPT ![f] = job.realm[2]]
          /\ broken' = broken \ {f} /\ job' = None /\ UNCHANGED <<loaded, pending, handle>>
      BY <1>10 DEF Commit, bootVars
    <2>4. Upserted(job.script, job.url).script = job.script
      BY DEF Upserted
    <2> HIDE DEF f
    <2>5. Installed' = Installed \cup {f} /\ rows'[f].script = job.script /\ \A g \in Installed \ {f} : rows'[g] = rows[g]
      BY <2>3, <2>4 DEF Installed
    <2>6. /\ compiled' \in [Feed -> Slot \cup {None}] /\ compiled'[f] = job.realm[2]
          /\ \A g \in Feed \ {f} : compiled'[g] = compiled[g]
      BY <2>1, <2>2, <2>3 DEF LoadedInv
    <2>7. compiled'[f] # None
      BY <2>2, <2>6, NoneIsNothing
    <2>8. loaded'[<<f, compiled'[f]>>] = rows'[f].script
      BY <2>1, <2>2, <2>3, <2>5, <2>6
    <2>9. \A g \in Feed : compiled'[g] # None =>
              g \in (Installed \ broken)' /\ loaded'[<<g, compiled'[g]>>] = rows'[g].script
      <3>1. ASSUME NEW g \in Feed, g # f, compiled'[g] # None
            PROVE  g \in (Installed \ broken)' /\ loaded'[<<g, compiled'[g]>>] = rows'[g].script
        <4>1. compiled'[g] = compiled[g]
          BY <2>6, <3>1
        <4>2. g \in Installed \ broken /\ loaded[<<g, compiled[g]>>] = rows[g].script
          BY <3>1, <4>1 DEF LoadedInv
        <4>3. QED
          BY <2>3, <2>5, <3>1, <4>1, <4>2
      <3>2. QED
        BY <2>1, <2>3, <2>5, <2>8, <3>1
    <2>10. Bound("registry") => Installed' = broken' \cup {g \in Feed : compiled'[g] # None}
      BY <2>1, <2>3, <2>5, <2>6, <2>7 DEF LoadedInv
    <2>11. LoadedInv'
      BY <2>3, <2>6, <2>9, <2>10 DEF LoadedInv, Bound
    <2>12. QED
      BY <2>3, <2>11 DEF JobInv
  <1>11. CASE GiveUp
    <2>1. /\ job.realm \in Realm /\ job.realm[1] \in Feed /\ compiled[job.realm[1]] # job.realm[2]
          /\ loaded' = [loaded EXCEPT ![job.realm] = None]
          /\ job' = None /\ UNCHANGED <<rows, compiled, broken, pending, handle>>
      BY <1>11 DEF GiveUp, JobInv, disk, bootVars, Realm
    <2>2. \A g \in Feed : compiled[g] # None => loaded'[<<g, compiled[g]>>] = loaded[<<g, compiled[g]>>]
      BY <2>1 DEF LoadedInv, Realm
    <2>3. LoadedInv'
      BY <2>1, <2>2 DEF LoadedInv, Installed, Bound
    <2>4. QED
      BY <2>1, <2>3 DEF JobInv
  <1>12. ASSUME NEW r \in Realm, Release(r)
        PROVE  JobInv' /\ LoadedInv'
    <2>1. /\ compiled[r[1]] # r[2] /\ (job # None => job.realm # r)
          /\ loaded' = [loaded EXCEPT ![r] = None]
          /\ UNCHANGED <<rows, compiled, broken, pending, job, handle>>
      BY <1>12 DEF Release, Released, disk, bootVars
    <2>2. \A g \in Feed : compiled[g] # None => loaded'[<<g, compiled[g]>>] = loaded[<<g, compiled[g]>>]
      BY <2>1 DEF LoadedInv, Realm
    <2>3. LoadedInv'
      BY <2>1, <2>2 DEF LoadedInv, Installed, Bound
    <2>4. QED
      BY <2>1, <2>3 DEF JobInv, LoadedInv
  <1>13. CASE StorageStep \/ (\E r \in Realm, k \in Key, v \in Value \cup {None} : Store(r, k, v)) \/ UNCHANGED vars
    BY <1>1, <1>13 DEF StorageStep, Store, vars, disk, scripts, bootVars, Bound
  <1>14. QED
    BY <1>2, <1>3, <1>4, <1>5, <1>6, <1>7, <1>8, <1>9, <1>10, <1>11, <1>12, <1>13 DEF Next, Boot, Message

LEMMA RegistryHolds == Spec => []RegistryInv
  <1>1. Init => RegistryInv
    BY RegistryStart
  <1>2. RegistryInv /\ [Next]_vars => RegistryInv'
    BY BootStep, TablesStep, LoadedSteps DEF RegistryInv
  <1>3. QED
    BY <1>1, <1>2, PTL DEF Spec

(* Every variable of the registry keeps its type, the history and the        *)
(* previews their bounds (prune_scripts, PENDING_INSTALLS_CAP).              *)
THEOREM RegistryTypes == Spec => []TypeOK
  <1>1. RegistryInv => TypeOK
    BY DEF RegistryInv, BootInv, TablesInv, JobInv, LoadedInv, TypeOK, Stages
  <1>2. QED
    BY <1>1, RegistryHolds, PTL

(* Once bound, the registry answers for exactly the installed feeds, each    *)
(* with the instance that runs the script of its row, whatever was installed,*)
(* imported, upgraded, given up, removed or released before                  *)
(* (registry_actor.rs: feeds and load_errors against the feeds table).       *)
THEOREM RegistryAgreesAlways == Spec => []RegistryAgrees
  <1>1. RegistryInv => RegistryAgrees
    BY DEF RegistryInv, TablesInv, LoadedInv, RegistryAgrees
  <1>2. QED
    BY <1>1, RegistryHolds, PTL

(* Pruning a history of any bound leaves the script of the row in it, as     *)
(* long as the clock moved on between installs (feeds.rs: prune_scripts,     *)
(* get_current_script).                                                      *)
THEOREM RegistryScriptKept == Spec => []ActiveScriptKept
  <1>1. RegistryInv => ActiveScriptKept
    BY ActiveScriptTrue DEF RegistryInv, ActiveScriptKept
  <1>2. QED
    BY <1>1, RegistryHolds, PTL
=============================================================================
