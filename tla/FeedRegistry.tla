---------------------------- MODULE FeedRegistry ----------------------------
(* The registry of installed feeds (registry_actor.rs) over the feeds and    *)
(* feed_scripts tables, the bootstrap that binds every actor to the database *)
(* (app_data_actor.rs), and the storage the loaded scripts write             *)
(* (FeedStorage). The registry handles one message at a time; the writer of  *)
(* the storage, the scripts and the bootstrap run between its steps.         *)
EXTENDS Naturals, Sequences

CONSTANTS Feed, Script,    \* Script: records [feed, version, body]
          Key, Value, Url, None,
          Slot,            \* instances of one feed loaded at once
          Runnable,        \* bodies that load
          EarlyWriter,     \* bodies that call storage.set while they load
          Keep,            \* SCRIPT_HISTORY_KEEP
          PendingCap,      \* PENDING_INSTALLS_CAP
          MaxQueue, MaxAttempts   \* bounds of this model

ASSUME Bounds == Keep \in Nat \ {0} /\ PendingCap \in Nat \ {0} /\ MaxAttempts \in Nat
ASSUME ScriptsOfFeeds == \A s \in Script : s.feed \in Feed
ASSUME NoneIsNothing == None \notin Script /\ None \notin Slot /\ Slot # {}

Realm == Feed \X Slot
Component == {"registry", "login", "stores", "hub"}

VARIABLES
    rows,       \* feeds: installed feed -> [script, enabled, url]
    history,    \* feed_scripts: feed -> its scripts, one per version, by
                \* installed_at_ms DESC, version DESC
    loaded,     \* realm -> the script it runs, or None
    compiled,   \* RegistryActor.feeds: feed -> slot of its instance, or None
    broken,     \* RegistryActor.load_errors
    pending,    \* pending_installs in the order of their seq: [script, url]
    job,        \* the install or import the registry is awaiting, or None
    boot,       \* stage of set_data_directory
    attempt,    \* databases opened so far in this process
    handle,     \* component -> the attempt whose database it holds, 0: none
    table, cache, queue, writing, attached, lapsed,    \* see FeedStorage
    stale       \* history: feeds whose installed script is not the newest by
                \* the clock, which stepped back or stood still

disk == <<rows, history, stale>>
scripts == <<loaded, compiled, broken>>
bootVars == <<boot, attempt, handle>>
storage == <<table, cache, queue, writing, attached, lapsed>>
vars == <<disk, scripts, pending, job, bootVars, storage>>

Installed == DOMAIN rows
Storage == INSTANCE FeedStorage WITH installed <- Installed
ASSUME NoneIsNoWrite == None \notin Storage!Op

NoScripts == [r \in Realm |-> None]
\* The database a session starts from: empty, or one feed an earlier version
\* of the app installed, whose script may not load any more.
Init == /\ \E old \in {{}} \cup {{s} : s \in Script} :
             /\ rows = [f \in {s.feed : s \in old} |->
                         [script |-> CHOOSE s \in old : TRUE, enabled |-> TRUE, url |-> None]]
             /\ history = [f \in Feed |-> IF f \in DOMAIN rows THEN <<rows[f].script>> ELSE <<>>]
        /\ stale = {}
        /\ loaded = NoScripts /\ compiled = [f \in Feed |-> None] /\ broken = {}
        /\ pending = <<>> /\ job = None
        /\ boot = "down" /\ attempt = 0 /\ handle = [c \in Component |-> 0]
        /\ Storage!Init

Bound(c) == handle[c] # 0
Bind(c) == handle' = [handle EXCEPT ![c] = attempt]
Ready == boot = "ready"
-----------------------------------------------------------------------------
(* Bootstrap: one stage per awaited call of set_data_directory.              *)

\* The app starts, or retries a bootstrap that failed: Db::open.
Open == /\ boot \in {"down", "failed", "refused"} /\ attempt < MaxAttempts
        /\ attempt' = attempt + 1 /\ boot' = "registry"
        /\ UNCHANGED <<disk, scripts, pending, job, handle, storage>>

\* A database or hydration error of the current stage ends the attempt.
BootFails == /\ boot \in {"registry", "login", "storage"}
             /\ boot = "registry" => ~Bound("registry")
             /\ boot' = "failed"
             /\ handle' = IF boot = "login" /\ ~Bound("login")
                          THEN [handle EXCEPT !["login"] = attempt] ELSE handle
             /\ UNCHANGED <<disk, scripts, pending, job, attempt, storage>>

OfVersion(h, v) == {i \in DOMAIN h : h[i].version = v}
ActiveScript(f) == LET at == OfVersion(history[f], rows[f].script.version)
                   IN  IF at = {} THEN None ELSE history[f][CHOOSE i \in at : TRUE]
\* A script that writes its storage while it loads throws until the storage
\* is attached.
Loads(s) == s.body \in Runnable /\ (s.body \in EarlyWriter => attached)

\* Mutant: a second bootstrap binds the registry to its own database.
BootRegistryAgain ==
    /\ boot = "registry" /\ job = None
    /\ LET first == CHOOSE n \in Slot : TRUE
           good == {f \in Installed : ActiveScript(f) # None /\ Loads(ActiveScript(f))}
       IN  /\ Bind("registry") /\ boot' = "login"
           /\ compiled' = [f \in Feed |-> IF f \in good THEN first ELSE None]
           /\ loaded' = [r \in Realm |-> IF r[1] \in good /\ r[2] = first
                                         THEN ActiveScript(r[1]) ELSE None]
           /\ broken' = Installed \ good
    /\ UNCHANGED <<disk, pending, job, attempt, storage>>

\* initialize: compile the active script of every row, in the first slot.
BootRegistry ==
    /\ boot = "registry" /\ job = None
    /\ IF Bound("registry")
       THEN boot' = "refused" /\ UNCHANGED <<scripts, handle>>
       ELSE LET first == CHOOSE n \in Slot : TRUE
                good == {f \in Installed : ActiveScript(f) # None /\ Loads(ActiveScript(f))}
            IN  /\ Bind("registry") /\ boot' = "login"
                /\ compiled' = [f \in Feed |-> IF f \in good THEN first ELSE None]
                /\ loaded' = [r \in Realm |-> IF r[1] \in good /\ r[2] = first
                                              THEN ActiveScript(r[1]) ELSE None]
                /\ broken' = Installed \ good
    /\ UNCHANGED <<disk, pending, job, attempt, storage>>

\* The login actor takes the handle before it hydrates.
BootLogin == /\ boot = "login"
             /\ IF Bound("login") THEN boot' = "refused" /\ UNCHANGED handle
                ELSE boot' = "stores" /\ Bind("login")
             /\ UNCHANGED <<disk, scripts, pending, job, attempt, storage>>

\* Bookshelf, progress and bookmarks take any handle they are given.
BootStores == /\ boot = "stores" /\ boot' = "storage" /\ Bind("stores")
              /\ UNCHANGED <<disk, scripts, pending, job, attempt, storage>>

BootStorage == /\ boot = "storage" /\ boot' = "ready"
               /\ IF attached THEN UNCHANGED storage ELSE Storage!Attach
               /\ IF Bound("hub") THEN UNCHANGED handle ELSE Bind("hub")
               /\ UNCHANGED <<disk, scripts, pending, job, attempt>>

\* The process dies; the database file stays.
Crash == /\ loaded' = NoScripts /\ compiled' = [f \in Feed |-> None] /\ broken' = {}
         /\ pending' = <<>> /\ job' = None
         /\ boot' = "down" /\ attempt' = 0 /\ handle' = [c \in Component |-> 0]
         /\ Storage!Crash
         /\ UNCHANGED disk
-----------------------------------------------------------------------------
(* The messages of the registry.                                             *)

Idle == job = None
\* One row per version, one preview per feed: at most one position is in at.
Dropped(seq, at) == IF at = {} THEN seq
                    ELSE LET i == CHOOSE i \in at : TRUE
                         IN  SubSeq(seq, 1, i - 1) \o SubSeq(seq, i + 1, Len(seq))
WithoutFeed(seq, f) == Dropped(seq, {i \in DOMAIN seq : seq[i].script.feed = f})
\* push_pending: a feed has one preview; the oldest goes when there is no room.
Pushed(p) == LET rest == WithoutFeed(pending, p.script.feed)
             IN  Append(IF Len(rest) < PendingCap THEN rest ELSE Tail(rest), p)

Preview(s, u) == /\ Idle
                 /\ pending' = Pushed([script |-> s, url |-> u])
                 /\ UNCHANGED <<disk, scripts, job, bootVars, storage>>

FreeSlot(f) == {n \in Slot : loaded[<<f, n>>] = None}
\* Compile a script: it may write one value while it loads.
Compile(kind, p, r) ==
    /\ loaded' = [loaded EXCEPT ![r] = p.script]
    /\ job' = [kind |-> kind, script |-> p.script, url |-> p.url, realm |-> r]
    /\ IF p.script.body \in EarlyWriter
       THEN \E k \in Key, v \in Value : Storage!Enqueue(r, <<p.script.feed, k>>, v)
       ELSE UNCHANGED storage
    /\ UNCHANGED <<disk, compiled, broken, bootVars>>

\* do_install: the preview is taken whether or not the install succeeds.
Install(f) ==
    /\ Idle
    /\ \E i \in DOMAIN pending :
        /\ pending[i].script.feed = f
        /\ pending' = WithoutFeed(pending, f)
        /\ IF Bound("registry") /\ Loads(pending[i].script)
           THEN \E n \in FreeSlot(f) : Compile("install", pending[i], <<f, n>>)
           ELSE UNCHANGED <<disk, scripts, job, bootVars, storage>>

SameInstalled(s) == s.feed \in Installed /\ rows[s.feed].script = s
\* do_import, one entry: compiled even when it is then skipped.
Import(s, u) ==
    /\ Idle /\ Bound("registry") /\ Loads(s)
    /\ \E n \in FreeSlot(s.feed) : Compile("import", [script |-> s, url |-> u], <<s.feed, n>>)
    /\ UNCHANGED pending

Without(h, v) == Dropped(h, OfVersion(h, v))

\* Mutant: pruning keeps the oldest versions.
Oldest(h, n) == SubSeq(h, IF n < Len(h) THEN Len(h) - n + 1 ELSE 1, Len(h))

Newest(h, n) == SubSeq(h, 1, IF n < Len(h) THEN n ELSE Len(h))

\* Mutant: an upgrade is stored like a first install.
UpsertedFresh(s, u) == [script |-> s, enabled |-> TRUE, url |-> u]

Upserted(s, u) ==
    LET old == s.feed \in Installed
    IN  [script |-> s,
         enabled |-> IF old THEN rows[s.feed].enabled ELSE TRUE,
         url |-> IF u = None /\ old THEN rows[s.feed].url ELSE u]

\* upsert_feed, upsert_script and prune_scripts in one transaction, then the
\* new instance replaces the old one, which its running streams keep alive.
Commit ==
    /\ job # None /\ writing[job.realm] = None
    /\ ~(job.kind = "import" /\ SameInstalled(job.script))
    /\ LET s == job.script
           f == s.feed
           h == Without(history[f], s.version)
       IN  /\ rows' = [g \in Installed \cup {f} |-> IF g = f THEN Upserted(s, job.url) ELSE rows[g]]
           /\ \E i \in 1..Len(h) + 1 :     \* its place by the clock
                /\ history' = [history EXCEPT ![f] = Newest(SubSeq(h, 1, i - 1) \o <<s>> \o SubSeq(h, i, Len(h)), Keep)]
                /\ stale' = IF i = 1 THEN stale \ {f} ELSE stale \cup {f}
           /\ compiled' = [compiled EXCEPT ![f] = job.realm[2]]
           /\ broken' = broken \ {f}
    /\ job' = None
    /\ UNCHANGED <<loaded, pending, bootVars, storage>>

\* The transaction fails, or an import finds the script already installed:
\* nothing is stored and the new instance is dropped.
GiveUp ==
    /\ job # None /\ writing[job.realm] = None
    /\ loaded' = [loaded EXCEPT ![job.realm] = None]
    /\ job' = None
    /\ UNCHANGED <<disk, compiled, broken, pending, bootVars, storage>>

\* Mutant: the row is deleted and the compiled feed stays in the map.
RemoveRow(f) ==
    /\ Idle /\ Bound("registry") /\ f \in Installed
    /\ rows' = [g \in Installed \ {f} |-> rows[g]]
    /\ history' = [history EXCEPT ![f] = <<>>]
    /\ stale' = stale \ {f}
    /\ Storage!Cascade(f)
    /\ UNCHANGED <<scripts, pending, job, bootVars>>

Remove(f) ==
    /\ Idle /\ Bound("registry") /\ f \in Installed
    /\ rows' = [g \in Installed \ {f} |-> rows[g]]
    /\ history' = [history EXCEPT ![f] = <<>>]
    /\ stale' = stale \ {f}
    /\ compiled' = [compiled EXCEPT ![f] = None]
    /\ broken' = broken \ {f}
    /\ Storage!Cascade(f)
    /\ UNCHANGED <<loaded, pending, job, bootVars>>

SetEnabled(f, e) ==
    /\ Idle /\ Bound("registry") /\ f \in Installed
    /\ rows' = [rows EXCEPT ![f].enabled = e]
    /\ UNCHANGED <<history, stale, scripts, pending, job, bootVars, storage>>
-----------------------------------------------------------------------------
(* The scripts and the writer of their storage.                              *)

Released(r) == /\ loaded[r] # None /\ writing[r] = None
               /\ compiled[r[1]] # r[2] /\ (job # None => job.realm # r)
\* The last stream of a replaced or removed instance ends.
Release(r) == /\ Released(r)
              /\ loaded' = [loaded EXCEPT ![r] = None]
              /\ UNCHANGED <<disk, compiled, broken, pending, job, bootVars, storage>>

Store(r, k, v) == /\ loaded[r] # None /\ (job # None => job.realm # r)
                  /\ Storage!Enqueue(r, <<r[1], k>>, v)
                  /\ UNCHANGED <<disk, scripts, pending, job, bootVars>>

StorageStep == /\ \/ \E r \in Realm : Storage!Publish(r)
                  \/ Storage!Apply
                  \/ Storage!Drop
               /\ UNCHANGED <<disk, scripts, pending, job, bootVars>>

Boot == Open \/ BootFails \/ BootRegistry \/ BootLogin \/ BootStores \/ BootStorage \/ Crash
Message == \/ \E s \in Script, u \in Url \cup {None} : Preview(s, u) \/ Import(s, u)
           \/ \E f \in Feed : Install(f) \/ Remove(f)
           \/ \E f \in Feed, e \in BOOLEAN : SetEnabled(f, e)
           \/ Commit \/ GiveUp
Next == \/ Boot \/ Message \/ StorageStep
        \/ \E r \in Realm : Release(r)
        \/ \E r \in Realm, k \in Key, v \in Value \cup {None} : Store(r, k, v)

Spec == Init /\ [][Next]_vars
-----------------------------------------------------------------------------
Row == [script : Script, enabled : BOOLEAN, url : Url \cup {None}]
TypeOK ==
    /\ Installed \subseteq Feed /\ \A f \in Installed : rows[f] \in Row /\ rows[f].script.feed = f
    /\ history \in [Feed -> Seq(Script)] /\ \A f \in Feed : Len(history[f]) <= Keep
    /\ loaded \in [Realm -> Script \cup {None}] /\ compiled \in [Feed -> Slot \cup {None}]
    /\ broken \subseteq Feed /\ Len(pending) <= PendingCap
    /\ boot \in {"down", "registry", "login", "stores", "storage", "ready", "failed", "refused"}

\* Every actor works on one database, and the app is ready only when all of
\* them and the script storage are bound to it: a retried bootstrap opens the
\* file anew, and the registry's refusal is what keeps the second handle out.
OneDatabase == /\ \A c, d \in Component : Bound(c) /\ Bound(d) => handle[c] = handle[d]
               /\ Ready => attached /\ \A c \in Component : Bound(c)

\* Once bound, the registry answers for exactly the installed feeds, each
\* with the script of its row or with the reason it did not load; a restart
\* finds that script in the history.
RegistryAgrees ==
    Bound("registry") =>
        /\ Installed = broken \cup {f \in Feed : compiled[f] # None}
        /\ \A f \in Installed :
              compiled[f] # None => /\ f \notin broken
                                    /\ loaded[<<f, compiled[f]>>] = rows[f].script

\* The active script stays in the pruned history whenever the clock moved on
\* between installs, and then it is the installed text, not an older one.
ActiveScriptKept == \A f \in Installed \ stale : ActiveScript(f) = rows[f].script

\* An upgrade keeps what the user decided about a feed:
\* upserting never resumes a paused feed nor forgets its source.
UserStateKept ==
    [][\A f \in Installed \cap DOMAIN rows' :
          rows'[f].script # rows[f].script =>
              /\ rows'[f].enabled = rows[f].enabled
              /\ rows[f].url # None => rows'[f].url # None]_vars

\* What scripts read agrees with what will be stored (FeedStorage), through
\* upgrades, removals and crashes.
CacheSettles == Storage!CacheSettles
\* The storage used by the registry's scripts is the storage of FeedStorage.
StorageImplemented == Storage!Spec
\* ... and through it keeps the promise of WriteThrough.
WriteThroughImplemented == Storage!WriteThroughImplemented

\* "feeds live in the database, so no feed operation - and no storage call -
\* can precede" the attach (feed_storage.rs): no script fails to load for it.
NoEarlyStorage == \A f \in broken : ActiveScript(f) # None =>
                        ActiveScript(f).body \notin Runnable \cap EarlyWriter
\* The active script's history row exists (feeds.rs calls its absence "an
\* internal invariant violation").
ActiveInHistory == \A f \in Installed : ActiveScript(f) # None
\* A retry starts the bootstrap over (feed_providers.dart).
RetryNotRefused == boot # "refused"
=============================================================================
