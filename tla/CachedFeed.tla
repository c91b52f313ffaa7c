------------------------------ MODULE CachedFeed -----------------------------
(***************************************************************************)
(* The tasks that use the book store: cache-first chapter lists and        *)
(* paragraphs, cached book info and background cover downloads             *)
(* (native/langhuan/src/cache/mod.rs), the shelf actor                     *)
(* (native/hub/src/actors/bookshelf_actor.rs) and the maintenance pass     *)
(* (native/langhuan/src/db/maintenance.rs).                                *)
(*                                                                         *)
(* A task awaits between two database calls, so anything may happen in     *)
(* between: each label of `pc` is the await the task is parked at, and     *)
(* each action runs it to the next one.  An idle task is a slot: the       *)
(* number of slots bounds what is in flight, not what may happen.          *)
(***************************************************************************)
EXTENDS BookStore

CONSTANTS
    Task,             \* slots for tasks in flight
    Allowed,          \* the cover URLs the feed's access_domains allow
    CleanupThrottle   \* CLEANUP_THROTTLE_MS

ASSUME FeedAssumption ==
    /\ Allowed \subseteq Url
    /\ CleanupThrottle \in Nat

VARIABLES
    task,         \* what each slot is doing
    lastCleanup,  \* meta.last_cleanup_ms
    raced,        \* history: tasks whose book left the shelf past their gate
    annulled      \* history: downloads whose claim was reset under them

vars == <<storeVars, task, lastCleanup, raced, annulled>>

QueryPc == {"gate", "get", "clearBroken", "fetch", "set", "clear"}
InfoPc == {"infoGate", "forcedGate", "infoGet", "infoFetch", "infoSet"}
CoverPc == {"resolve", "coverGate", "claim", "download", "store", "reject"}
MaintPc == {"stale", "evict", "stamp"}

TaskState == [pc   : {"idle"} \cup QueryPc \cup InfoPc \cup CoverPc \cup MaintPc,
              book : Book \cup {None},
              item : Item \cup {None},
              url  : Url \cup {None},
              named : Book \cup {None},  \* the id in the script's answer
              at   : Nat]   \* when the claim was taken, or the pass started

Slot(pc, b, i, url, at) ==
    [pc |-> pc, book |-> b, item |-> i, url |-> url, named |-> None, at |-> at]

\* A fetched BookInfo about to be written: the task was asked for book `b`, the
\* script answered for the id `c`, which nothing compares with `b`.
Fetched(b, c, url) ==
    [pc |-> "infoSet", book |-> b, item |-> None, url |-> url, named |-> c, at |-> 0]

Idle == Slot("idle", None, None, None, 0)

At(t, pc) == task[t].pc = pc

TypeOK ==
    /\ StoreTypeOK
    /\ task \in [Task -> TaskState]
    /\ \A t \in Task : task[t].pc \in QueryPc \cup InfoPc \cup CoverPc => task[t].book \in Book
    /\ \A t \in Task : task[t].pc \in QueryPc => task[t].item \in Item
    /\ \A t \in Task : task[t].pc \in CoverPc => task[t].url \in Url
    /\ \A t \in Task : At(t, "infoSet") => task[t].named \in Book
    /\ \A t \in Task : task[t].at <= now
    /\ lastCleanup \in Nat
    /\ raced \in SUBSET Task
    /\ annulled \in SUBSET Task

Init ==
    /\ StoreInit
    /\ task = [t \in Task |-> Idle]
    /\ lastCleanup = 0
    /\ raced = {}
    /\ annulled = {}

\* The gate admitted the task: what it reads and writes is the cache.
PastGate(st) == st.pc \in {"get", "clearBroken", "fetch", "set", "clear",
                           "infoGet", "infoFetch", "infoSet",
                           "claim", "download", "store", "reject"}

\* The task holds a download claim.
Downloading(st) == st.pc \in {"download", "store", "reject"}

History ==
    /\ raced' = {t \in Task :
                   /\ PastGate(task'[t])
                   /\ \/ t \in raced
                      \/ /\ PastGate(task[t])
                         /\ task[t].book \in shelf \ shelf'}
    /\ annulled' = {t \in Task :
                      /\ Downloading(task'[t])
                      /\ LET row == books'[task'[t].book] IN
                           \/ t \in annulled
                           \/ row = None
                           \/ row # None /\ row.cover # "pending"}

\* FeedActor handles one message at a time, and awaits book info in place.
ActorFree == \A t \in Task : task[t].pc \notin InfoPc

Goto(t, pc) == task' = [task EXCEPT ![t].pc = pc]

Finish(t) == task' = [task EXCEPT ![t] = Idle]

\* spawn_cover_download: the slot goes on as the background download.
CoverTask(pc, b, url) == IF url = None THEN Idle ELSE Slot(pc, b, None, url, 0)

-----------------------------------------------------------------------------
(* Chapter lists and paragraphs: cache_first_stream!                       *)

\* GetChapters / GetParagraphs; a forced refresh clears the entry first.
StartQuery(t, b, i, force) ==
    /\ At(t, "idle") /\ installed /\ ActorFree
    /\ task' = [task EXCEPT ![t] = Slot("gate", b, i, None, 0)]
    /\ IF force THEN DeleteItemTx(b, i) ELSE UNCHANGED storeVars
    /\ UNCHANGED lastCleanup

\* Mutant: no shelf gate on the query.
QueryGateOpen(t) ==
    /\ At(t, "gate")
    /\ Goto(t, "get") \/ Finish(t)
    /\ UNCHANGED <<storeVars, lastCleanup>>

\* Shelf gate; unshelved books are served live, and so is a failed lookup.
QueryGate(t) ==
    /\ At(t, "gate")
    /\ \/ task[t].book \in shelf /\ Goto(t, "get")
       \/ Finish(t)
    /\ UNCHANGED <<storeVars, lastCleanup>>

QueryHit(t) ==
    /\ At(t, "get")
    /\ Hit(task[t].book, task[t].item)
    /\ TouchTx(task[t].book)
    /\ Finish(t)
    /\ UNCHANGED lastCleanup

QueryMiss(t) ==
    /\ At(t, "get")
    /\ ~Hit(task[t].book, task[t].item)
    /\ Goto(t, "fetch")
    /\ UNCHANGED <<storeVars, lastCleanup>>

\* The payload no longer decodes: dropped by the read, then cleared again.
QueryBroken(t) ==
    /\ \/ At(t, "get") /\ Hit(task[t].book, task[t].item) /\ Goto(t, "clearBroken")
       \/ At(t, "clearBroken") /\ Goto(t, "fetch")
    /\ DeleteItemTx(task[t].book, task[t].item)
    /\ UNCHANGED lastCleanup

QueryFetch(t) ==
    /\ At(t, "fetch")
    /\ Goto(t, "set") \/ Finish(t)
    /\ UNCHANGED <<storeVars, lastCleanup>>

QuerySet(t) ==
    /\ At(t, "set")
    /\ \/ SetItemTx(task[t].book, task[t].item) /\ Finish(t)
       \/ UNCHANGED storeVars /\ Goto(t, "clear")
    /\ UNCHANGED lastCleanup

QueryClear(t) ==
    /\ At(t, "clear")
    /\ DeleteItemTx(task[t].book, task[t].item)
    /\ Finish(t)
    /\ UNCHANGED lastCleanup

-----------------------------------------------------------------------------
(* Book info: book_info_with_options                                       *)

StartInfo(t, b, force) ==
    /\ At(t, "idle") /\ installed /\ ActorFree
    /\ task' = [task EXCEPT ![t] =
                  Slot(IF force THEN "forcedGate" ELSE "infoGate", b, None, None, 0)]
    /\ UNCHANGED <<storeVars, lastCleanup>>

\* Mutant: a forced refresh skips the shelf gate.
InfoGateForced(t) ==
    /\ \/ At(t, "infoGate") /\ task[t].book \in shelf /\ Goto(t, "infoGet")
       \/ At(t, "forcedGate") /\ Goto(t, "infoFetch")
       \/ task[t].pc \in {"infoGate", "forcedGate"} /\ Finish(t)
    /\ UNCHANGED <<storeVars, lastCleanup>>

InfoGate(t) ==
    /\ \/ At(t, "infoGate") /\ task[t].book \in shelf /\ Goto(t, "infoGet")
       \/ At(t, "forcedGate") /\ task[t].book \in shelf /\ Goto(t, "infoFetch")
       \/ task[t].pc \in {"infoGate", "forcedGate"} /\ Finish(t)
    /\ UNCHANGED <<storeVars, lastCleanup>>

\* get_book_and_touch: only a row that was truly fetched is a hit.
InfoGet(t) ==
    LET b == task[t].book
        hit == books[b] # None /\ books[b].fetched
    IN  /\ At(t, "infoGet")
        /\ TouchTx(b)
        /\ IF hit
           THEN task' = [task EXCEPT ![t] = CoverTask("coverGate", b, books[b].url)]
           ELSE Goto(t, "infoFetch")
        /\ UNCHANGED lastCleanup

InfoFetch(t) ==
    /\ At(t, "infoFetch")
    /\ \/ \E c \in Book, url \in Url \cup {None} :
            task' = [task EXCEPT ![t] = Fetched(task[t].book, c, url)]
       \/ Finish(t)
    /\ UNCHANGED <<storeVars, lastCleanup>>

\* The row is written under the id of the answer, the download is spawned for
\* the book that was asked for.  A failed write degrades to "uncached" and
\* still spawns the download.
InfoSet(t) ==
    /\ At(t, "infoSet")
    /\ UpsertFetchedTx(task[t].named, task[t].url) \/ UNCHANGED storeVars
    /\ task' = [task EXCEPT ![t] = CoverTask("coverGate", task[t].book, task[t].url)]
    /\ UNCHANGED lastCleanup

-----------------------------------------------------------------------------
(* Covers: CoverDownloader::download and store                             *)

\* BookshelfActor::add, which spawns a download that resolves its feed first.
AddBook(t, b, url) ==
    /\ At(t, "idle")
    /\ AddBookTx(b, url)
    /\ task' = [task EXCEPT ![t] = CoverTask("resolve", b, url)]
    /\ UNCHANGED lastCleanup

CoverResolve(t) ==
    /\ At(t, "resolve")
    /\ IF installed THEN Goto(t, "coverGate") ELSE Finish(t)
    /\ UNCHANGED <<storeVars, lastCleanup>>

\* Still shelved, and the URL inside access_domains (checked before the claim).
CoverGate(t) ==
    /\ At(t, "coverGate")
    /\ \/ task[t].book \in shelf /\ task[t].url \in Allowed /\ Goto(t, "claim")
       \/ Finish(t)
    /\ UNCHANGED <<storeVars, lastCleanup>>

CoverClaim(t) ==
    /\ At(t, "claim")
    /\ \/ /\ ClaimTx(task[t].book)
          /\ task' = [task EXCEPT ![t] =
                        Slot("download", task[t].book, None, task[t].url, now)]
       \/ /\ ~Claimable(task[t].book)
          /\ Finish(t)
          /\ UNCHANGED storeVars
    /\ UNCHANGED lastCleanup

\* An image; too large, no image or empty; blocked redirect or transport error
\* (which leaves the claim pending).
CoverFetch(t) ==
    /\ At(t, "download")
    /\ Goto(t, "store") \/ Goto(t, "reject") \/ Finish(t)
    /\ UNCHANGED <<storeVars, lastCleanup>>

CoverStore(t) ==
    /\ At(t, "store")
    /\ SetCoverTx(task[t].book, task[t].url) \/ UNCHANGED storeVars
    /\ Finish(t)
    /\ UNCHANGED lastCleanup

CoverReject(t) ==
    /\ At(t, "reject")
    /\ MarkFailedTx(task[t].book)
    /\ Finish(t)
    /\ UNCHANGED lastCleanup

-----------------------------------------------------------------------------
(* run_maintenance: at startup (throttled) and on demand (forced)          *)

StartMaintenance(t, force) ==
    /\ At(t, "idle")
    /\ force \/ now - lastCleanup >= CleanupThrottle
    /\ task' = [task EXCEPT ![t] = Slot("stale", None, None, None, now)]
    /\ UNCHANGED <<storeVars, lastCleanup>>

MaintenanceStale(t) ==
    /\ At(t, "stale")
    /\ StaleCleanupTx(task[t].at - StaleAge)
    /\ Goto(t, "evict")
    /\ UNCHANGED lastCleanup

\* The eviction loop: one chunk per database visit, until nothing is evicted.
MaintenanceEvict(t) ==
    /\ At(t, "evict")
    /\ \/ \E S \in SUBSET Book : EvictTx(S) /\ UNCHANGED task
       \/ /\ CacheTotal <= MaxCache \/ Unprotected = {}
          /\ Goto(t, "stamp")
          /\ UNCHANGED storeVars
    /\ UNCHANGED lastCleanup

MaintenanceStamp(t) ==
    /\ At(t, "stamp")
    /\ lastCleanup' = task[t].at
    /\ Finish(t)
    /\ UNCHANGED storeVars

-----------------------------------------------------------------------------
(* What the user does, and the end of the process                          *)

UserTx ==
    \/ InstallFeedTx
    \/ installed /\ DeleteFeedTx
    \/ ClearCacheTx
    \/ \E b \in Book : RemoveBookTx(b) \/ DeleteBookmarkTx(b)
    \/ \E b \in Book, u \in UserTable : SetUserDataTx(b, u)

User == UserTx /\ UNCHANGED <<task, lastCleanup>>

Time == Tick /\ UNCHANGED <<task, lastCleanup>>

\* The process dies and starts again: every task is gone, the tables stay.
Restart ==
    /\ task' = [t \in Task |-> Idle]
    /\ UNCHANGED <<storeVars, lastCleanup>>

TaskStep(t) ==
    \/ QueryGate(t) \/ QueryHit(t) \/ QueryMiss(t) \/ QueryBroken(t)
    \/ QueryFetch(t) \/ QuerySet(t) \/ QueryClear(t)
    \/ InfoGate(t) \/ InfoGet(t) \/ InfoFetch(t) \/ InfoSet(t)
    \/ CoverResolve(t) \/ CoverGate(t) \/ CoverClaim(t)
    \/ CoverFetch(t) \/ CoverStore(t) \/ CoverReject(t)
    \/ MaintenanceStale(t) \/ MaintenanceEvict(t) \/ MaintenanceStamp(t)

TaskStart(t) ==
    \/ \E b \in Book, i \in Item, force \in BOOLEAN : StartQuery(t, b, i, force)
    \/ \E b \in Book, force \in BOOLEAN : StartInfo(t, b, force)
    \/ \E b \in Book, url \in Url \cup {None} : AddBook(t, b, url)
    \/ \E force \in BOOLEAN : StartMaintenance(t, force)

Step ==
    \/ \E t \in Task : TaskStart(t) \/ TaskStep(t)
    \/ User \/ Time \/ Restart

Next == Step /\ History

Spec == Init /\ [][Next]_vars

-----------------------------------------------------------------------------
(* Properties                                                              *)

(* Single flight: two downloads of one book whose claims both still stand  *)
(* were claimed at least the in-flight window apart; a claim is void once  *)
(* the row is deleted or its cover state reset under the download          *)
(* (claim_cover_download, cache/mod.rs "Single-flight").                   *)
SingleFlight ==
    \A t, u \in Task :
        /\ t # u
        /\ Downloading(task[t]) /\ Downloading(task[u])
        /\ task[t].book = task[u].book
        /\ {t, u} \cap annulled = {}
        => \/ task[t].at - task[u].at >= InflightRetry
           \/ task[u].at - task[t].at >= InflightRetry

(* A task that was asked for a book is past its gate only while the book   *)
(* is on the shelf, or because the book left the shelf after the gate let  *)
(* it pass ("The gate applies in both directions: no cache reads and no    *)
(* writes").                                                               *)
GateHolds ==
    \A t \in Task : PastGate(task[t]) => task[t].book \in shelf \/ t \in raced

(* The cause of a row in `books` for a book off the shelf is a task that   *)
(* its gate admitted: asked for this book, it was overtaken by the shelf;  *)
(* or, asked for another book on the shelf (or overtaken likewise), its    *)
(* script answered under this book's id, and upsert_fetched_book writes    *)
(* under the id of the answer.  Nothing else leaves a trace of a book the  *)
(* user never kept (the shelf gate of cache/mod.rs).                       *)
TraceHasCause ==
    [][\A b \in Book : b \notin shelf' /\ books[b] = None /\ books'[b] # None
         => \E t \in Task :
              /\ task'[t] # task[t]
              /\ \/ t \in raced /\ task[t].book = b
                 \/ /\ At(t, "infoSet") /\ task[t].named = b /\ task[t].book # b
                    /\ t \in raced \/ task[t].book \in shelf]_vars

-----------------------------------------------------------------------------
(* What the comments of the code say, and the code does not do             *)

(* repo/cache.rs on DELETE_STALE_COVER: "a changed or removed URL never    *)
(* leaves stale bytes behind".                                             *)
NoStaleBytes ==
    \A b \in Book : covers[b] # None => books[b].url = covers[b].url
=============================================================================
