------------------------------ MODULE BookStore ------------------------------
(***************************************************************************)
(* The cache tables of the SQLite store for the books of ONE feed:         *)
(*   native/langhuan/src/db/repo/{cache,bookshelf,maintenance,progress,    *)
(*   bookmarks,feeds}.rs over the schema of db/schema.rs.                  *)
(*                                                                         *)
(* Every closure handed to Db::call or Db::write runs alone on the single  *)
(* database thread, so each repository operation is ONE atomic action      *)
(* here.  Who calls them, in which order, is the business of CachedFeed;   *)
(* this module's own Spec allows every order.                              *)
(*                                                                         *)
(* Data kept: what the guards and the deletes look at (presence of a row,  *)
(* its cover URL, its time stamps).  A cover row also remembers, as a      *)
(* history value, the URL its bytes came from.                             *)
(***************************************************************************)
EXTENDS Integers, FiniteSets

CONSTANTS
    Book,           \* source book ids of the feed
    Item,           \* cached payloads of a book: chapter ids, and ChapterList
    ChapterList,    \* the row of chapter_lists (the only payload with a TTL)
    UserTable,      \* the tables of user data: "reading_progress", "bookmarks"
    Url,            \* cover URLs
    None,           \* SQL NULL, and "no such row"
    InflightRetry,  \* COVER_INFLIGHT_RETRY_MS
    FailedRetry,    \* COVER_FAILED_RETRY_MS
    ListTTL,        \* CHAPTER_LIST_TTL_MS
    StaleAge,       \* STALE_MAX_AGE_MS
    MaxCache,       \* MAX_CACHE_BYTES, counted in payload rows
    EvictChunk,     \* EVICT_CHUNK
    MaxNow          \* bound on the clock (checking only)

CoverState == {"none", "pending", "downloaded", "failed"}

BookRow == [url : Url \cup {None}, cover : CoverState, coverAt : Nat,
            fetched : BOOLEAN, usedAt : Nat]

CoverRow == [url : Url, at : Nat]

ASSUME StoreAssumption ==
    /\ {InflightRetry, FailedRetry, ListTTL, StaleAge, MaxCache} \subseteq Nat
    /\ EvictChunk \in Nat \ {0}
    /\ UserTable \subseteq {"reading_progress", "bookmarks"}
    /\ None \notin Nat /\ None \notin Url
    /\ None \notin BookRow /\ None \notin CoverRow

VARIABLES
    now,        \* the wall clock, in coarse ticks
    installed,  \* the row of `feeds` exists
    shelf,      \* bookshelf
    books,      \* books
    covers,     \* covers
    cached,     \* chapters and chapter_lists: time stamp of each payload
    userData    \* reading_progress and bookmarks: time stamp of the row

tables == <<installed, shelf, books, covers, cached, userData>>
storeVars == <<now, tables>>

StoreTypeOK ==
    /\ now \in Nat
    /\ installed \in BOOLEAN
    /\ shelf \in SUBSET Book
    /\ books \in [Book -> BookRow \cup {None}]
    /\ covers \in [Book -> CoverRow \cup {None}]
    /\ cached \in [Book -> [Item -> Nat \cup {None}]]
    /\ userData \in [Book -> [UserTable -> Nat \cup {None}]]

NoItems == [i \in Item |-> None]
NoUserData == [u \in UserTable |-> None]

StoreInit ==
    /\ now = 0
    /\ installed = FALSE
    /\ shelf = {}
    /\ books = [b \in Book |-> None]
    /\ covers = [b \in Book |-> None]
    /\ cached = [b \in Book |-> NoItems]
    /\ userData = [b \in Book |-> NoUserData]

Tick ==
    /\ now < MaxNow
    /\ now' = now + 1
    /\ UNCHANGED tables

-----------------------------------------------------------------------------
(* Deleting rows of `books` cascades to every table that references it.    *)

DeleteBooks(S) ==
    /\ books' = [b \in Book |-> IF b \in S THEN None ELSE books[b]]
    /\ covers' = [b \in Book |-> IF b \in S THEN None ELSE covers[b]]
    /\ cached' = [b \in Book |-> IF b \in S THEN NoItems ELSE cached[b]]
    /\ shelf' = shelf \ S

\* upsert_feed / delete_feed: books, shelf and user data cascade from `feeds`.
InstallFeedTx ==
    /\ installed' = TRUE
    /\ UNCHANGED <<now, shelf, books, covers, cached, userData>>

DeleteFeedTx ==
    /\ installed' = FALSE
    /\ DeleteBooks(Book)
    /\ userData' = [b \in Book |-> NoUserData]
    /\ UNCHANGED now

-----------------------------------------------------------------------------
(* books                                                                   *)

Placeholder == [url |-> None, cover |-> "none", coverAt |-> 0,
                fetched |-> FALSE, usedAt |-> now]

\* touch_book
Touched(row) == IF row = None THEN None ELSE [row EXCEPT !.usedAt = now]

\* UPSERT_FETCHED_BOOK: a changed cover_url resets the cover state.
FetchedRow(row, url) ==
    LET same == row # None /\ row.url = url
    IN  [url     |-> url,
         cover   |-> IF same THEN row.cover ELSE "none",
         coverAt |-> IF same THEN row.coverAt ELSE 0,
         fetched |-> TRUE,
         usedAt  |-> now]

\* upsert_snapshot: only a placeholder row is overwritten.
SnapshotRow(row, url) ==
    IF row # None /\ row.fetched THEN row
    ELSE [FetchedRow(row, url) EXCEPT !.fetched = FALSE]

\* Mutant: DELETE_STALE_COVER run after the upsert, when the URLs agree again.
StaleCoverDeletedLate(b, url) == covers[b]

\* DELETE_STALE_COVER: compares the incoming URL with the stored one.
StaleCoverDeleted(b, url) ==
    IF books[b] # None /\ books[b].url # url THEN None ELSE covers[b]

\* upsert_fetched_book; the foreign key makes it fail without the feed row.
UpsertFetchedTx(b, url) ==
    /\ installed
    /\ covers' = [covers EXCEPT ![b] = StaleCoverDeleted(b, url)]
    /\ books' = [books EXCEPT ![b] = FetchedRow(books[b], url)]
    /\ UNCHANGED <<now, installed, shelf, cached, userData>>

\* get_book_and_touch
TouchTx(b) ==
    /\ books' = [books EXCEPT ![b] = Touched(books[b])]
    /\ UNCHANGED <<now, installed, shelf, covers, cached, userData>>

\* add_book = upsert_snapshot, then INSERT OR IGNORE INTO bookshelf.
AddBookTx(b, url) ==
    /\ installed
    /\ covers' = [covers EXCEPT ![b] = StaleCoverDeleted(b, url)]
    /\ books' = [books EXCEPT ![b] = SnapshotRow(books[b], url)]
    /\ shelf' = shelf \cup {b}
    /\ UNCHANGED <<now, installed, cached, userData>>

\* remove_book: nothing is deleted unless the book was shelved.
RemoveBookTx(b) ==
    /\ b \in shelf
    /\ DeleteBooks({b})
    /\ userData' = [userData EXCEPT ![b] = NoUserData]
    /\ UNCHANGED <<now, installed>>

-----------------------------------------------------------------------------
(* covers                                                                  *)

\* Mutant: a pending download can be claimed again at once.
ClaimableAtOnce(b) ==
    /\ books[b] # None
    /\ \/ books[b].cover = "none" /\ books[b].url # None
       \/ books[b].cover = "pending"

Claimable(b) ==
    /\ books[b] # None
    /\ LET row == books[b] IN
         \/ row.cover = "none" /\ row.url # None
         \/ row.cover = "pending" /\ now - row.coverAt >= InflightRetry
         \/ row.cover = "failed" /\ now - row.coverAt >= FailedRetry
         \/ row.cover = "downloaded" /\ covers[b] = None

MarkCover(b, state) ==
    books' = [books EXCEPT ![b] =
                IF books[b] = None THEN None
                ELSE [books[b] EXCEPT !.cover = state, !.coverAt = now]]

\* claim_cover_download (when it answers TRUE)
ClaimTx(b) ==
    /\ Claimable(b)
    /\ MarkCover(b, "pending")
    /\ UNCHANGED <<now, installed, shelf, covers, cached, userData>>

\* set_cover; the foreign key makes it fail without the books row.
SetCoverTx(b, url) ==
    /\ books[b] # None
    /\ covers' = [covers EXCEPT ![b] = [url |-> url, at |-> now]]
    /\ MarkCover(b, "downloaded")
    /\ UNCHANGED <<now, installed, shelf, cached, userData>>

\* mark_cover(Failed): an UPDATE, a no-op when the row is gone.
MarkFailedTx(b) ==
    /\ MarkCover(b, "failed")
    /\ UNCHANGED <<now, installed, shelf, covers, cached, userData>>

-----------------------------------------------------------------------------
(* chapters and chapter_lists                                              *)

\* get_chapter_list (TTL) and get_paragraphs (never expires)
Hit(b, i) ==
    /\ cached[b][i] # None
    /\ i = ChapterList => now - cached[b][i] <= ListTTL

\* Mutant: the payload is written without ensure_book.
SetItemTxNoBook(b, i) ==
    /\ installed
    /\ books' = [books EXCEPT ![b] = Touched(@)]
    /\ cached' = [cached EXCEPT ![b][i] = now]
    /\ UNCHANGED <<now, installed, shelf, covers, userData>>

\* set_chapter_list / set_paragraphs = ensure_book, the payload, touch_book.
SetItemTx(b, i) ==
    /\ installed
    /\ books' = [books EXCEPT ![b] = Touched(IF @ = None THEN Placeholder ELSE @)]
    /\ cached' = [cached EXCEPT ![b][i] = now]
    /\ UNCHANGED <<now, installed, shelf, covers, userData>>

\* delete_chapter_list / delete_paragraphs
DeleteItemTx(b, i) ==
    /\ cached' = [cached EXCEPT ![b][i] = None]
    /\ UNCHANGED <<now, installed, shelf, books, covers, userData>>

-----------------------------------------------------------------------------
(* reading_progress and bookmarks reference only `feeds`.                  *)

\* set_progress / add_bookmark
SetUserDataTx(b, u) ==
    /\ installed
    /\ userData' = [userData EXCEPT ![b][u] = now]
    /\ UNCHANGED <<now, installed, shelf, books, covers, cached>>

\* remove_bookmark; a progress row has no delete of its own.
DeleteBookmarkTx(b) ==
    /\ "bookmarks" \in UserTable
    /\ userData' = [userData EXCEPT ![b]["bookmarks"] = None]
    /\ UNCHANGED <<now, installed, shelf, books, covers, cached>>

-----------------------------------------------------------------------------
(* maintenance                                                             *)

Older(stamp, cutoff) == stamp # None /\ stamp < cutoff

\* Mutant: one DELETE of stale_cleanup without its NOT EXISTS (bookshelf).
SweptAnyBook(f, b, k, cutoff) ==
    IF Older(f[b][k], cutoff) THEN None ELSE f[b][k]

Swept(f, b, k, cutoff) ==
    IF b \notin shelf /\ Older(f[b][k], cutoff) THEN None ELSE f[b][k]

\* stale_cleanup: only rows of books that are not on the shelf.
StaleCleanupTx(cutoff) ==
    LET stale == {b \in Book \ shelf : books[b] # None /\ books[b].usedAt < cutoff}
    IN  /\ books' = [b \in Book |-> IF b \in stale THEN None ELSE books[b]]
        /\ covers' = [b \in Book |->
                        IF \/ b \in stale
                           \/ b \notin shelf /\ covers[b] # None /\ covers[b].at < cutoff
                        THEN None ELSE covers[b]]
        /\ cached' = [b \in Book |-> [i \in Item |->
                        IF b \in stale THEN None ELSE Swept(cached, b, i, cutoff)]]
        /\ userData' = [b \in Book |-> [u \in UserTable |-> Swept(userData, b, u, cutoff)]]
        /\ UNCHANGED <<now, installed, shelf>>

\* cache_total_bytes, one unit per payload row
CacheTotal ==
    Cardinality({b \in Book : covers[b] # None})
      + Cardinality({p \in Book \X Item : cached[p[1]][p[2]] # None})

\* Mutant: eviction that forgets to spare the bookshelf.
UnprotectedAny == {b \in Book : books[b] # None}

Unprotected == {b \in Book : books[b] # None} \ shelf

\* evict_oldest_unprotected: S is one call's chunk, oldest last_used_at_ms first
\* (ties, broken by book id in the code, in any order).
EvictTx(S) ==
    /\ CacheTotal > MaxCache
    /\ S # {} /\ S \subseteq Unprotected
    /\ Cardinality(S) <= EvictChunk
    /\ Cardinality(S) = EvictChunk \/ S = Unprotected
    /\ \A b \in S, c \in Unprotected \ S : books[b].usedAt <= books[c].usedAt
    /\ DeleteBooks(S)
    /\ UNCHANGED <<now, installed, userData>>

\* clear_cache: payloads go, book rows stay, every cover state is reset.
ClearCacheTx ==
    /\ cached' = [b \in Book |-> NoItems]
    /\ covers' = [b \in Book |-> None]
    /\ books' = [b \in Book |->
                   IF books[b] = None THEN None
                   ELSE [books[b] EXCEPT
                           !.cover = "none",
                           !.coverAt = IF books[b].cover = "none" THEN @ ELSE 0]]
    /\ UNCHANGED <<now, installed, shelf, userData>>

-----------------------------------------------------------------------------
BookTx(b) ==
    \/ TouchTx(b) \/ RemoveBookTx(b) \/ ClaimTx(b) \/ MarkFailedTx(b)
    \/ \E url \in Url \cup {None} : UpsertFetchedTx(b, url) \/ AddBookTx(b, url)
    \/ \E url \in Url : SetCoverTx(b, url)
    \/ \E i \in Item : SetItemTx(b, i) \/ DeleteItemTx(b, i)
    \/ \E u \in UserTable : SetUserDataTx(b, u)
    \/ DeleteBookmarkTx(b)

MaintenanceTx ==
    \/ \E start \in 0 .. now : StaleCleanupTx(start - StaleAge)
    \/ \E S \in SUBSET Book : EvictTx(S)
    \/ ClearCacheTx

StoreNext ==
    \/ Tick
    \/ InstallFeedTx \/ DeleteFeedTx
    \/ \E b \in Book : BookTx(b)
    \/ MaintenanceTx

StoreSpec == StoreInit /\ [][StoreNext]_storeVars

-----------------------------------------------------------------------------
(* Properties of the store, under every order of transactions              *)

(* Every row has its parent: no cover, payload or shelf entry without its  *)
(* book row, nothing at all without the feed row (the foreign keys of      *)
(* schema.rs, which the upsert order of every write must respect).         *)
ReferentialIntegrity ==
    /\ \A b \in Book : books[b] = None =>
         b \notin shelf /\ covers[b] = None /\ cached[b] = NoItems
    /\ ~installed => \A b \in Book : books[b] = None /\ userData[b] = NoUserData

(* A book leaves the shelf only when its owner removes it or its feed is   *)
(* uninstalled: maintenance and cache clearing never cascade into the      *)
(* shelf, and while the book stays there no transaction drops its row or   *)
(* forgets that the row was truly fetched.                                 *)
KeepsShelf ==
    \A b \in shelf :
        \/ RemoveBookTx(b)
        \/ ~installed'
        \/ /\ b \in shelf' /\ books'[b] # None
           /\ books[b].fetched => books'[b].fetched

ShelfKept == [][KeepsShelf]_storeVars

(* User data of a shelved book is lost only when its owner deletes it: a   *)
(* bookmark by remove_bookmark; the reading position never while the book  *)
(* stays on the shelf.                                                     *)
KeepsUserData ==
    \A b \in shelf \cap shelf', u \in UserTable :
        userData[b][u] # None /\ userData'[b][u] = None
          => u = "bookmarks" /\ DeleteBookmarkTx(b)

UserDataKept == [][KeepsUserData]_storeVars

(* Cover bytes never survive a change of the row's cover URL: they are     *)
(* deleted with it, or replaced ("a changed or removed URL never leaves    *)
(* stale bytes behind", on DELETE_STALE_COVER).                            *)
DropsStaleBytes ==
    \A b \in Book :
        /\ books[b] # None /\ books'[b] # None
        /\ covers[b] # None /\ covers'[b] = covers[b]
        => books'[b].url = books[b].url

UrlChangeDropsBytes == [][DropsStaleBytes]_storeVars
=============================================================================
