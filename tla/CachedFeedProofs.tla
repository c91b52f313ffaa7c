--------------------------- MODULE CachedFeedProofs --------------------------
(* What holds of the book store whatever the order of its transactions; and  *)
(* the tasks only ever act on the store through its transactions, so what is *)
(* proved of every order of transactions holds of them.                      *)
EXTENDS CachedFeed, TLAPS

-----------------------------------------------------------------------------
(* The store by itself.                                                      *)

(* The rows the transactions write are rows of the tables.                   *)
LEMMA RowTypes ==
    ASSUME StoreTypeOK, NEW b \in Book, NEW url \in Url \cup {None}
    PROVE  /\ FetchedRow(books[b], url) \in BookRow
           /\ SnapshotRow(books[b], url) \in BookRow
           /\ Placeholder \in BookRow
           /\ Touched(books[b]) \in BookRow \cup {None}
           /\ StaleCoverDeleted(b, url) \in CoverRow \cup {None}
  <1>1. books[b] \in BookRow \cup {None} /\ covers[b] \in CoverRow \cup {None} /\ now \in Nat
    BY DEF StoreTypeOK
  <1>2. FetchedRow(books[b], url) \in BookRow
    BY <1>1 DEF FetchedRow, BookRow, CoverState
  <1>3. SnapshotRow(books[b], url) \in BookRow
    BY <1>1, <1>2 DEF SnapshotRow, BookRow, CoverState
  <1>4. Placeholder \in BookRow
    BY <1>1 DEF Placeholder, BookRow, CoverState
  <1>5. Touched(books[b]) \in BookRow \cup {None}
    BY <1>1 DEF Touched, BookRow
  <1>6. StaleCoverDeleted(b, url) \in CoverRow \cup {None}
    BY <1>1 DEF StaleCoverDeleted
  <1>7. QED
    BY <1>2, <1>3, <1>4, <1>5, <1>6

(* The row set_chapter_list and set_paragraphs leave behind.                 *)
LEMMA SetItemRow ==
    ASSUME StoreTypeOK, NEW b \in Book
    PROVE  LET row == Touched(IF books[b] = None THEN Placeholder ELSE books[b])
           IN  row \in BookRow /\ row # None
  <1>1. Placeholder \in BookRow /\ books[b] \in BookRow \cup {None}
    BY RowTypes, None \in Url \cup {None} DEF StoreTypeOK
  <1>2. \A row \in BookRow : [row EXCEPT !.usedAt = now] \in BookRow
    BY DEF BookRow, StoreTypeOK
  <1>3. QED
    BY <1>1, <1>2, StoreAssumption DEF Touched

LEMMA DeleteBooksType ==
    ASSUME StoreTypeOK, NEW S \in SUBSET Book, DeleteBooks(S)
    PROVE  /\ books' \in [Book -> BookRow \cup {None}]
           /\ covers' \in [Book -> CoverRow \cup {None}]
           /\ cached' \in [Book -> [Item -> Nat \cup {None}]]
           /\ shelf' \in SUBSET Book
  BY DEF StoreTypeOK, DeleteBooks, NoItems

LEMMA MarkCoverType ==
    ASSUME StoreTypeOK, NEW b \in Book, NEW s \in CoverState, MarkCover(b, s)
    PROVE  books' \in [Book -> BookRow \cup {None}]
  <1>1. books[b] # None => [books[b] EXCEPT !.cover = s, !.coverAt = now] \in BookRow
    BY DEF StoreTypeOK, BookRow
  <1>2. QED
    BY <1>1 DEF StoreTypeOK, MarkCover

(* A transaction on one book keeps the types of the tables.                  *)
LEMMA BookTxType ==
    ASSUME StoreTypeOK, NEW b \in Book, BookTx(b)
    PROVE  StoreTypeOK'
  <1> USE DEF StoreTypeOK
  <1>1. CASE TouchTx(b)
    BY <1>1, RowTypes DEF TouchTx
  <1>2. CASE RemoveBookTx(b)
    BY <1>2, DeleteBooksType DEF RemoveBookTx, NoUserData
  <1>3. CASE ClaimTx(b)
    BY <1>3, MarkCoverType DEF ClaimTx, CoverState
  <1>4. CASE MarkFailedTx(b)
    BY <1>4, MarkCoverType DEF MarkFailedTx, CoverState
  <1>5. ASSUME NEW url \in Url \cup {None}, UpsertFetchedTx(b, url)
        PROVE  StoreTypeOK'
    BY <1>5, RowTypes DEF UpsertFetchedTx
  <1>6. ASSUME NEW url \in Url \cup {None}, AddBookTx(b, url)
        PROVE  StoreTypeOK'
    BY <1>6, RowTypes DEF AddBookTx
  <1>7. ASSUME NEW url \in Url, SetCoverTx(b, url)
        PROVE  StoreTypeOK'
    <2>1. [url |-> url, at |-> now] \in CoverRow
      BY DEF CoverRow
    <2>2. books' \in [Book -> BookRow \cup {None}]
      BY <1>7, MarkCoverType DEF SetCoverTx, CoverState
    <2>3. QED
      BY <1>7, <2>1, <2>2 DEF SetCoverTx
  <1>8. ASSUME NEW i \in Item, SetItemTx(b, i)
        PROVE  StoreTypeOK'
    <2>1. Touched(IF books[b] = None THEN Placeholder ELSE books[b]) \in BookRow
      BY SetItemRow
    <2>2. books' \in [Book -> BookRow \cup {None}]
      BY <1>8, <2>1 DEF SetItemTx
    <2>3. cached' \in [Book -> [Item -> Nat \cup {None}]]
      BY <1>8 DEF SetItemTx
    <2>4. QED
      BY <1>8, <2>2, <2>3 DEF SetItemTx
  <1>9. ASSUME NEW i \in Item, DeleteItemTx(b, i)
        PROVE  StoreTypeOK'
    BY <1>9 DEF DeleteItemTx
  <1>10. ASSUME NEW u \in UserTable, SetUserDataTx(b, u)
         PROVE  StoreTypeOK'
    BY <1>10 DEF SetUserDataTx
  <1>11. CASE DeleteBookmarkTx(b)
    BY <1>11 DEF DeleteBookmarkTx
  <1>12. QED
    BY <1>1, <1>2, <1>3, <1>4, <1>5, <1>6, <1>7, <1>8, <1>9, <1>10, <1>11 DEF BookTx

(* clear_cache resets cover states; it neither makes nor deletes a row.      *)
LEMMA ClearCacheRows ==
    ASSUME StoreTypeOK, ClearCacheTx
    PROVE  /\ books' \in [Book -> BookRow \cup {None}]
           /\ \A b \in Book : books'[b] = None <=> books[b] = None
           /\ \A b \in Book : books[b] # None => books'[b].fetched = books[b].fetched
  <1> DEFINE Reset(row) == [row EXCEPT !.cover = "none",
                                       !.coverAt = IF row.cover = "none" THEN @ ELSE 0]
  <1>1. \A row \in BookRow : Reset(row) \in BookRow /\ Reset(row).fetched = row.fetched
    BY DEF BookRow, CoverState
  <1>2. books' = [b \in Book |-> IF books[b] = None THEN None ELSE Reset(books[b])]
    BY DEF ClearCacheTx
  <1> HIDE DEF Reset
  <1>3. QED
    BY <1>1, <1>2, StoreAssumption DEF StoreTypeOK

LEMMA MaintenanceTxType ==
    ASSUME StoreTypeOK, MaintenanceTx
    PROVE  StoreTypeOK'
  <1>1. ASSUME NEW start \in 0 .. now, StaleCleanupTx(start - StaleAge)
        PROVE  StoreTypeOK'
    BY <1>1 DEF StoreTypeOK, StaleCleanupTx, Swept
  <1>2. ASSUME NEW S \in SUBSET Book, EvictTx(S)
        PROVE  StoreTypeOK'
    BY <1>2, DeleteBooksType DEF StoreTypeOK, EvictTx
  <1>3. CASE ClearCacheTx
    BY <1>3, ClearCacheRows DEF StoreTypeOK, ClearCacheTx, NoItems
  <1>4. QED
    BY <1>1, <1>2, <1>3 DEF MaintenanceTx

LEMMA StoreNextType ==
    ASSUME StoreTypeOK, [StoreNext]_storeVars
    PROVE  StoreTypeOK'
  <1>1. CASE Tick
    BY <1>1 DEF StoreTypeOK, Tick, tables
  <1>2. CASE InstallFeedTx
    BY <1>2 DEF StoreTypeOK, InstallFeedTx
  <1>3. CASE DeleteFeedTx
    BY <1>3, DeleteBooksType DEF StoreTypeOK, DeleteFeedTx, NoUserData
  <1>4. ASSUME NEW b \in Book, BookTx(b)
        PROVE  StoreTypeOK'
    BY <1>4, BookTxType
  <1>5. CASE MaintenanceTx
    BY <1>5, MaintenanceTxType
  <1>6. CASE UNCHANGED storeVars
    BY <1>6 DEF StoreTypeOK, storeVars, tables
  <1>7. QED
    BY <1>1, <1>2, <1>3, <1>4, <1>5, <1>6 DEF StoreNext

LEMMA StoreInitType == StoreInit => StoreTypeOK
  <1>1. NoItems \in [Item -> Nat \cup {None}] /\ NoUserData \in [UserTable -> Nat \cup {None}]
    BY DEF NoItems, NoUserData
  <1>2. SUFFICES ASSUME StoreInit PROVE StoreTypeOK
    OBVIOUS
  <1>3. now \in Nat /\ installed \in BOOLEAN /\ shelf \in SUBSET Book
    BY <1>2 DEF StoreInit
  <1>4. books \in [Book -> BookRow \cup {None}] /\ covers \in [Book -> CoverRow \cup {None}]
    BY <1>2 DEF StoreInit
  <1>5. cached \in [Book -> [Item -> Nat \cup {None}]]
    BY <1>1, <1>2 DEF StoreInit
  <1>6. userData \in [Book -> [UserTable -> Nat \cup {None}]]
    BY <1>1, <1>2 DEF StoreInit
  <1>7. QED
    BY <1>3, <1>4, <1>5, <1>6 DEF StoreTypeOK

(* Every table always holds rows of its type.                                *)
THEOREM StoreTyping == StoreSpec => []StoreTypeOK
  <1>1. StoreInit => StoreTypeOK
    BY StoreInitType
  <1>2. StoreTypeOK /\ [StoreNext]_storeVars => StoreTypeOK'
    BY StoreNextType
  <1>3. QED
    BY <1>1, <1>2, PTL DEF StoreSpec

-----------------------------------------------------------------------------
(* Deleting rows of `books` leaves no row without its parent.                *)
LEMMA DeleteBooksIntegrity ==
    ASSUME ReferentialIntegrity, NEW S \in SUBSET Book, DeleteBooks(S)
    PROVE  \A b \in Book : books'[b] = None =>
             b \notin shelf' /\ covers'[b] = None /\ cached'[b] = NoItems
  BY DEF ReferentialIntegrity, DeleteBooks

(* Marking a cover, or touching a row, neither makes nor deletes a row.      *)
LEMMA SameRows ==
    ASSUME StoreTypeOK, NEW b \in Book,
           \/ \E s \in CoverState : MarkCover(b, s)
           \/ TouchTx(b)
    PROVE  \A c \in Book : books'[c] = None <=> books[c] = None
  <1>1. \A row \in BookRow : [row EXCEPT !.usedAt = now] \in BookRow
    BY DEF StoreTypeOK, BookRow
  <1>2. \A row \in BookRow, s \in CoverState :
          [row EXCEPT !.cover = s, !.coverAt = now] \in BookRow
    BY DEF StoreTypeOK, BookRow
  <1>3. books \in [Book -> BookRow \cup {None}]
    BY DEF StoreTypeOK
  <1>4. ASSUME NEW s \in CoverState, MarkCover(b, s)
        PROVE  books'[b] = None <=> books[b] = None
    <2>1. books'[b] = IF books[b] = None THEN None
                      ELSE [books[b] EXCEPT !.cover = s, !.coverAt = now]
      BY <1>3, <1>4 DEF MarkCover
    <2>2. books[b] # None => [books[b] EXCEPT !.cover = s, !.coverAt = now] \in BookRow
      BY <1>2, <1>3
    <2>3. QED
      BY <2>1, <2>2, StoreAssumption
  <1>5. ASSUME TouchTx(b)
        PROVE  books'[b] = None <=> books[b] = None
    <2>1. books'[b] = IF books[b] = None THEN None ELSE [books[b] EXCEPT !.usedAt = now]
      BY <1>3, <1>5 DEF TouchTx, Touched
    <2>2. QED
      BY <1>1, <1>3, <2>1, StoreAssumption
  <1>6. \A c \in Book \ {b} : books'[c] = books[c]
    BY <1>3 DEF MarkCover, TouchTx
  <1>7. QED
    BY <1>4, <1>5, <1>6

LEMMA BookTxIntegrity ==
    ASSUME StoreTypeOK, ReferentialIntegrity, NEW b \in Book, BookTx(b)
    PROVE  ReferentialIntegrity'
  <1> USE DEF StoreTypeOK, ReferentialIntegrity
  <1>1. CASE TouchTx(b)
    BY <1>1, SameRows DEF TouchTx
  <1>2. CASE RemoveBookTx(b)
    BY <1>2 DEF RemoveBookTx, DeleteBooks
  <1>3. CASE ClaimTx(b)
    BY <1>3, SameRows DEF ClaimTx, CoverState
  <1>4. CASE MarkFailedTx(b)
    BY <1>4, SameRows DEF MarkFailedTx, CoverState
  <1>5. ASSUME NEW url \in Url \cup {None}, UpsertFetchedTx(b, url)
        PROVE  ReferentialIntegrity'
    BY <1>5, RowTypes, StoreAssumption DEF UpsertFetchedTx
  <1>6. ASSUME NEW url \in Url \cup {None}, AddBookTx(b, url)
        PROVE  ReferentialIntegrity'
    BY <1>6, RowTypes, StoreAssumption DEF AddBookTx
  <1>7. ASSUME NEW url \in Url, SetCoverTx(b, url)
        PROVE  ReferentialIntegrity'
    BY <1>7, SameRows DEF SetCoverTx, CoverState
  <1>8. ASSUME NEW i \in Item, SetItemTx(b, i)
        PROVE  ReferentialIntegrity'
    <2>1. books'[b] # None
      BY <1>8, SetItemRow DEF SetItemTx
    <2>2. \A c \in Book \ {b} : books'[c] = books[c] /\ cached'[c] = cached[c]
      BY <1>8 DEF SetItemTx
    <2>3. QED
      BY <1>8, <2>1, <2>2 DEF SetItemTx
  <1>9. ASSUME NEW i \in Item, DeleteItemTx(b, i)
        PROVE  ReferentialIntegrity'
    <2>1. \A c \in Book : cached[c] = NoItems => cached'[c] = NoItems
      BY <1>9 DEF DeleteItemTx, NoItems
    <2>2. QED
      BY <1>9, <2>1 DEF DeleteItemTx
  <1>10. ASSUME NEW u \in UserTable, SetUserDataTx(b, u)
         PROVE  ReferentialIntegrity'
    BY <1>10 DEF SetUserDataTx
  <1>11. CASE DeleteBookmarkTx(b)
    BY <1>11 DEF DeleteBookmarkTx, NoUserData
  <1>12. QED
    BY <1>1, <1>2, <1>3, <1>4, <1>5, <1>6, <1>7, <1>8, <1>9, <1>10, <1>11 DEF BookTx

LEMMA MaintenanceTxIntegrity ==
    ASSUME StoreTypeOK, ReferentialIntegrity, MaintenanceTx
    PROVE  ReferentialIntegrity'
  <1>1. ASSUME NEW start \in 0 .. now, StaleCleanupTx(start - StaleAge)
        PROVE  ReferentialIntegrity'
    <2> DEFINE cutoff == start - StaleAge
    <2>1. \A b \in Book : books'[b] = None =>
            b \notin shelf' /\ covers'[b] = None /\ cached'[b] = NoItems
      <3> SUFFICES ASSUME NEW b \in Book, books'[b] = None
                   PROVE  b \notin shelf' /\ covers'[b] = None /\ cached'[b] = NoItems
        OBVIOUS
      <3>1. CASE books[b] = None
        BY <1>1, <3>1 DEF StoreTypeOK, ReferentialIntegrity, StaleCleanupTx, Swept, NoItems, Older
      <3>2. CASE books[b] # None
        BY <1>1, <3>2 DEF StoreTypeOK, StaleCleanupTx, Swept, NoItems
      <3>3. QED
        BY <3>1, <3>2
    <2>2. ~installed' => \A b \in Book : books'[b] = None /\ userData'[b] = NoUserData
      BY <1>1 DEF StoreTypeOK, ReferentialIntegrity, StaleCleanupTx, Swept, NoUserData, Older
    <2>3. QED
      BY <2>1, <2>2 DEF ReferentialIntegrity
  <1>2. ASSUME NEW S \in SUBSET Book, EvictTx(S)
        PROVE  ReferentialIntegrity'
    BY <1>2, DeleteBooksIntegrity DEF EvictTx, ReferentialIntegrity, DeleteBooks
  <1>3. CASE ClearCacheTx
    BY <1>3, ClearCacheRows DEF ClearCacheTx, ReferentialIntegrity
  <1>4. QED
    BY <1>1, <1>2, <1>3 DEF MaintenanceTx

(* Every row has its parent row, after every transaction.                    *)
THEOREM StoreIntegrity == StoreSpec => []ReferentialIntegrity
  <1>1. StoreInit => ReferentialIntegrity
    BY DEF StoreInit, ReferentialIntegrity
  <1>2. StoreTypeOK /\ ReferentialIntegrity /\ [StoreNext]_storeVars => ReferentialIntegrity'
    <2> SUFFICES ASSUME StoreTypeOK, ReferentialIntegrity, [StoreNext]_storeVars
                 PROVE  ReferentialIntegrity'
      OBVIOUS
    <2>1. CASE Tick
      BY <2>1 DEF ReferentialIntegrity, Tick, tables
    <2>2. CASE InstallFeedTx
      BY <2>2 DEF ReferentialIntegrity, InstallFeedTx
    <2>3. CASE DeleteFeedTx
      BY <2>3 DEF StoreTypeOK, ReferentialIntegrity, DeleteFeedTx, DeleteBooks
    <2>4. ASSUME NEW b \in Book, BookTx(b)
          PROVE  ReferentialIntegrity'
      BY <2>4, BookTxIntegrity
    <2>5. CASE MaintenanceTx
      BY <2>5, MaintenanceTxIntegrity
    <2>6. CASE UNCHANGED storeVars
      BY <2>6 DEF ReferentialIntegrity, storeVars, tables
    <2>7. QED
      BY <2>1, <2>2, <2>3, <2>4, <2>5, <2>6 DEF StoreNext
  <1>3. QED
    BY <1>1, <1>2, StoreTyping, PTL DEF StoreSpec

-----------------------------------------------------------------------------
(* Only a transaction on the book itself, maintenance or the end of its feed *)
(* takes a row away, and the last three spare the shelf.                     *)
LEMMA RowKeptStep ==
    ASSUME StoreTypeOK, StoreNext, NEW b \in shelf \cap shelf'
    PROVE  ReferentialIntegrity => books'[b] # None /\ (books[b].fetched => books'[b].fetched)
  <1> SUFFICES ASSUME ReferentialIntegrity
               PROVE  books'[b] # None /\ (books[b].fetched => books'[b].fetched)
    OBVIOUS
  <1>0. b \in Book /\ books[b] \in BookRow /\ books[b] # None
    BY DEF StoreTypeOK, ReferentialIntegrity
  <1>1. CASE UNCHANGED books
    BY <1>0, <1>1
  <1>2. CASE DeleteFeedTx
    BY <1>0, <1>2 DEF DeleteFeedTx, DeleteBooks
  <1>3. CASE MaintenanceTx
    <2>1. ASSUME NEW start \in 0 .. now, StaleCleanupTx(start - StaleAge)
          PROVE  books'[b] = books[b]
      BY <1>0, <2>1 DEF StaleCleanupTx, Swept
    <2>2. ASSUME NEW S \in SUBSET Book, EvictTx(S)
          PROVE  books'[b] = books[b]
      BY <1>0, <2>2 DEF EvictTx, DeleteBooks, Unprotected
    <2>3. CASE ClearCacheTx
      BY <1>0, <2>3, ClearCacheRows
    <2>4. QED
      BY <1>0, <1>3, <2>1, <2>2, <2>3 DEF MaintenanceTx
  <1>4. ASSUME NEW c \in Book, BookTx(c)
        PROVE  books'[b] # None /\ (books[b].fetched => books'[b].fetched)
    <2>1. CASE TouchTx(c)
      <3>1. books'[b].fetched = books[b].fetched
        BY <1>0, <2>1 DEF StoreTypeOK, TouchTx, Touched, BookRow
      <3>2. QED
        BY <1>0, <2>1, <3>1, SameRows
    <2>2. CASE RemoveBookTx(c)
      BY <1>0, <2>2 DEF RemoveBookTx, DeleteBooks
    <2>3. ASSUME NEW s \in CoverState, MarkCover(c, s)
          PROVE  books'[b] # None /\ (books[b].fetched => books'[b].fetched)
      <3>1. books'[b].fetched = books[b].fetched
        BY <1>0, <2>3 DEF StoreTypeOK, MarkCover, BookRow
      <3>2. QED
        BY <1>0, <2>3, <3>1, SameRows
    <2>4. ASSUME NEW url \in Url \cup {None}, UpsertFetchedTx(c, url)
          PROVE  books'[b] # None /\ (books[b].fetched => books'[b].fetched)
      <3>1. CASE b = c
        <4>1. books'[b] = FetchedRow(books[b], url) /\ FetchedRow(books[b], url) \in BookRow
          BY <1>0, <2>4, <3>1, RowTypes DEF StoreTypeOK, UpsertFetchedTx
        <4>2. FetchedRow(books[b], url).fetched
          BY DEF FetchedRow
        <4>3. QED
          BY <4>1, <4>2, StoreAssumption
      <3>2. CASE b # c
        BY <1>0, <2>4, <3>2 DEF StoreTypeOK, UpsertFetchedTx
      <3>3. QED
        BY <3>1, <3>2
    <2>5. ASSUME NEW url \in Url \cup {None}, AddBookTx(c, url)
          PROVE  books'[b] # None /\ (books[b].fetched => books'[b].fetched)
      <3>1. CASE b = c
        <4>1. books'[b] = SnapshotRow(books[b], url) /\ SnapshotRow(books[b], url) \in BookRow
          BY <1>0, <2>5, <3>1, RowTypes DEF StoreTypeOK, AddBookTx
        <4>2. books[b].fetched => SnapshotRow(books[b], url) = books[b]
          BY <1>0 DEF SnapshotRow
        <4>3. QED
          BY <4>1, <4>2, StoreAssumption
      <3>2. CASE b # c
        BY <1>0, <2>5, <3>2 DEF StoreTypeOK, AddBookTx
      <3>3. QED
        BY <3>1, <3>2
    <2>6. ASSUME NEW i \in Item, SetItemTx(c, i)
          PROVE  books'[b] # None /\ (books[b].fetched => books'[b].fetched)
      <3>1. CASE b = c
        <4>1. books'[b] = [books[b] EXCEPT !.usedAt = now]
          BY <1>0, <2>6, <3>1 DEF StoreTypeOK, SetItemTx, Touched
        <4>2. /\ [books[b] EXCEPT !.usedAt = now] \in BookRow
              /\ [books[b] EXCEPT !.usedAt = now].fetched = books[b].fetched
          BY <1>0 DEF BookRow, StoreTypeOK
        <4>3. QED
          BY <4>1, <4>2, StoreAssumption
      <3>2. CASE b # c
        BY <1>0, <2>6, <3>2 DEF StoreTypeOK, SetItemTx
      <3>3. QED
        BY <3>1, <3>2
    <2>7. QED
      BY <1>1, <1>4, <2>1, <2>2, <2>3, <2>4, <2>5, <2>6
      DEF BookTx, ClaimTx, MarkFailedTx, SetCoverTx, CoverState, DeleteItemTx,
          SetUserDataTx, DeleteBookmarkTx
  <1>5. QED
    BY <1>1, <1>2, <1>3, <1>4 DEF StoreNext, Tick, tables, InstallFeedTx

\* Only a removal, of the book or of its feed, takes a book off the shelf.
LEMMA ShelfKeptStep ==
    ASSUME StoreTypeOK, StoreNext, NEW b \in shelf
    PROVE  RemoveBookTx(b) \/ ~installed' \/ b \in shelf'
  <1>1. CASE UNCHANGED shelf
    BY <1>1
  <1>2. CASE DeleteFeedTx
    BY <1>2 DEF DeleteFeedTx
  <1>3. CASE MaintenanceTx
    BY <1>3 DEF MaintenanceTx, StaleCleanupTx, EvictTx, DeleteBooks, Unprotected, ClearCacheTx
  <1>4. ASSUME NEW c \in Book, BookTx(c)
        PROVE  RemoveBookTx(b) \/ b \in shelf'
    <2>1. CASE RemoveBookTx(c)
      BY <2>1 DEF RemoveBookTx, DeleteBooks
    <2>2. ASSUME NEW url \in Url \cup {None}, AddBookTx(c, url)
          PROVE  b \in shelf'
      BY <2>2 DEF AddBookTx
    <2>3. QED
      BY <1>4, <2>1, <2>2 DEF BookTx, TouchTx, ClaimTx, MarkFailedTx, UpsertFetchedTx,
         SetCoverTx, SetItemTx, DeleteItemTx, SetUserDataTx, DeleteBookmarkTx
  <1>5. QED
    BY <1>1, <1>2, <1>3, <1>4 DEF StoreNext, Tick, tables, InstallFeedTx

(* A book leaves the shelf only when it or its feed is removed, and until    *)
(* then its row survives, and a fetched row stays fetched, through           *)
(* maintenance, cache clearing and every upsert.                             *)
THEOREM StoreShelfKept == StoreSpec => ShelfKept
  <1>1. StoreTypeOK /\ ReferentialIntegrity /\ [StoreNext]_storeVars => [KeepsShelf]_storeVars
    <2> SUFFICES ASSUME StoreTypeOK, ReferentialIntegrity, StoreNext, NEW b \in shelf
                 PROVE  \/ RemoveBookTx(b)
                        \/ ~installed'
                        \/ /\ b \in shelf' /\ books'[b] # None
                           /\ books[b].fetched => books'[b].fetched
      BY DEF KeepsShelf
    <2>1. CASE b \in shelf'
      BY <2>1, RowKeptStep
    <2>2. CASE b \notin shelf'
      BY <2>2, ShelfKeptStep
    <2>3. QED
      BY <2>1, <2>2
  <1>2. QED
    BY <1>1, StoreTyping, StoreIntegrity, PTL DEF StoreSpec, ShelfKept

-----------------------------------------------------------------------------
(* What is lost with a book.                                                 *)

LEMMA DropsStaleBytesStep ==
    ASSUME StoreTypeOK, [StoreNext]_storeVars
    PROVE  DropsStaleBytes
  <1> SUFFICES ASSUME NEW b \in Book, books[b] # None, books'[b] # None,
                      covers[b] # None, covers'[b] = covers[b]
               PROVE  books'[b].url = books[b].url
    BY DEF DropsStaleBytes
  <1>0. books[b] \in BookRow /\ books \in [Book -> BookRow \cup {None}]
        /\ covers \in [Book -> CoverRow \cup {None}]
    BY DEF StoreTypeOK
  <1>1. CASE books'[b] = books[b]
    BY <1>1
  <1>2. ASSUME NEW c \in Book, BookTx(c)
        PROVE  books'[b].url = books[b].url
    <2>1. ASSUME NEW url \in Url \cup {None}, UpsertFetchedTx(c, url) \/ AddBookTx(c, url)
          PROVE  books'[b].url = books[b].url
      <3>1. b = c => books[b].url = url
        BY <1>0, <2>1 DEF UpsertFetchedTx, AddBookTx, StaleCoverDeleted
      <3>2. QED
        BY <1>0, <2>1, <3>1 DEF UpsertFetchedTx, AddBookTx, SnapshotRow, FetchedRow
    <2>2. CASE TouchTx(c) \/ \E i \in Item : SetItemTx(c, i)
      BY <1>0, <2>2 DEF TouchTx, SetItemTx, Touched, BookRow
    <2>3. CASE ClaimTx(c) \/ MarkFailedTx(c) \/ \E url \in Url : SetCoverTx(c, url)
      <3>1. PICK state : MarkCover(c, state)
        BY <2>3 DEF ClaimTx, MarkFailedTx, SetCoverTx
      <3>2. CASE b = c
        BY <1>0, <3>1, <3>2 DEF MarkCover, BookRow
      <3>3. CASE b # c
        BY <1>0, <3>1, <3>3 DEF MarkCover
      <3>4. QED
        BY <3>2, <3>3
    <2>4. CASE RemoveBookTx(c)
      BY <1>0, <2>4 DEF RemoveBookTx, DeleteBooks
    <2>5. CASE \/ \E i \in Item : DeleteItemTx(c, i)
               \/ \E u \in UserTable : SetUserDataTx(c, u)
               \/ DeleteBookmarkTx(c)
      BY <2>5 DEF DeleteItemTx, SetUserDataTx, DeleteBookmarkTx
    <2>6. QED
      BY <1>2, <2>1, <2>2, <2>3, <2>4, <2>5 DEF BookTx
  <1>3. ASSUME MaintenanceTx
        PROVE  books'[b].url = books[b].url
    <2>1. CASE \E start \in 0 .. now : StaleCleanupTx(start - StaleAge)
      BY <1>0, <1>1, <2>1 DEF StaleCleanupTx
    <2>2. CASE \E S \in SUBSET Book : EvictTx(S)
      BY <1>0, <1>1, <2>2 DEF EvictTx, DeleteBooks
    <2>3. CASE ClearCacheTx
      BY <1>0, <2>3 DEF ClearCacheTx, BookRow
    <2>4. QED
      BY <1>3, <2>1, <2>2, <2>3 DEF MaintenanceTx
  <1>4. CASE Tick \/ InstallFeedTx \/ DeleteFeedTx \/ UNCHANGED storeVars
    BY <1>4 DEF Tick, InstallFeedTx, DeleteFeedTx, DeleteBooks, storeVars, tables
  <1>5. QED
    BY <1>2, <1>3, <1>4 DEF StoreNext

(* No transaction changes the cover URL of a row and keeps its bytes.        *)
THEOREM StoreDropsBytes == StoreSpec => UrlChangeDropsBytes
  <1>1. StoreTypeOK /\ [StoreNext]_storeVars => [DropsStaleBytes]_storeVars
    BY DropsStaleBytesStep
  <1>2. QED
    BY <1>1, StoreTyping, PTL DEF StoreSpec, UrlChangeDropsBytes

LEMMA KeepsUserDataStep ==
    ASSUME StoreTypeOK, [StoreNext]_storeVars
    PROVE  KeepsUserData
  <1> SUFFICES ASSUME NEW b \in shelf, b \in shelf', NEW u \in UserTable,
                      userData[b][u] # None, userData'[b][u] = None
               PROVE  u = "bookmarks" /\ DeleteBookmarkTx(b)
    BY DEF KeepsUserData
  <1>0. b \in Book /\ userData \in [Book -> [UserTable -> Nat \cup {None}]]
        /\ now \in Nat
    BY DEF StoreTypeOK
  <1>1. userData' # userData
    OBVIOUS
  <1>2. ASSUME NEW c \in Book, BookTx(c)
        PROVE  u = "bookmarks" /\ DeleteBookmarkTx(b)
    <2>1. CASE \E v \in UserTable : SetUserDataTx(c, v)
      BY <1>0, <2>1, StoreAssumption DEF SetUserDataTx
    <2>2. CASE DeleteBookmarkTx(c)
      <3>1. b = c /\ u = "bookmarks"
        BY <1>0, <2>2 DEF DeleteBookmarkTx
      <3>2. QED
        BY <2>2, <3>1
    <2>3. CASE RemoveBookTx(c)
      <3>1. b # c
        BY <2>3 DEF RemoveBookTx, DeleteBooks
      <3>2. QED
        BY <1>0, <2>3, <3>1 DEF RemoveBookTx
    <2>4. QED
      BY <1>1, <1>2, <2>1, <2>2, <2>3
      DEF BookTx, TouchTx, ClaimTx, MarkFailedTx, UpsertFetchedTx, AddBookTx, SetCoverTx,
          SetItemTx, DeleteItemTx
  <1>3. ASSUME MaintenanceTx
        PROVE  FALSE
    <2>1. ASSUME NEW cutoff, StaleCleanupTx(cutoff)
          PROVE  FALSE
      BY <1>0, <2>1 DEF StaleCleanupTx, Swept
    <2>2. QED
      BY <1>1, <1>3, <2>1 DEF MaintenanceTx, EvictTx, ClearCacheTx
  <1>4. CASE Tick \/ InstallFeedTx \/ DeleteFeedTx \/ UNCHANGED storeVars
    <2>1. CASE Tick \/ InstallFeedTx \/ UNCHANGED storeVars
      BY <1>1, <2>1 DEF Tick, InstallFeedTx, storeVars, tables
    <2>2. CASE DeleteFeedTx
      BY <1>0, <2>2 DEF DeleteFeedTx, DeleteBooks
    <2>3. QED
      BY <1>4, <2>1, <2>2
  <1>5. QED
    BY <1>2, <1>3, <1>4 DEF StoreNext

(* User data of a shelved book is lost to nothing but the deletion of a      *)
(* bookmark.                                                                 *)
THEOREM StoreUserDataKept == StoreSpec => UserDataKept
  <1>1. StoreTypeOK /\ [StoreNext]_storeVars => [KeepsUserData]_storeVars
    BY KeepsUserDataStep
  <1>2. QED
    BY <1>1, StoreTyping, PTL DEF StoreSpec, UserDataKept

-----------------------------------------------------------------------------
(* The tasks of a feed.                                                      *)

(* A step of a task is a transaction of the store, or leaves it alone.       *)
LEMMA TaskStepRefines ==
    ASSUME TypeOK, NEW t \in Task, TaskStep(t)
    PROVE  [StoreNext]_storeVars
  <1> DEFINE b == task[t].book
  <1>1. CASE QueryGate(t) \/ QueryMiss(t) \/ QueryFetch(t) \/ InfoGate(t) \/ InfoFetch(t)
             \/ CoverResolve(t) \/ CoverGate(t) \/ CoverFetch(t) \/ MaintenanceStamp(t)
    BY <1>1 DEF QueryGate, QueryMiss, QueryFetch, InfoGate, InfoFetch,
                CoverResolve, CoverGate, CoverFetch, MaintenanceStamp
  <1>2. CASE QueryHit(t)
    <2>1. b \in Book
      BY <1>2 DEF TypeOK, QueryHit, At, QueryPc
    <2>2. QED
      BY <1>2, <2>1 DEF QueryHit, StoreNext, BookTx
  <1>3. CASE QueryBroken(t) \/ QueryClear(t)
    <2>1. b \in Book /\ task[t].item \in Item
      BY <1>3 DEF TypeOK, QueryBroken, QueryClear, At, QueryPc
    <2>2. QED
      BY <1>3, <2>1 DEF QueryBroken, QueryClear, StoreNext, BookTx
  <1>4. CASE QuerySet(t)
    <2>1. b \in Book /\ task[t].item \in Item
      BY <1>4 DEF TypeOK, QuerySet, At, QueryPc
    <2>2. QED
      BY <1>4, <2>1 DEF QuerySet, StoreNext, BookTx
  <1>5. CASE InfoGet(t)
    <2>1. b \in Book
      BY <1>5 DEF TypeOK, InfoGet, At, InfoPc
    <2>2. QED
      BY <1>5, <2>1 DEF InfoGet, StoreNext, BookTx
  <1>6. CASE InfoSet(t)
    <2>1. task[t].named \in Book /\ task[t].url \in Url \cup {None}
      BY <1>6 DEF TypeOK, InfoSet, At, InfoPc, TaskState
    <2>2. QED
      BY <1>6, <2>1 DEF InfoSet, StoreNext, BookTx
  <1>7. CASE CoverClaim(t) \/ CoverReject(t)
    <2>1. b \in Book
      BY <1>7 DEF TypeOK, CoverClaim, CoverReject, At, CoverPc
    <2>2. QED
      BY <1>7, <2>1 DEF CoverClaim, CoverReject, StoreNext, BookTx
  <1>8. CASE CoverStore(t)
    <2>1. b \in Book /\ task[t].url \in Url
      BY <1>8 DEF TypeOK, CoverStore, At, CoverPc
    <2>2. QED
      BY <1>8, <2>1 DEF CoverStore, StoreNext, BookTx
  <1>9. CASE MaintenanceStale(t)
    <2>1. task[t].at \in 0 .. now
      BY DEF TypeOK, StoreTypeOK, TaskState
    <2>2. QED
      BY <1>9, <2>1 DEF MaintenanceStale, StoreNext, MaintenanceTx
  <1>10. CASE MaintenanceEvict(t)
    BY <1>10 DEF MaintenanceEvict, StoreNext, MaintenanceTx
  <1>11. QED
    BY <1>1, <1>2, <1>3, <1>4, <1>5, <1>6, <1>7, <1>8, <1>9, <1>10 DEF TaskStep

LEMMA TaskStartRefines ==
    ASSUME NEW t \in Task, TaskStart(t)
    PROVE  [StoreNext]_storeVars
  <1>1. ASSUME NEW b \in Book, NEW i \in Item, NEW force \in BOOLEAN, StartQuery(t, b, i, force)
        PROVE  [StoreNext]_storeVars
    BY <1>1 DEF StartQuery, StoreNext, BookTx
  <1>2. ASSUME NEW b \in Book, NEW url \in Url \cup {None}, AddBook(t, b, url)
        PROVE  [StoreNext]_storeVars
    BY <1>2 DEF AddBook, StoreNext, BookTx
  <1>3. QED
    BY <1>1, <1>2 DEF TaskStart, StartInfo, StartMaintenance

LEMMA StepRefines ==
    ASSUME TypeOK, [Next]_vars
    PROVE  [StoreNext]_storeVars
  <1>1. CASE User
    BY <1>1 DEF User, UserTx, StoreNext, BookTx, MaintenanceTx
  <1>2. CASE Time \/ Restart
    BY <1>2 DEF Time, Restart, StoreNext
  <1>3. CASE UNCHANGED vars
    BY <1>3 DEF vars, storeVars
  <1>4. QED
    BY <1>1, <1>2, <1>3, TaskStepRefines, TaskStartRefines DEF Next, Step

-----------------------------------------------------------------------------
(* What the types say of one slot.                                           *)
SlotOK(st) ==
    /\ st \in TaskState
    /\ st.pc \in QueryPc \cup InfoPc \cup CoverPc => st.book \in Book
    /\ st.pc \in QueryPc => st.item \in Item
    /\ st.pc \in CoverPc => st.url \in Url
    /\ st.pc = "infoSet" => st.named \in Book
    /\ st.at <= now

LEMMA SlotTypes == TypeOK => \A t \in Task : SlotOK(task[t])
  BY DEF TypeOK, SlotOK, At

(* Moving a slot along inside one kind of task keeps its fields good.        *)
LEMMA SlotMoves ==
    ASSUME StoreTypeOK, NEW st, SlotOK(st)
    PROVE  /\ \A pc \in QueryPc : st.pc \in QueryPc => SlotOK([st EXCEPT !.pc = pc])
           /\ \A pc \in InfoPc \ {"infoSet"} : st.pc \in InfoPc => SlotOK([st EXCEPT !.pc = pc])
           /\ \A pc \in CoverPc : st.pc \in CoverPc => SlotOK([st EXCEPT !.pc = pc])
           /\ \A pc \in MaintPc : st.pc \in MaintPc => SlotOK([st EXCEPT !.pc = pc])
  BY DEF SlotOK, TaskState, QueryPc, InfoPc, CoverPc, MaintPc

LEMMA IdleOK == StoreTypeOK => SlotOK(Idle)
  BY DEF SlotOK, Idle, Slot, TaskState, StoreTypeOK, QueryPc, InfoPc, CoverPc

LEMMA CoverTaskOK ==
    ASSUME StoreTypeOK, NEW b \in Book, NEW url \in Url \cup {None},
           NEW pc \in {"resolve", "coverGate"}
    PROVE  SlotOK(CoverTask(pc, b, url))
  <1>1. CASE url = None
    BY <1>1, IdleOK DEF CoverTask
  <1>2. CASE url # None
    BY <1>2 DEF CoverTask, Slot, SlotOK, TaskState, StoreTypeOK, QueryPc, InfoPc, CoverPc
  <1>3. QED
    BY <1>1, <1>2

(* A step of a task gives its slot a good state and leaves the others alone. *)
Moves(t) == \E st : SlotOK(st) /\ task' = [task EXCEPT ![t] = st]

LEMMA FinishMoves == ASSUME TypeOK, NEW t \in Task, Finish(t) PROVE Moves(t)
  BY IdleOK DEF Finish, Moves, TypeOK

LEMMA GotoMoves ==
    ASSUME TypeOK, NEW t \in Task, NEW pc, Goto(t, pc),
           \/ task[t].pc \in QueryPc /\ pc \in QueryPc
           \/ task[t].pc \in InfoPc /\ pc \in InfoPc \ {"infoSet"}
           \/ task[t].pc \in CoverPc /\ pc \in CoverPc
           \/ task[t].pc \in MaintPc /\ pc \in MaintPc
    PROVE  Moves(t)
  <1>1. SlotOK(task[t]) /\ StoreTypeOK
    BY SlotTypes DEF TypeOK
  <1>2. SlotOK([task[t] EXCEPT !.pc = pc])
    BY <1>1, SlotMoves
  <1>3. task' = [task EXCEPT ![t] = [task[t] EXCEPT !.pc = pc]]
    BY DEF Goto, TypeOK
  <1>4. QED
    BY <1>2, <1>3 DEF Moves

LEMMA TaskStepMoves ==
    ASSUME TypeOK, NEW t \in Task, TaskStep(t)
    PROVE  Moves(t) \/ UNCHANGED task
  <1> DEFINE b == task[t].book
  <1>0. SlotOK(task[t]) /\ StoreTypeOK
    BY SlotTypes DEF TypeOK
  <1>1. CASE QueryGate(t) \/ QueryHit(t) \/ QueryMiss(t) \/ QueryBroken(t)
             \/ QueryFetch(t) \/ QuerySet(t) \/ QueryClear(t)
    BY <1>1, GotoMoves, FinishMoves
    DEF QueryGate, QueryHit, QueryMiss, QueryBroken, QueryFetch, QuerySet, QueryClear,
        At, QueryPc
  <1>2. CASE InfoGate(t)
    BY <1>2, GotoMoves, FinishMoves DEF InfoGate, At, InfoPc
  <1>3. CASE InfoGet(t)
    <2>1. b \in Book
      BY <1>0, <1>3 DEF InfoGet, At, SlotOK, InfoPc
    <2>2. books[b] # None => books[b].url \in Url \cup {None}
      BY <1>0, <2>1 DEF StoreTypeOK, BookRow
    <2>3. CASE task' = [task EXCEPT ![t] = CoverTask("coverGate", b, books[b].url)] /\ books[b] # None
      BY <1>0, <2>1, <2>2, <2>3, CoverTaskOK DEF Moves
    <2>4. CASE Goto(t, "infoFetch")
      BY <1>3, <2>4, GotoMoves DEF InfoGet, At, InfoPc
    <2>5. QED
      BY <1>3, <2>3, <2>4 DEF InfoGet
  <1>4. CASE InfoFetch(t)
    <2>1. b \in Book
      BY <1>0, <1>4 DEF InfoFetch, At, SlotOK, InfoPc
    <2>2. \A c \in Book, url \in Url \cup {None} : SlotOK(Fetched(b, c, url))
      BY <1>0, <2>1 DEF Fetched, Slot, SlotOK, TaskState, StoreTypeOK, InfoPc, QueryPc, CoverPc
    <2>3. CASE \E c \in Book, url \in Url \cup {None} : task' = [task EXCEPT ![t] = Fetched(b, c, url)]
      BY <2>2, <2>3 DEF Moves
    <2>4. QED
      BY <1>4, <2>3, FinishMoves DEF InfoFetch
  <1>5. CASE InfoSet(t)
    <2>1. b \in Book /\ task[t].url \in Url \cup {None}
      BY <1>0, <1>5 DEF InfoSet, At, SlotOK, InfoPc, TaskState
    <2>2. QED
      BY <1>0, <1>5, <2>1, CoverTaskOK DEF InfoSet, Moves
  <1>6. CASE CoverResolve(t) \/ CoverGate(t) \/ CoverFetch(t) \/ CoverStore(t) \/ CoverReject(t)
    BY <1>6, GotoMoves, FinishMoves
    DEF CoverResolve, CoverGate, CoverFetch, CoverStore, CoverReject, At, CoverPc
  <1>7. CASE CoverClaim(t)
    <2>1. b \in Book /\ task[t].url \in Url
      BY <1>0, <1>7 DEF CoverClaim, At, SlotOK, CoverPc
    <2>2. SlotOK(Slot("download", b, None, task[t].url, now))
      BY <1>0, <2>1 DEF Slot, SlotOK, TaskState, StoreTypeOK, InfoPc, QueryPc, CoverPc
    <2>3. QED
      BY <1>7, <2>2, FinishMoves DEF CoverClaim, Moves
  <1>8. CASE MaintenanceStale(t) \/ MaintenanceEvict(t) \/ MaintenanceStamp(t)
    BY <1>8, GotoMoves, FinishMoves
    DEF MaintenanceStale, MaintenanceEvict, MaintenanceStamp, At, MaintPc
  <1>9. QED
    BY <1>1, <1>2, <1>3, <1>4, <1>5, <1>6, <1>7, <1>8 DEF TaskStep

LEMMA TaskStartMoves ==
    ASSUME TypeOK, NEW t \in Task, TaskStart(t)
    PROVE  Moves(t)
  <1>0. StoreTypeOK
    BY DEF TypeOK
  <1>1. ASSUME NEW b \in Book, NEW i \in Item, NEW force \in BOOLEAN, StartQuery(t, b, i, force)
        PROVE  Moves(t)
    <2>1. SlotOK(Slot("gate", b, i, None, 0))
      BY <1>0 DEF Slot, SlotOK, TaskState, StoreTypeOK, QueryPc, InfoPc, CoverPc
    <2>2. QED
      BY <1>1, <2>1 DEF StartQuery, Moves
  <1>2. ASSUME NEW b \in Book, NEW force \in BOOLEAN, StartInfo(t, b, force)
        PROVE  Moves(t)
    <2>1. \A pc \in {"forcedGate", "infoGate"} : SlotOK(Slot(pc, b, None, None, 0))
      BY <1>0 DEF Slot, SlotOK, TaskState, StoreTypeOK, QueryPc, InfoPc, CoverPc
    <2>2. QED
      BY <1>2, <2>1 DEF StartInfo, Moves
  <1>3. ASSUME NEW b \in Book, NEW url \in Url \cup {None}, AddBook(t, b, url)
        PROVE  Moves(t)
    BY <1>0, <1>3, IdleOK, CoverTaskOK DEF AddBook, Moves
  <1>4. ASSUME NEW force \in BOOLEAN, StartMaintenance(t, force)
        PROVE  Moves(t)
    <2>1. SlotOK(Slot("stale", None, None, None, now))
      BY <1>0 DEF Slot, SlotOK, TaskState, StoreTypeOK, QueryPc, InfoPc, CoverPc, MaintPc
    <2>2. QED
      BY <1>4, <2>1 DEF StartMaintenance, Moves
  <1>5. QED
    BY <1>1, <1>2, <1>3, <1>4 DEF TaskStart

(* The clock never goes back under a slot.                                   *)
LEMMA NowGrows ==
    ASSUME TypeOK, [Next]_vars
    PROVE  now' \in Nat /\ now <= now'
  <1>1. [StoreNext]_storeVars /\ StoreTypeOK
    BY StepRefines DEF TypeOK
  <1>2. StoreTypeOK'
    BY <1>1, StoreNextType
  <1>3. now' = now \/ now' = now + 1
    BY <1>1 DEF StoreNext, BookTx, MaintenanceTx, storeVars, Tick, InstallFeedTx,
                DeleteFeedTx, TouchTx, RemoveBookTx, ClaimTx, MarkFailedTx,
                UpsertFetchedTx, AddBookTx, SetCoverTx, SetItemTx, DeleteItemTx,
                SetUserDataTx, DeleteBookmarkTx, StaleCleanupTx, EvictTx, ClearCacheTx
  <1>4. QED
    BY <1>1, <1>2, <1>3 DEF StoreTypeOK

(* Type correctness: the tables hold rows of their types, every slot is in a *)
(* state its code can be parked in, and no task is ahead of the clock.       *)
THEOREM Typing == Spec => []TypeOK
  <1>1. Init => TypeOK
    <2> SUFFICES ASSUME Init PROVE TypeOK
      OBVIOUS
    <2>1. StoreTypeOK
      BY StoreInitType DEF Init
    <2>2. \A t \in Task : SlotOK(task[t])
      BY <2>1, IdleOK DEF Init
    <2>3. task \in [Task -> TaskState]
      BY <2>1, IdleOK DEF Init, SlotOK
    <2>4. QED
      BY <2>1, <2>2, <2>3 DEF TypeOK, SlotOK, Init, At
  <1>2. TypeOK /\ [Next]_vars => TypeOK'
    <2> SUFFICES ASSUME TypeOK, [Next]_vars
                 PROVE  TypeOK'
      OBVIOUS
    <2>1. StoreTypeOK'
      BY StepRefines, StoreNextType DEF TypeOK
    <2>2. lastCleanup' \in Nat
      BY DEF TypeOK, Next, Step, vars, TaskStart, StartQuery, StartInfo, AddBook,
             StartMaintenance, TaskStep, QueryGate, QueryHit, QueryMiss, QueryBroken,
             QueryFetch, QuerySet, QueryClear, InfoGate, InfoGet, InfoFetch, InfoSet,
             CoverResolve, CoverGate, CoverClaim, CoverFetch, CoverStore, CoverReject,
             MaintenanceStale, MaintenanceEvict, MaintenanceStamp, User, Time, Restart,
             TaskState
    <2>3. raced' \in SUBSET Task /\ annulled' \in SUBSET Task
      BY DEF TypeOK, Next, History, vars
    <2>4. \/ \E t \in Task : Moves(t)
          \/ UNCHANGED task
          \/ task' = [t \in Task |-> Idle]
      BY TaskStepMoves, TaskStartMoves DEF Next, Step, User, Time, Restart, vars
    <2>5. task' \in [Task -> TaskState] /\ \A t \in Task : SlotOK(task'[t])
      BY <2>4, SlotTypes, IdleOK DEF TypeOK, Moves, SlotOK
    <2>6. \A t \in Task : task'[t].at <= now'
      BY <2>5, NowGrows DEF SlotOK, TaskState, TypeOK, StoreTypeOK
    <2>7. QED
      BY <2>1, <2>2, <2>3, <2>5, <2>6 DEF TypeOK, SlotOK, At
  <1>3. QED
    BY <1>1, <1>2, PTL DEF Spec

-----------------------------------------------------------------------------
(* The tasks implement the store: they use it through transactions only.     *)
THEOREM StoreImplemented == Spec => StoreSpec
  <1>1. Init => StoreInit
    BY DEF Init
  <1>2. TypeOK /\ [Next]_vars => [StoreNext]_storeVars
    BY StepRefines
  <1>3. QED
    BY <1>1, <1>2, Typing, PTL DEF Spec, StoreSpec

(* Whatever the tasks, the user and the maintenance pass interleave, no row  *)
(* is left without its parent.                                               *)
THEOREM Integrity == Spec => []ReferentialIntegrity
  BY StoreImplemented, StoreIntegrity, PTL

(* Whatever runs, a book that stays on the shelf keeps its row.              *)
THEOREM ShelfIsKept == Spec => ShelfKept
  BY StoreImplemented, StoreShelfKept, PTL

(* No step of a task changes the URL of a cover and keeps its bytes.         *)
THEOREM BytesDropped == Spec => UrlChangeDropsBytes
  BY StoreImplemented, StoreDropsBytes, PTL

(* The reading position and the bookmarks of a shelved book outlive the      *)
(* maintenance pass, the clearing of the cache and every task.               *)
THEOREM UserDataIsKept == Spec => UserDataKept
  BY StoreImplemented, StoreUserDataKept, PTL

-----------------------------------------------------------------------------
(* What holds between the tasks: the shelf gate and the claim of a cover.    *)

SlotStep(t) == TaskStep(t) \/ TaskStart(t)

(* A step changes the slot of one task, or no slot, or empties them all.     *)
LEMMA OneSlot ==
    ASSUME TypeOK, [Next]_vars
    PROVE  \/ \E t \in Task : SlotStep(t) /\ \A u \in Task \ {t} : task'[u] = task[u]
           \/ UNCHANGED task
           \/ \A t \in Task : task'[t] = Idle
  <1>1. ASSUME NEW t \in Task, SlotStep(t)
        PROVE  \A u \in Task \ {t} : task'[u] = task[u]
    BY <1>1, TaskStepMoves, TaskStartMoves DEF SlotStep, Moves, TypeOK
  <1>2. QED
    BY <1>1 DEF Next, Step, User, Time, Restart, SlotStep, vars

(* Where a slot that is not idle stands after a step of its own.             *)
LEMMA SlotFields ==
    ASSUME TypeOK, NEW t \in Task, NEW pc, Goto(t, pc)
    PROVE  task'[t].pc = pc /\ task'[t].book = task[t].book /\ task'[t].at = task[t].at
  <1>1. task[t] \in TaskState /\ task \in [Task -> TaskState]
    BY DEF TypeOK
  <1>2. QED
    BY <1>1 DEF Goto, TaskState

LEMMA SlotEmptied ==
    ASSUME TypeOK, NEW t \in Task, Finish(t)
    PROVE  task'[t].pc = "idle"
  BY DEF Finish, TypeOK, Idle, Slot

(* A slot that starts a task, or goes on as a cover download, is before its  *)
(* gate.                                                                     *)
BeforeGate(st) == ~PastGate(st)

LEMMA StartsBeforeGate ==
    ASSUME TypeOK, NEW t \in Task, TaskStart(t)
    PROVE  BeforeGate(task'[t])
  <1>0. task \in [Task -> TaskState]
    BY DEF TypeOK
  <1>1. ASSUME NEW b \in Book, NEW i \in Item, NEW force \in BOOLEAN, StartQuery(t, b, i, force)
        PROVE  BeforeGate(task'[t])
    BY <1>0, <1>1 DEF StartQuery, Slot, BeforeGate, PastGate
  <1>2. ASSUME NEW b \in Book, NEW force \in BOOLEAN, StartInfo(t, b, force)
        PROVE  BeforeGate(task'[t])
    BY <1>0, <1>2 DEF StartInfo, Slot, BeforeGate, PastGate
  <1>3. ASSUME NEW b \in Book, NEW url \in Url \cup {None}, AddBook(t, b, url)
        PROVE  BeforeGate(task'[t])
    BY <1>0, <1>3 DEF AddBook, CoverTask, Idle, Slot, BeforeGate, PastGate
  <1>4. ASSUME NEW force \in BOOLEAN, StartMaintenance(t, force)
        PROVE  BeforeGate(task'[t])
    BY <1>0, <1>4 DEF StartMaintenance, Slot, BeforeGate, PastGate
  <1>5. QED
    BY <1>1, <1>2, <1>3, <1>4 DEF TaskStart

(* How a step of a task leaves it past its gate: it was there before, with   *)
(* the same book, or the gate has just seen the book on the shelf.           *)
LEMMA PastGateStep ==
    ASSUME TypeOK, NEW t \in Task, SlotStep(t), PastGate(task'[t])
    PROVE  /\ task'[t].book = task[t].book
           /\ PastGate(task[t]) \/ task[t].book \in shelf'
  <1>0. task \in [Task -> TaskState]
    BY DEF TypeOK
  <1>1. TaskStep(t)
    BY StartsBeforeGate DEF SlotStep, BeforeGate
  <1>2. CASE QueryGate(t) \/ InfoGate(t) \/ CoverGate(t)
    BY <1>2, SlotFields, SlotEmptied
    DEF QueryGate, InfoGate, CoverGate, PastGate, storeVars, tables
  <1>3. CASE QueryHit(t) \/ QueryMiss(t) \/ QueryBroken(t) \/ QueryFetch(t) \/ QuerySet(t)
             \/ QueryClear(t) \/ CoverFetch(t) \/ CoverStore(t) \/ CoverReject(t)
    BY <1>3, SlotFields, SlotEmptied
    DEF QueryHit, QueryMiss, QueryBroken, QueryFetch, QuerySet, QueryClear,
        CoverFetch, CoverStore, CoverReject, At, PastGate
  <1>4. CASE InfoGet(t)
    <2>1. CASE task' = [task EXCEPT ![t] = CoverTask("coverGate", task[t].book, books[task[t].book].url)]
      BY <1>0, <2>1 DEF CoverTask, Idle, Slot, PastGate
    <2>2. CASE Goto(t, "infoFetch")
      BY <1>4, <2>2, SlotFields DEF InfoGet, At, PastGate
    <2>3. QED
      BY <1>4, <2>1, <2>2 DEF InfoGet
  <1>5. CASE InfoFetch(t)
    BY <1>0, <1>5, SlotEmptied DEF InfoFetch, At, Fetched, Slot, PastGate
  <1>6. CASE InfoSet(t)
    BY <1>0, <1>6 DEF InfoSet, CoverTask, Idle, Slot, PastGate
  <1>7. CASE CoverClaim(t)
    BY <1>0, <1>7, SlotEmptied DEF CoverClaim, At, Slot, PastGate
  <1>8. CASE CoverResolve(t) \/ MaintenanceStale(t) \/ MaintenanceEvict(t) \/ MaintenanceStamp(t)
    BY <1>0, <1>8, SlotFields, SlotEmptied
    DEF CoverResolve, MaintenanceStale, MaintenanceEvict, MaintenanceStamp, At, PastGate
  <1>9. QED
    BY <1>1, <1>2, <1>3, <1>4, <1>5, <1>6, <1>7, <1>8 DEF TaskStep

(* The shelf gate: whatever runs at once, a task works on the cache of a     *)
(* shelved book, or the shelf changed after the gate let it pass.            *)
THEOREM GateIsKept == Spec => []GateHolds
  <1>1. Init => GateHolds
    BY DEF Init, GateHolds, PastGate, Idle, Slot
  <1>2. TypeOK /\ GateHolds /\ [Next]_vars => GateHolds'
    <2> SUFFICES ASSUME TypeOK, GateHolds, [Next]_vars, NEW t \in Task, PastGate(task'[t])
                 PROVE  task'[t].book \in shelf' \/ t \in raced'
      BY DEF GateHolds
    <2>1. /\ task'[t].book = task[t].book
          /\ PastGate(task[t]) \/ task[t].book \in shelf'
      <3>1. CASE task'[t] = task[t]
        BY <3>1
      <3>2. CASE task'[t] = Idle
        BY <3>2 DEF Idle, Slot, PastGate
      <3>3. CASE SlotStep(t)
        BY <3>3, PastGateStep
      <3>4. QED
        BY <3>1, <3>2, <3>3, OneSlot
    <2>2. CASE UNCHANGED vars
      BY <2>1, <2>2 DEF GateHolds, vars, storeVars, tables
    <2>3. CASE Next
      BY <2>1, <2>3 DEF GateHolds, Next, History
    <2>4. QED
      BY <2>2, <2>3
  <1>3. QED
    BY <1>1, <1>2, Typing, PTL DEF Spec

-----------------------------------------------------------------------------
LEMMA ClaimRow ==
    ASSUME StoreTypeOK, NEW b \in Book, ClaimTx(b)
    PROVE  books'[b].coverAt = now
  <1>1. books[b] \in BookRow /\ books \in [Book -> BookRow \cup {None}] /\ books[b] # None
    BY DEF StoreTypeOK, ClaimTx, Claimable
  <1>2. QED
    BY <1>1 DEF ClaimTx, MarkCover, BookRow

(* While a row stays pending, its claim only gets younger.                   *)
LEMMA PendingGrows ==
    ASSUME StoreTypeOK, [StoreNext]_storeVars, NEW b \in Book,
           books[b] # None, books[b].cover = "pending",
           books'[b] # None, books'[b].cover = "pending"
    PROVE  books[b].coverAt <= books'[b].coverAt
  <1>0. books[b] \in BookRow /\ books \in [Book -> BookRow \cup {None}] /\ now \in Nat
    BY DEF StoreTypeOK
  <1>1. books[b].coverAt \in Nat
    BY <1>0 DEF BookRow
  <1>2. CASE books'[b] = books[b]
    BY <1>1, <1>2
  <1>3. CASE UNCHANGED books
    BY <1>2, <1>3
  <1>4. ASSUME NEW c \in Book, BookTx(c)
        PROVE  books[b].coverAt <= books'[b].coverAt
    <2>1. CASE TouchTx(c)
      BY <1>0, <1>1, <2>1 DEF TouchTx, Touched, BookRow
    <2>2. CASE RemoveBookTx(c)
      BY <1>0, <1>1, <2>2 DEF RemoveBookTx, DeleteBooks
    <2>3. CASE ClaimTx(c)
      <3>1. CASE b = c
        <4>1. now - books[b].coverAt >= InflightRetry /\ InflightRetry \in Nat
          BY <2>3, <3>1, StoreAssumption DEF ClaimTx, Claimable
        <4>2. books'[b].coverAt = now
          BY <2>3, <3>1, ClaimRow
        <4>3. QED
          BY <1>0, <1>1, <4>1, <4>2
      <3>2. CASE b # c
        BY <1>0, <1>1, <2>3, <3>2 DEF ClaimTx, MarkCover
      <3>3. QED
        BY <3>1, <3>2
    <2>4. CASE MarkFailedTx(c)
      BY <1>0, <1>1, <2>4 DEF MarkFailedTx, MarkCover, BookRow
    <2>5. ASSUME NEW url \in Url \cup {None}, UpsertFetchedTx(c, url)
          PROVE  books[b].coverAt <= books'[b].coverAt
      BY <1>0, <1>1, <2>5 DEF UpsertFetchedTx, FetchedRow, BookRow
    <2>6. ASSUME NEW url \in Url \cup {None}, AddBookTx(c, url)
          PROVE  books[b].coverAt <= books'[b].coverAt
      BY <1>0, <1>1, <2>6 DEF AddBookTx, SnapshotRow, FetchedRow, BookRow
    <2>7. ASSUME NEW url \in Url, SetCoverTx(c, url)
          PROVE  books[b].coverAt <= books'[b].coverAt
      BY <1>0, <1>1, <2>7 DEF SetCoverTx, MarkCover, BookRow
    <2>8. ASSUME NEW i \in Item, SetItemTx(c, i)
          PROVE  books[b].coverAt <= books'[b].coverAt
      BY <1>0, <1>1, <2>8 DEF SetItemTx, Touched, BookRow
    <2>9. CASE \/ \E i \in Item : DeleteItemTx(c, i)
               \/ \E u \in UserTable : SetUserDataTx(c, u)
               \/ DeleteBookmarkTx(c)
      BY <1>3, <2>9 DEF DeleteItemTx, SetUserDataTx, DeleteBookmarkTx
    <2>10. QED
      BY <1>4, <2>1, <2>2, <2>3, <2>4, <2>5, <2>6, <2>7, <2>8, <2>9 DEF BookTx
  <1>5. ASSUME MaintenanceTx
        PROVE  books[b].coverAt <= books'[b].coverAt
    <2>1. CASE \E start \in 0 .. now : StaleCleanupTx(start - StaleAge)
      BY <1>0, <1>2, <2>1 DEF StaleCleanupTx
    <2>2. CASE \E S \in SUBSET Book : EvictTx(S)
      BY <1>0, <1>2, <2>2 DEF EvictTx, DeleteBooks
    <2>3. CASE ClearCacheTx
      BY <1>0, <2>3 DEF ClearCacheTx, BookRow
    <2>4. QED
      BY <1>5, <2>1, <2>2, <2>3 DEF MaintenanceTx
  <1>6. CASE Tick \/ InstallFeedTx \/ UNCHANGED storeVars
    BY <1>3, <1>6 DEF Tick, InstallFeedTx, storeVars, tables
  <1>7. CASE DeleteFeedTx
    BY <1>7 DEF DeleteFeedTx, DeleteBooks
  <1>8. QED
    BY <1>4, <1>5, <1>6, <1>7 DEF StoreNext

(* A task comes to hold a claim by taking it, and keeps it as it was.        *)
LEMMA ClaimStep ==
    ASSUME TypeOK, NEW t \in Task, SlotStep(t), Downloading(task'[t])
    PROVE  \/ /\ Downloading(task[t])
              /\ task'[t].book = task[t].book /\ task'[t].at = task[t].at
           \/ /\ task[t].book \in Book /\ ClaimTx(task[t].book)
              /\ task'[t].book = task[t].book /\ task'[t].at = now
  <1>0. task \in [Task -> TaskState]
    BY DEF TypeOK
  <1>1. TaskStep(t)
    BY StartsBeforeGate DEF SlotStep, BeforeGate, PastGate, Downloading
  <1>2. CASE QueryGate(t) \/ QueryHit(t) \/ QueryMiss(t) \/ QueryBroken(t)
             \/ QueryFetch(t) \/ QuerySet(t) \/ QueryClear(t) \/ InfoGate(t)
             \/ CoverResolve(t) \/ CoverGate(t)
    BY <1>2, SlotFields, SlotEmptied
    DEF QueryGate, QueryHit, QueryMiss, QueryBroken, QueryFetch, QuerySet, QueryClear,
        InfoGate, CoverResolve, CoverGate, Downloading
  <1>3. CASE InfoGet(t)
    BY <1>0, <1>3, SlotFields DEF InfoGet, CoverTask, Idle, Slot, Downloading
  <1>4. CASE InfoFetch(t) \/ InfoSet(t)
    <2>1. CASE InfoFetch(t)
      BY <1>0, <2>1, SlotEmptied DEF InfoFetch, Fetched, Downloading
    <2>2. CASE InfoSet(t)
      BY <1>0, <2>2 DEF InfoSet, CoverTask, Idle, Slot, Downloading
    <2>3. QED
      BY <1>4, <2>1, <2>2
  <1>5. CASE CoverClaim(t)
    <2>1. task[t].book \in Book
      BY <1>5 DEF TypeOK, CoverClaim, At, CoverPc
    <2>2. QED
      BY <1>0, <1>5, <2>1, SlotEmptied DEF CoverClaim, Slot, Downloading
  <1>6. CASE CoverFetch(t) \/ CoverStore(t) \/ CoverReject(t)
    BY <1>6, SlotFields, SlotEmptied
    DEF CoverFetch, CoverStore, CoverReject, At, Downloading
  <1>7. CASE MaintenanceStale(t) \/ MaintenanceEvict(t) \/ MaintenanceStamp(t)
    BY <1>0, <1>7, SlotFields, SlotEmptied
    DEF MaintenanceStale, MaintenanceEvict, MaintenanceStamp, At, Downloading
  <1>8. QED
    BY <1>1, <1>2, <1>3, <1>4, <1>5, <1>6, <1>7 DEF TaskStep

(* What a standing claim says of the row: it is pending, and was claimed no  *)
(* earlier than the download.  (Later, once the in-flight window is over and *)
(* another task has claimed it again.)                                       *)
ClaimStands(t) ==
    LET row == books[task[t].book]
    IN  row # None /\ row.cover = "pending" /\ task[t].at <= row.coverAt

ClaimInv == \A t \in Task : Downloading(task[t]) /\ t \notin annulled => ClaimStands(t)

(* Of one step of the system, for one download after it that stands: either  *)
(* it stood before, or its claim is what the step did.                       *)
OldClaim(t) ==
    Downloading(task[t]) /\ task'[t].book = task[t].book /\ task'[t].at = task[t].at

NewClaim(t) ==
    /\ \A u \in Task \ {t} : task'[u] = task[u]
    /\ ClaimTx(task'[t].book) /\ task'[t].at = now

LEMMA ClaimCases ==
    ASSUME TypeOK, [Next]_vars, NEW t \in Task, Downloading(task'[t]), t \notin annulled'
    PROVE  /\ task'[t].book \in Book
           /\ Downloading(task[t]) => t \notin annulled
           /\ OldClaim(t) \/ NewClaim(t)
  <1>1. Downloading(task[t]) => task[t].book \in Book
    BY DEF TypeOK, Downloading, CoverPc
  <1>2. Downloading(task[t]) => t \notin annulled
    BY DEF TypeOK, Next, History, vars
  <1>3. task'[t].book \in Book /\ (OldClaim(t) \/ NewClaim(t))
    <2>1. CASE task'[t] = task[t]
      BY <1>1, <2>1 DEF OldClaim
    <2>2. CASE task'[t] = Idle
      BY <2>2 DEF Idle, Slot, Downloading
    <2>3. CASE SlotStep(t) /\ \A u \in Task \ {t} : task'[u] = task[u]
      BY <1>1, <2>3, ClaimStep DEF OldClaim, NewClaim
    <2>4. QED
      BY <2>1, <2>2, <2>3, OneSlot
  <1>4. QED
    BY <1>2, <1>3

LEMMA ClaimInvStep ==
    ASSUME TypeOK, ClaimInv, [Next]_vars
    PROVE  ClaimInv'
  <1> SUFFICES ASSUME NEW t \in Task, Downloading(task'[t]), t \notin annulled'
               PROVE  ClaimStands(t)'
    BY DEF ClaimInv
  <1> DEFINE b == task'[t].book
  <1>0. b \in Book /\ StoreTypeOK /\ now \in Nat /\ task[t].at \in Nat
    BY ClaimCases DEF TypeOK, StoreTypeOK, TaskState
  <1>1. CASE UNCHANGED vars
    BY <1>1 DEF ClaimInv, ClaimStands, vars, storeVars, tables
  <1>2. CASE Next
    <2>1. books'[b] # None /\ books'[b].cover = "pending"
      BY <1>2 DEF Next, History
    <2>2. books'[b] \in BookRow
      BY <1>0, <2>1, StepRefines, StoreNextType DEF StoreTypeOK
    <2>3. CASE OldClaim(t)
      <3>1. ClaimStands(t)
        BY <2>3, ClaimCases DEF ClaimInv, OldClaim
      <3>2. books[b] \in BookRow
        BY <1>0, <2>3, <3>1 DEF ClaimStands, StoreTypeOK, OldClaim
      <3>3. books[b].coverAt <= books'[b].coverAt
        BY <1>0, <2>1, <2>3, <3>1, StepRefines, PendingGrows DEF ClaimStands, OldClaim
      <3>4. QED
        BY <1>0, <2>1, <2>2, <2>3, <3>1, <3>2, <3>3 DEF ClaimStands, BookRow, OldClaim
    <2>4. CASE NewClaim(t)
      <3>1. books'[b].coverAt = now
        BY <1>0, <2>4, ClaimRow DEF NewClaim
      <3>2. QED
        BY <1>0, <2>1, <2>4, <3>1 DEF ClaimStands, NewClaim
    <2>5. QED
      BY <2>3, <2>4, ClaimCases
  <1>3. QED
    BY <1>1, <1>2

(* A claim that is taken while another one stands is an in-flight window     *)
(* younger: the row is pending with a stamp no older than the other task.    *)
LEMMA NewClaimApart ==
    ASSUME TypeOK, ClaimInv, [Next]_vars, NEW t \in Task, NEW u \in Task, t # u,
           Downloading(task'[u]), u \notin annulled', task'[t].book = task'[u].book,
           NewClaim(t)
    PROVE  task'[t].at - task'[u].at >= InflightRetry
  <1> DEFINE b == task'[u].book
  <1>1. task'[u] = task[u] /\ ClaimStands(u) /\ b \in Book
    BY ClaimCases DEF NewClaim, ClaimInv
  <1>2. books[b].cover = "pending" /\ task[u].at <= books[b].coverAt /\ books[b] \in BookRow
    BY <1>1 DEF ClaimStands, TypeOK, StoreTypeOK
  <1>3. now - books[b].coverAt >= InflightRetry
    BY <1>2 DEF NewClaim, ClaimTx, Claimable
  <1>4. now \in Nat /\ task[u].at \in Nat /\ books[b].coverAt \in Nat /\ InflightRetry \in Nat
    BY <1>2, StoreAssumption DEF TypeOK, StoreTypeOK, TaskState, BookRow
  <1>5. task'[t].at = now
    BY DEF NewClaim
  <1>6. QED
    BY <1>1, <1>2, <1>3, <1>4, <1>5

(* Single flight: of two downloads of one book whose claims both stand, one  *)
(* was claimed at least the in-flight window after the other.                *)
THEOREM OneDownload == Spec => []SingleFlight
  <1>1. Init => ClaimInv /\ SingleFlight
    BY DEF Init, ClaimInv, SingleFlight, Downloading, Idle, Slot
  <1>2. TypeOK /\ ClaimInv /\ SingleFlight /\ [Next]_vars => ClaimInv' /\ SingleFlight'
    <2> SUFFICES ASSUME TypeOK, ClaimInv, SingleFlight, [Next]_vars,
                        NEW t \in Task, NEW u \in Task, t # u,
                        Downloading(task'[t]), Downloading(task'[u]),
                        task'[t].book = task'[u].book,
                        t \notin annulled', u \notin annulled'
                 PROVE  \/ task'[t].at - task'[u].at >= InflightRetry
                        \/ task'[u].at - task'[t].at >= InflightRetry
      BY ClaimInvStep DEF SingleFlight
    <2>1. CASE OldClaim(t) /\ OldClaim(u)
      BY <2>1, ClaimCases DEF OldClaim, SingleFlight
    <2>2. CASE NewClaim(t)
      BY <2>2, NewClaimApart
    <2>3. CASE NewClaim(u)
      BY <2>3, NewClaimApart
    <2>4. QED
      BY <2>1, <2>2, <2>3, ClaimCases
  <1>3. QED
    BY <1>1, <1>2, Typing, PTL DEF Spec

-----------------------------------------------------------------------------
(* Rows of books that are not on the shelf.                                  *)

\* The book whose row a task is about to write: the one it was asked for, or
\* the one the script answered for.
Writes(t) == IF At(t, "infoSet") THEN task[t].named ELSE task[t].book

\* Of all that a task does, only two writes make a row where there was none.
LEMMA RowAppears ==
    ASSUME TypeOK, NEW t \in Task, TaskStep(t), NEW b \in Book, books[b] = None, books'[b] # None
    PROVE  PastGate(task[t]) /\ Writes(t) = b /\ shelf' = shelf /\ task'[t] # task[t]
  <1>0. /\ books \in [Book -> BookRow \cup {None}] /\ task \in [Task -> TaskState]
        /\ task[t].book \in Book \cup {None}
    BY DEF TypeOK, StoreTypeOK, TaskState
  <1>1. CASE QuerySet(t)
    <2>1. SetItemTx(task[t].book, task[t].item) /\ Finish(t)
      BY <1>1 DEF QuerySet, storeVars, tables
    <2>2. b = task[t].book /\ shelf' = shelf
      BY <1>0, <2>1 DEF SetItemTx
    <2>3. QED
      BY <1>1, <2>1, <2>2, SlotEmptied DEF QuerySet, At, PastGate, Writes
  <1>2. CASE InfoSet(t)
    <2>1. UpsertFetchedTx(task[t].named, task[t].url)
      BY <1>2 DEF InfoSet, storeVars, tables
    <2>2. b = task[t].named /\ shelf' = shelf
      BY <1>0, <2>1 DEF UpsertFetchedTx
    <2>3. task'[t].pc \in {"coverGate", "idle"}
      BY <1>0, <1>2 DEF InfoSet, CoverTask, Idle, Slot
    <2>4. QED
      BY <1>2, <2>2, <2>3 DEF InfoSet, At, PastGate, Writes
  <1>3. CASE QueryHit(t) \/ InfoGet(t)
    BY <1>0, <1>3 DEF QueryHit, InfoGet, TouchTx, Touched
  <1>4. CASE CoverClaim(t) \/ CoverStore(t) \/ CoverReject(t)
    BY <1>0, <1>4
    DEF CoverClaim, CoverStore, CoverReject, ClaimTx, SetCoverTx, MarkFailedTx, MarkCover,
        storeVars, tables
  <1>5. CASE MaintenanceStale(t) \/ MaintenanceEvict(t) \/ MaintenanceStamp(t)
    BY <1>5
    DEF MaintenanceStale, MaintenanceEvict, MaintenanceStamp, StaleCleanupTx, EvictTx,
        DeleteBooks, storeVars, tables
  <1>6. CASE QueryGate(t) \/ QueryMiss(t) \/ QueryBroken(t) \/ QueryFetch(t) \/ QueryClear(t)
             \/ InfoGate(t) \/ InfoFetch(t) \/ CoverResolve(t) \/ CoverGate(t) \/ CoverFetch(t)
    BY <1>6
    DEF QueryGate, QueryMiss, QueryBroken, QueryFetch, QueryClear, InfoGate, InfoFetch,
        CoverResolve, CoverGate, CoverFetch, DeleteItemTx, storeVars, tables
  <1>7. QED
    BY <1>1, <1>2, <1>3, <1>4, <1>5, <1>6 DEF TaskStep

\* What the user does makes a row only for a book that comes on the shelf.
LEMMA RowShelved ==
    ASSUME TypeOK, NEW b \in Book, books[b] = None, books'[b] # None,
           User \/ Time \/ Restart \/ \E t \in Task : TaskStart(t)
    PROVE  b \in shelf'
  <1>0. books \in [Book -> BookRow \cup {None}]
    BY DEF TypeOK, StoreTypeOK
  <1>1. CASE User
    BY <1>0, <1>1
    DEF User, UserTx, InstallFeedTx, DeleteFeedTx, ClearCacheTx, RemoveBookTx, DeleteBookmarkTx,
        SetUserDataTx, DeleteBooks
  <1>2. CASE Time \/ Restart
    BY <1>2 DEF Time, Restart, Tick, storeVars, tables
  <1>3. ASSUME NEW t \in Task, TaskStart(t) PROVE b \in shelf'
    <2>1. ASSUME NEW c \in Book, NEW url \in Url \cup {None}, AddBook(t, c, url) PROVE b \in shelf'
      BY <1>0, <2>1 DEF AddBook, AddBookTx
    <2>2. CASE ~\E c \in Book, url \in Url \cup {None} : AddBook(t, c, url)
      BY <1>3, <2>2
      DEF TaskStart, StartQuery, StartInfo, StartMaintenance, DeleteItemTx, storeVars, tables
    <2>3. QED
      BY <2>1, <2>2
  <1>4. QED
    BY <1>1, <1>2, <1>3

(* A book off the shelf gets a row only by a write of a task that its gate   *)
(* admitted: the shelf changed under it, or the script answered under an id  *)
(* it was not asked for.  Whatever else runs or is restarted.                *)
THEOREM TraceIsCaused == Spec => TraceHasCause
  <1>1. TypeOK /\ GateHolds /\ [Next]_vars =>
          [\A b \in Book : b \notin shelf' /\ books[b] = None /\ books'[b] # None
             => \E t \in Task :
                  /\ task'[t] # task[t]
                  /\ \/ t \in raced /\ task[t].book = b
                     \/ /\ At(t, "infoSet") /\ task[t].named = b /\ task[t].book # b
                        /\ t \in raced \/ task[t].book \in shelf]_vars
    <2> SUFFICES ASSUME TypeOK, GateHolds, Next, NEW b \in Book,
                        b \notin shelf', books[b] = None, books'[b] # None
                 PROVE  \E t \in Task :
                          /\ task'[t] # task[t]
                          /\ \/ t \in raced /\ task[t].book = b
                             \/ /\ At(t, "infoSet") /\ task[t].named = b /\ task[t].book # b
                                /\ t \in raced \/ task[t].book \in shelf
      OBVIOUS
    <2>1. PICK t \in Task : TaskStep(t)
      BY RowShelved DEF Next, Step
    <2>2. PastGate(task[t]) /\ Writes(t) = b /\ shelf' = shelf /\ task'[t] # task[t]
      BY <2>1, RowAppears
    <2>3. task[t].book \in shelf \/ t \in raced
      BY <2>2 DEF GateHolds
    <2>4. task[t].book = b \/ (At(t, "infoSet") /\ task[t].named = b /\ task[t].book # b)
      BY <2>2 DEF Writes
    <2>5. QED
      BY <2>2, <2>3, <2>4
  <1>2. QED
    BY <1>1, Typing, GateIsKept, PTL DEF Spec, TraceHasCause
=============================================================================
