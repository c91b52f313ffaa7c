----------------------------- MODULE ShelfUpdates ---------------------------
(* Badges for new chapters: the native update check (api/bookshelf.rs), the  *)
(* notifier that shows its results (BookshelfUpdatesNotifier), the chapter   *)
(* lists the user opens meanwhile, and the removal of books and feeds after  *)
(* an undo period (bookshelf_page.dart, feeds_page.dart).                    *)
EXTENDS Integers, Sequences

CONSTANTS
    Book, Feed, FeedOf,   \* the feed of each book
    MaxChapters,          \* bound on the chapters of a book
    MaxChecks,            \* bound on generations: checks and removals of feeds
    Buffer                \* results a stream holds: its channel and the one being sent

VARIABLES
    count,       \* chapters the source has
    cached,      \* chapters of the cached list; 0: no list
    shelf,       \* shelved books
    seen,        \* last_seen_chapters; Unseen until a list was seen
    marks,       \* markBookshelfSeen calls on their way
    generation,  \* _generation
    updates,     \* BookshelfUpdatesState
    checks,      \* generation -> its native stream and its check()
    flow,        \* page -> the deletion it is busy with: _pendingDeleteIds
    raced,       \* history: books whose baseline moved under a check
    gone         \* history: books that left with their feed and are not back

history == <<raced, gone>>
updatesVars == <<count, cached, shelf, seen, marks, generation, updates, checks, flow, history>>

Unseen == -1
Gen == 1..MaxChecks
View == {"shelf", "feeds"}
Zero == [b \in Book |-> 0]
NoFlow == [at |-> "none", target |-> {}]
NoCheck == [at |-> "none", todo |-> {}, base |-> Zero, book |-> {}, fresh |-> 0,
           out |-> <<>>, listening |-> FALSE, badges |-> Zero, failed |-> {}]

UpdatesInit == /\ count = [b \in Book |-> 1] /\ cached = Zero /\ marks = {}
               /\ shelf = Book /\ seen = [b \in Book |-> Unseen]
               /\ generation = 0 /\ checks = [g \in Gen |-> NoCheck]
               /\ updates = [checking |-> FALSE, badges |-> Zero, failed |-> {}]
               /\ flow = [p \in View |-> NoFlow] /\ raced = {} /\ gone = {}

Open(g) == checks[g].at \notin {"none", "opening", "over"} \/ checks[g].out # <<>>
Raced(bs, g) == raced' = IF \E h \in Gen \ {g} : Open(h) THEN raced \cup bs ELSE raced

-----------------------------------------------------------------------------
(* The source, and what the user reads. *)
Publish(b) == /\ count[b] < MaxChapters /\ count' = [count EXCEPT ![b] = @ + 1]
              /\ UNCHANGED <<cached, shelf, seen, marks, generation, updates, checks, flow, history>>

\* A chapter list is shown, from the cache or from the source: the baseline is
\* sent off, and the badge dropped at once.
Clear(b) == updates' = [updates EXCEPT !.badges[b] = 0]
See(b) == /\ \E n \in {count[b]} \cup ({cached[b]} \ {0}) :
                /\ cached' = [cached EXCEPT ![b] = n]
                /\ marks' = marks \cup {[book |-> b, n |-> n]}
          /\ Clear(b) /\ Raced({b}, 0)
          /\ UNCHANGED <<count, shelf, seen, generation, checks, flow, gone>>
Baseline(b, n) == seen' = IF b \in shelf THEN [seen EXCEPT ![b] = n] ELSE seen
MarkLands(m) == /\ marks' = marks \ {m} /\ Baseline(m.book, m.n) /\ Raced({m.book}, 0)
                /\ UNCHANGED <<count, cached, shelf, generation, updates, checks, flow, gone>>
\* A book is shelved (again), from a feed that is installed (again).
Add(b) == /\ b \notin shelf /\ shelf' = shelf \cup {b} /\ gone' = gone \ {b}
          /\ UNCHANGED <<count, cached, seen, marks, generation, updates, checks, flow, raced>>

-----------------------------------------------------------------------------
(* open_bookshelf_updates_stream: the shelf and its baselines are read once; *)
(* then one book after the other, which ends when its listener is gone.      *)
Native(g, c) == /\ checks' = [checks EXCEPT ![g] = c]
                /\ UNCHANGED <<count, shelf, marks, generation, updates, flow, gone>>
\* The books of paused feeds are left out.
OpenStream(g) == /\ checks[g].at = "opening"
                 /\ \E paused \in SUBSET Feed :
                      Native(g, [checks[g] EXCEPT !.at = "next", !.base = seen,
                                   !.todo = {b \in shelf : FeedOf[b] \notin paused}])
                 /\ raced' = (IF g # generation \/ \E h \in Gen : Open(h) THEN raced ELSE {}) \cup {m.book : m \in marks}
                 /\ UNCHANGED <<cached, seen>>
OpenFails(g) == /\ checks[g].at = "opening"
                /\ Native(g, [checks[g] EXCEPT !.at = "threw"])
                /\ UNCHANGED <<cached, seen, raced>>

Found(b, new, failed) == [book |-> b, new |-> new, failed |-> failed]
Sent(c, item) == [c EXCEPT !.at = "next", !.book = {}, !.out = Append(@, item)]
CanSend(c) == Len(c.out) < Buffer
\* GetChapters with force_refresh: the cached list becomes the source's.
Fetch(g, b) ==
    LET c == [checks[g] EXCEPT !.todo = @ \ {b}]
        fresh == count[b]
    IN  /\ c.at = "next" /\ checks[g].listening /\ b \in checks[g].todo /\ CanSend(c)
        /\ \/ Native(g, Sent(c, Found(b, 0, TRUE))) /\ UNCHANGED cached
           \/ /\ cached' = [cached EXCEPT ![b] = fresh]
              /\ IF c.base[b] = Unseen
                 THEN Native(g, [c EXCEPT !.at = "adopt", !.book = {b}, !.fresh = fresh])
                 ELSE Native(g, Sent(c, Found(b, IF fresh > c.base[b] THEN fresh - c.base[b] ELSE 0, FALSE)))
        /\ UNCHANGED <<seen, raced>>
Adopt(g, b) == /\ checks[g].at = "adopt" /\ b \in checks[g].book
               /\ Baseline(b, checks[g].fresh)
               /\ Native(g, Sent(checks[g], Found(b, 0, FALSE)))
               /\ Raced({b}, g) /\ UNCHANGED cached
EndStream(g) == /\ checks[g].at = "next" /\ checks[g].todo = {}
                /\ Native(g, [checks[g] EXCEPT !.at = "ended"])
                /\ UNCHANGED <<cached, seen, raced>>
\* A send finds the listener gone.
Abandon(g) == /\ checks[g].at = "next" /\ ~checks[g].listening
              /\ Native(g, [NoCheck EXCEPT !.at = "over"])
              /\ UNCHANGED <<cached, seen, raced>>
NativeStep(g) == \/ OpenStream(g) \/ OpenFails(g) \/ EndStream(g) \/ Abandon(g)
                 \/ \E b \in Book : Fetch(g, b) \/ Adopt(g, b)

-----------------------------------------------------------------------------
(* BookshelfUpdatesNotifier *)
Notifier == UNCHANGED <<count, cached, shelf, seen, marks, flow, history>>
Check == /\ ~updates.checking /\ generation < MaxChecks
         /\ generation' = generation + 1
         /\ updates' = [checking |-> TRUE, badges |-> Zero, failed |-> {}]
         /\ checks' = [checks EXCEPT ![generation + 1] =
                         [NoCheck EXCEPT !.at = "opening", !.listening = TRUE]]
         /\ Notifier

Noted(c, item) == [c EXCEPT !.out = Tail(@),
                            !.failed = IF item.failed THEN @ \cup {item.book} ELSE @,
                            !.badges[item.book] = IF item.new > 0 THEN item.new ELSE @]
\* An update of a check that is no longer current ends its stream.
Left(c) == IF c.at \in {"next", "adopt"} THEN [c EXCEPT !.out = <<>>, !.listening = FALSE]
           ELSE [NoCheck EXCEPT !.at = "over"]

\* Mutant: updates of an older check are shown too.
UpdateAny(g) == /\ checks[g].listening /\ checks[g].out # <<>>
                /\ LET c == Noted(checks[g], Head(checks[g].out))
                   IN  /\ checks' = [checks EXCEPT ![g] = c]
                       /\ updates' = [updates EXCEPT !.badges = c.badges]
                /\ UNCHANGED generation /\ Notifier

Update(g) == /\ checks[g].listening /\ checks[g].out # <<>>
             /\ IF g # generation
                THEN checks' = [checks EXCEPT ![g] = Left(@)] /\ UNCHANGED updates
                ELSE LET c == Noted(checks[g], Head(checks[g].out))
                     IN  /\ checks' = [checks EXCEPT ![g] = c]
                         /\ updates' = [updates EXCEPT !.badges = c.badges]
             /\ UNCHANGED generation /\ Notifier
\* The stream is over, or it failed: what came is shown.
CheckEnds(g) == /\ checks[g].listening /\ checks[g].out = <<>> /\ checks[g].at \in {"ended", "threw"}
                /\ checks' = [checks EXCEPT ![g] = [NoCheck EXCEPT !.at = "over"]]
                /\ updates' = IF g # generation THEN updates
                              ELSE [checking |-> FALSE, badges |-> checks[g].badges,
                                    failed |-> checks[g].failed]
                /\ UNCHANGED generation /\ Notifier

-----------------------------------------------------------------------------
(* Deletions: an undo period on one page at a time, the native removal, and  *)
(* then what the shelf and the badges keep of it.                            *)
Step(p, l) == flow' = [flow EXCEPT ![p].at = l]
Targets(p) == IF p = "shelf" THEN {{b} : b \in shelf}
              ELSE {{b \in Book : FeedOf[b] = f} : f \in Feed}
Delete(p, t) == /\ flow[p].at = "none" /\ t \in Targets(p)
                /\ flow' = [flow EXCEPT ![p] = [at |-> "undo", target |-> t]]
                /\ UNCHANGED <<count, cached, shelf, seen, marks, generation, updates, checks, history>>
Undo(p) == /\ flow[p].at = "undo" /\ flow' = [flow EXCEPT ![p] = NoFlow]
           /\ UNCHANGED <<count, cached, shelf, seen, marks, generation, updates, checks, history>>
\* remove_book, or the cascade of delete_feed; or it failed.
Removed(p) == /\ flow[p].at = "undo" /\ Step(p, "mirror")
              /\ shelf' = shelf \ flow[p].target
              /\ seen' = [b \in Book |-> IF b \in flow[p].target THEN Unseen ELSE seen[b]]
              /\ cached' = IF p = "shelf" THEN cached
                           ELSE [b \in Book |-> IF b \in flow[p].target THEN 0 ELSE cached[b]]
              /\ Raced(flow[p].target, 0)
              /\ UNCHANGED <<count, marks, generation, updates, checks, gone>>
Without(t) == [updates EXCEPT !.badges = [b \in Book |-> IF b \in t THEN 0 ELSE @[b]]]
\* remove(book), or removeFeed: a check on its way is not to restore anything.
Mirror(p) ==
    /\ flow[p].at = "mirror" /\ flow' = [flow EXCEPT ![p] = NoFlow]
    /\ IF p = "shelf" THEN updates' = Without(flow[p].target) /\ UNCHANGED <<generation, gone>>
       ELSE /\ generation < MaxChecks /\ generation' = generation + 1
            /\ updates' = [Without(flow[p].target) EXCEPT !.checking = FALSE, !.failed = @ \ flow[p].target]
            /\ gone' = gone \cup (flow[p].target \ shelf)
    /\ UNCHANGED <<count, cached, shelf, seen, marks, checks, raced>>

UpdatesNext == \/ Check
               \/ \E b \in Book : Publish(b) \/ See(b) \/ Add(b)
               \/ \E m \in marks : MarkLands(m)
               \/ \E g \in Gen : NativeStep(g) \/ Update(g) \/ CheckEnds(g)
               \/ \E p \in View : Undo(p) \/ Removed(p) \/ Mirror(p) \/ \E t \in Targets(p) : Delete(p, t)
-----------------------------------------------------------------------------
\* A badge announces chapters that exist and lie after the ones the user has
\* seen, but for books whose list was seen, or that were removed, while a check
\* had its snapshot, and those whose removal is not mirrored yet ("the number of chapters published since the user last saw
\* the book's chapter list").
Leaving == UNION {flow[p].target : p \in {q \in View : flow[q].at = "mirror"}}
BadgeIsNews == \A b \in shelf \ (raced \cup Leaving) :
    updates.badges[b] > 0 => seen[b] # Unseen /\ seen[b] + updates.badges[b] <= count[b]

\* What a removed feed had, nothing brings back: no badge and no failure of its
\* books ("prevents an update check that was already in flight from restoring
\* stale entries after the deletion").
RemovedStaysClean == \A b \in gone : updates.badges[b] = 0 /\ b \notin updates.failed

\* The shelf says that it is checking exactly while its latest check is under
\* way: removing a feed ends the spinner of the check it abandons, and no check
\* is left that would never end it.
CheckDriven == updates.checking <=> generation # 0 /\ checks[generation].listening
=============================================================================
