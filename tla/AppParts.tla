------------------------------- MODULE AppParts ------------------------------
(* The parts of the app, and the HTTP client, that run on their own: the      *)
(* search screen, a thread of comments, the badges and deletions of the       *)
(* shelf, the bookmarks of the open book, its reading position, the           *)
(* transformer settings, a page layout, the HTTP client. A behaviour is one   *)
(* of a single part; the variables of the others keep their initial values.   *)
EXTENDS PageBreaker, HttpGate

CONSTANTS Feed, Item, PageSize, MaxRuns, MaxEvents,      \* SearchScreen
          Comment, Cursor, Start, MaxGen,                \* CommentsThread
          Book, ShelfFeed, FeedOf, MaxChapters, MaxChecks, Buffer,             \* ShelfUpdates
          Engine, Page, EntryLists, Chapters, MaxActive, MaxIndent, MaxSaves,  \* Transformers
          ReadBook, OtherBook, ReadChapter, MaxCalls, MaxReports,              \* ReaderProgress
          MarkBook, MaxMarks, MaxMarkCalls,                                    \* Bookmarks
          Absent

ASSUME SearchBounds == MaxRuns \in Nat /\ MaxEvents \in Nat /\ PageSize \in Nat \ {0}
ASSUME ThreadBounds == MaxGen \in Nat
ASSUME ShelfBounds == MaxChecks \in Nat
ASSUME MarkBounds == "" \notin MarkBook

VARIABLES
    part,      \* the part whose behaviour it is
    token, screen, live, loader, pump, canceled, handles, given, taken,
    threadGeneration, loading, hasMore, error, cursor, cursors, comments, load, threadRequests, pages,
    count, cached, shelf, seen, marks, checkGeneration, updates, checks, flow, raced, gone,
    stored, legacy, engine, shown, loads, saves, saveCount, lapsed, confirmed, older, first, query,
    progressRows, calls, sentCalls, reports, active, progress, refused, reading, pending, lastSaved, debounce,
    listened, moved, opened, stirred,
    markRows, nextMark, markCalls, markSent, markBook, shownMarks, crossed

Screen == INSTANCE SearchScreen
Thread == INSTANCE CommentsThread WITH generation <- threadGeneration, items <- comments, requests <- threadRequests
Shelf == INSTANCE ShelfUpdates WITH generation <- checkGeneration, Feed <- ShelfFeed
Settings == INSTANCE Transformers
Position == INSTANCE ReaderProgress
Marks == INSTANCE Bookmarks

\* Absent is no configuration, and the engines are counted from 1.
ASSUME SettingsBounds == Absent \notin Settings!Configuration /\ Engine \in SUBSET Nat /\ 1 \in Engine

screenVars == <<token, screen, live, loader, pump, canceled, handles, given, taken>>
threadVars == <<threadGeneration, loading, hasMore, error, cursor, cursors, comments, load, threadRequests, pages>>
shelfVars == <<count, cached, shelf, seen, marks, checkGeneration, updates, checks, flow, raced, gone>>
settingsVars == <<stored, legacy, engine, shown, loads, saves, saveCount, lapsed, confirmed, older, first, query>>
progressVars == <<progressRows, calls, sentCalls, reports, active, progress, refused, reading, pending,
                  lastSaved, debounce, listened, moved, opened, stirred>>
marksVars == <<markRows, nextMark, markCalls, markSent, markBook, shownMarks, crossed>>
appVars == <<part, pageVars, gateVars, screenVars, threadVars, shelfVars, settingsVars, progressVars, marksVars>>

\* The layout, the settings and the stored places have several beginnings; a
\* behaviour of another part has one of them.
AppInit == /\ PageInit /\ (part # "pages" => items = <<>> /\ \A h \in PageHeights : pageHeight <= h)
           /\ GateInit /\ Screen!SearchInit /\ Thread!ThreadInit /\ Shelf!UpdatesInit /\ Marks!MarksInit
           /\ Settings!SettingsInit /\ (part # "settings" => legacy = Absent)
           /\ Position!ProgressInit /\ (part # "progress" => \A b \in ReadBook : progressRows[b] = Absent)

AppNext ==
    \/ part = "search" /\ Screen!SearchNext
       /\ UNCHANGED <<part, pageVars, gateVars, threadVars, shelfVars, settingsVars, progressVars, marksVars>>
    \/ part = "thread" /\ Thread!ThreadNext
       /\ UNCHANGED <<part, pageVars, gateVars, screenVars, shelfVars, settingsVars, progressVars, marksVars>>
    \/ part = "shelf" /\ Shelf!UpdatesNext
       /\ UNCHANGED <<part, pageVars, gateVars, screenVars, threadVars, settingsVars, progressVars, marksVars>>
    \/ part = "pages" /\ PageNext
       /\ UNCHANGED <<part, gateVars, screenVars, threadVars, shelfVars, settingsVars, progressVars, marksVars>>
    \/ part = "http" /\ GateNext
       /\ UNCHANGED <<part, pageVars, screenVars, threadVars, shelfVars, settingsVars, progressVars, marksVars>>
    \/ part = "settings" /\ Settings!SettingsNext
       /\ UNCHANGED <<part, pageVars, gateVars, screenVars, threadVars, shelfVars, progressVars, marksVars>>
    \/ part = "progress" /\ Position!ProgressNext
       /\ UNCHANGED <<part, pageVars, gateVars, screenVars, threadVars, shelfVars, settingsVars, marksVars>>
    \/ part = "marks" /\ Marks!MarksNext
       /\ UNCHANGED <<part, pageVars, gateVars, screenVars, threadVars, shelfVars, settingsVars, progressVars>>
AppSpec == AppInit /\ [][AppNext]_appVars

-----------------------------------------------------------------------------
(* What the search screen, comments, bookmarks and settings show is what their *)
(* source holds, and the streams that were opened are closed or still in use. *)
ScreensTrue == /\ part = "search" => Screen!ShownIsRead /\ Screen!HandlesReleased
               /\ part = "thread" => Thread!ThreadOfPages
               /\ part = "marks" => Marks!MarksShown
               /\ part = "settings" => Settings!SettingsTrue
\* A badge counts what is new, and what was removed leaves nothing behind.
BadgesTrue == part = "shelf" => Shelf!BadgeIsNews /\ Shelf!RemovedStaysClean
\* Whatever shows a spinner is at work, and will take it away.
SpinnersDriven == /\ part = "search" => Screen!SpinnerDriven
                  /\ part = "thread" => Thread!LoadDriven
                  /\ part = "shelf" => Shelf!CheckDriven
(* The pages hold the chapter, and restoring finds the page that was left; the *)
(* position that is stored is the one the reader left, and opening keeps it.   *)
PagesTrue == /\ part = "pages" => PagesAreChapter /\ RestoresExactly
             /\ part = "progress" => Position!ProgressTrue
\* Requests stay within the allowlist and the limits, and the trace tells of them.
RequestsTrue == part = "http" => RequestsContained /\ TraceTrue
=============================================================================
