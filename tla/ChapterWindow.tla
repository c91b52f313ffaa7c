----------------------------- MODULE ChapterWindow ---------------------------
(***************************************************************************)
(* The reader's window of chapters:                                        *)
(*   lib/features/bookshelf/widgets/reader_chapter_window.dart,            *)
(* driven as chapter_content_manager.dart and seamless_vertical_reader.dart *)
(* drive it.  Everything runs on the UI isolate, so a method is atomic up  *)
(* to its first await: the only await is the loader's, and between the     *)
(* start of a fetch and its answer anything may happen.                    *)
(*                                                                         *)
(* Paragraphs are abstracted to the version of the chapter they show: a    *)
(* change of the transformers, or a refresh, makes a new version, and a    *)
(* fetch answers with the version current when it was started.             *)
(***************************************************************************)
EXTENDS Integers, Sequences, FiniteSets

CONSTANTS
    ChapterId,
    Lists,             \* the chapter lists the book may have over time
    ReanchorDistance,  \* _reanchorDistance
    KeepAdjacent,      \* _keepAdjacent
    MaxWindow,         \* _maxWindowChapters
    CacheCap,          \* _cacheCap
    Changes,           \* subset of {"transformers", "refresh", "chapters"}
    Refreshable,       \* bound: the chapters that are refreshed (checking only)
    MaxVersion,        \* bound on the versions of a chapter (checking only)
    MaxSame            \* bound on fetches of one chapter and version in flight

ASSUME WindowAssumption ==
    /\ Lists \subseteq Seq(ChapterId) \ {<<>>}
    /\ \A l \in Lists : \A i, j \in DOMAIN l : l[i] = l[j] => i = j
    /\ {ReanchorDistance, KeepAdjacent, CacheCap, MaxVersion} \subseteq Nat
    /\ {MaxWindow, MaxSame} \subseteq Nat \ {0}
    /\ Refreshable \subseteq ChapterId

VARIABLES
    chapters,  \* _chapters
    lo, hi,    \* _lo and _hi, counted from 1
    anchor,    \* _anchorIdx, counted from 1
    record,    \* _records: load state of each chapter of the window
    cache,     \* _cache: chapter -> the version whose paragraphs it holds
    order,     \* the keys of _cache, the oldest first
    inFlight,  \* the keys of _inFlight
    running,   \* fetches awaiting the loader, by chapter and version asked for
    active,    \* the chapter being read (the manager's _activeChapterId)
    version,   \* the version of each chapter that a fetch would now answer
    missed     \* history: chapters with a change the window may not have taken in

windowVars == <<chapters, lo, hi, anchor, record, cache, order, inFlight, running>>
vars == <<windowVars, active, version, missed>>

Version == 0 .. MaxVersion

Record == [state : {"absent", "loading", "error", "loaded"}, shows : Version]

Rec(state, v) == [state |-> state, shows |-> v]

Absent == Rec("absent", 0)

Loading == Rec("loading", 0)

TypeOK ==
    /\ chapters \in Lists
    /\ {lo, hi, anchor} \subseteq DOMAIN chapters
    /\ record \in [ChapterId -> Record]
    /\ DOMAIN cache \subseteq ChapterId /\ \A c \in DOMAIN cache : cache[c] \in Version
    /\ order \in Seq(ChapterId)
    /\ inFlight \subseteq ChapterId
    /\ running \in [ChapterId -> [Version -> 0 .. MaxSame]]
    /\ active \in ChapterId
    /\ version \in [ChapterId -> Version]
    /\ missed \subseteq ChapterId

ListIds(list, l, h) == {list[i] : i \in l .. h}

Window == ListIds(chapters, lo, hi)

Index(list, c) == CHOOSE i \in DOMAIN list : list[i] = c

Running(c) == \E v \in Version : running[c][v] > 0

-----------------------------------------------------------------------------
(* The cache, and the loads                                                *)

InCache(cch, c) == c \in DOMAIN cch

FromCache(cch, c) == IF InCache(cch, c) THEN Rec("loaded", cch[c]) ELSE Loading

Without(cch, S) == [c \in DOMAIN cch \ S |-> cch[c]]

\* The cache becomes cch, and the keys it still has keep their order.
CacheIs(cch) == cache' = cch /\ order' = SelectSeq(order, LAMBDA c : c \in DOMAIN cch)

\* _putCache: re-inserted as the newest; while over the cap, the oldest entry
\* outside the window goes.
PutCache(c, v) ==
    LET put == Append(SelectSeq(order, LAMBDA d : d # c), c)
        out == {i \in DOMAIN put : record[put[i]].state = "absent"}
        evicted == {put[i] : i \in {j \in out :
                      Cardinality({k \in out : k < j}) < Len(put) - CacheCap}}
        held == [d \in DOMAIN cache \cup {c} |-> IF d = c THEN v ELSE cache[d]]
    IN  /\ cache' = Without(held, evicted)
        /\ order' = SelectSeq(put, LAMBDA d : d \notin evicted)

\* _loadChapter on each chapter of S: one in flight is joined, a cached one is
\* shown (the callers have set its record), any other is fetched.
LoadAll(S, cch, joined, ver) ==
    LET fetched == {c \in S : c \notin joined /\ ~InCache(cch, c)}
    IN  /\ \A c \in fetched : running[c][ver[c]] < MaxSame
        /\ running' = [c \in ChapterId |->
                         IF c \in fetched THEN [running[c] EXCEPT ![ver[c]] = @ + 1]
                         ELSE running[c]]
        /\ inFlight' = joined \cup fetched

\* _resetAround: the window becomes the anchor and its neighbours.
ResetAround(list, a, cch, joined, ver) ==
    LET l == IF a > 1 THEN a - 1 ELSE a
        h == IF a < Len(list) THEN a + 1 ELSE a
        members == ListIds(list, l, h)
    IN  /\ lo' = l /\ hi' = h /\ anchor' = a
        /\ chapters' = list
        /\ CacheIs(cch)
        /\ record' = [c \in ChapterId |->
                        IF c \in members THEN FromCache(cch, c) ELSE Absent]
        /\ LoadAll(members, cch, joined, ver)

Init ==
    /\ chapters \in Lists
    /\ \E a \in DOMAIN chapters :
         LET l == IF a > 1 THEN a - 1 ELSE a
             h == IF a < Len(chapters) THEN a + 1 ELSE a
             members == ListIds(chapters, l, h)
         IN  /\ lo = l /\ hi = h /\ anchor = a
             /\ active = chapters[a]
             /\ record = [c \in ChapterId |-> IF c \in members THEN Loading ELSE Absent]
             /\ running = [c \in ChapterId |-> [v \in Version |->
                             IF c \in members /\ v = 0 THEN 1 ELSE 0]]
             /\ inFlight = members
    /\ cache = <<>> /\ order = <<>>
    /\ version = [c \in ChapterId |-> 0]
    /\ missed = {}

-----------------------------------------------------------------------------
(* What the reader view asks for                                           *)

\* A new chapter list for the book: anchored on the chapter being read, if the
\* list still has it (didUpdateWidget), else on the first.
SetChapters(list) ==
    /\ "chapters" \in Changes
    /\ LET a == IF active \in ListIds(list, 1, Len(list)) THEN Index(list, active) ELSE 1
       IN  ResetAround(list, a, <<>>, {}, version) /\ active' = list[a]
    /\ UNCHANGED <<version, missed>>

\* Mutant: the paragraph cache survives the change.
ReloadWindowCached ==
    /\ "transformers" \in Changes
    /\ \A c \in ChapterId : version[c] < MaxVersion
    /\ version' = [c \in ChapterId |-> version[c] + 1]
    /\ ResetAround(chapters, anchor, cache, inFlight, version')
    /\ missed' = missed \cup {c \in ChapterId : Running(c)}
    /\ UNCHANGED active

\* The transformers changed: reloadWindow.  The reading position is kept.
ReloadWindow ==
    /\ "transformers" \in Changes
    /\ \A c \in ChapterId : version[c] < MaxVersion
    /\ version' = [c \in ChapterId |-> version[c] + 1]
    /\ ResetAround(chapters, anchor, <<>>, inFlight, version')
    /\ missed' = missed \cup {c \in ChapterId : Running(c)}
    /\ UNCHANGED active

\* Both ends grow by one chapter, unless the chapter at that end is loading.
Expand(c) ==
    /\ record' = [record EXCEPT ![c] = FromCache(cache, c)]
    /\ LoadAll({c}, cache, inFlight, version)
    /\ UNCHANGED <<chapters, anchor, cache, order, active, version, missed>>

ExpandAbove ==
    /\ lo > 1 /\ record[chapters[lo]].state # "loading"
    /\ lo' = lo - 1
    /\ Expand(chapters[lo - 1])
    /\ UNCHANGED hi

ExpandBelow ==
    /\ hi < Len(chapters) /\ record[chapters[hi]].state # "loading"
    /\ hi' = hi + 1
    /\ Expand(chapters[hi + 1])
    /\ UNCHANGED lo

Retry(c) ==
    /\ record[c].state = "error"
    /\ IF InCache(cache, c) /\ c \notin inFlight
       THEN record' = [record EXCEPT ![c] = FromCache(cache, c)]
       ELSE record' = [record EXCEPT ![c] = Loading]
    /\ LoadAll({c}, cache, inFlight, version)
    /\ UNCHANGED <<chapters, lo, hi, anchor, cache, order, active, version, missed>>

\* A refreshed chapter: reload, which ignores a chapter outside the window, and
\* joins a load in flight unless it is forced.
Refresh(c, forceRefresh) ==
    /\ "refresh" \in Changes /\ c \in Refreshable
    /\ version[c] < MaxVersion
    /\ version' = [version EXCEPT ![c] = @ + 1]
    /\ missed' = IF Running(c) \/ c \notin Window THEN missed \cup {c} ELSE missed
    /\ IF c \in Window
       THEN LET rest == Without(cache, {c})
            IN  /\ CacheIs(rest)
                /\ record' = [record EXCEPT ![c] = Loading]
                /\ LoadAll({c}, rest, IF forceRefresh THEN inFlight \ {c} ELSE inFlight, version')
       ELSE UNCHANGED <<cache, order, record, running, inFlight>>
    /\ UNCHANGED <<chapters, lo, hi, anchor, active>>

JumpTo(c) ==
    /\ c \in ListIds(chapters, 1, Len(chapters))
    /\ active' = c
    /\ ResetAround(chapters, Index(chapters, c), cache, inFlight, version)
    /\ UNCHANGED <<version, missed>>

Distance(i, j) == IF i > j THEN i - j ELSE j - i

\* Mutant: trimming looks at the position being read only, not at the screen.
TopOkUnseen(l, a, i, visible) == l < a /\ l < i - KeepAdjacent

\* May the chapter at the top, or at the bottom, of the window go?
TopOk(l, a, i, visible) == l < a /\ l < i - KeepAdjacent /\ chapters[l] \notin visible
BottomOk(h, a, i, visible) == h > a /\ h > i + KeepAdjacent /\ chapters[h] \notin visible

\* The trimming loop of maintainAround: the end farther from the chapter being
\* read goes first, until the window fits or neither end may go.
Trimmed(a, i, visible) ==
    LET trim[e \in (DOMAIN chapters) \X (DOMAIN chapters)] ==
            IF e[2] - e[1] + 1 <= MaxWindow THEN e
            ELSE IF TopOk(e[1], a, i, visible) /\ (~BottomOk(e[2], a, i, visible) \/ i - e[1] >= e[2] - i)
                 THEN trim[<<e[1] + 1, e[2]>>]
            ELSE IF BottomOk(e[2], a, i, visible) THEN trim[<<e[1], e[2] - 1>>]
            ELSE e
    IN  trim[<<lo, hi>>]

\* The reading position moves inside the window: maintainAround.
Read(c, visible) ==
    /\ c \in Window
    /\ active' = c
    /\ LET i == Index(chapters, c)
           a == IF Distance(i, anchor) > ReanchorDistance THEN i ELSE anchor
           ends == Trimmed(a, i, visible)
       IN  /\ anchor' = a
           /\ lo' = ends[1] /\ hi' = ends[2]
           /\ record' = [d \in ChapterId |->
                           IF d \in ListIds(chapters, ends[1], ends[2]) THEN record[d] ELSE Absent]
    /\ UNCHANGED <<chapters, cache, order, inFlight, running, version, missed>>

\* Chapters on screen together: a stretch of the window around the active one.
OnScreen(c) ==
    LET i == Index(chapters, c)
    IN  {ListIds(chapters, l, h) : l \in lo .. i, h \in i .. hi}

-----------------------------------------------------------------------------
(* The loader answers: the rest of _fetch                                  *)

\* Mutant: the answer is recorded even for a chapter that left the window.
CompleteAnywhere(c, v, ok) ==
    /\ running[c][v] > 0
    /\ running' = [running EXCEPT ![c][v] = @ - 1]
    /\ inFlight' = inFlight \ {c}
    /\ IF ok THEN PutCache(c, v) ELSE UNCHANGED <<cache, order>>
    /\ record' = [record EXCEPT ![c] = IF ok THEN Rec("loaded", v) ELSE Rec("error", 0)]
    /\ UNCHANGED <<chapters, lo, hi, anchor, active, version, missed>>

\* Mutant: a failed fetch stays in _inFlight (no finally).
CompleteLeak(c, v, ok) ==
    /\ running[c][v] > 0
    /\ running' = [running EXCEPT ![c][v] = @ - 1]
    /\ inFlight' = IF ok THEN inFlight \ {c} ELSE inFlight
    /\ IF ok THEN PutCache(c, v) ELSE UNCHANGED <<cache, order>>
    /\ record' = IF record[c].state = "absent" THEN record
                 ELSE [record EXCEPT ![c] = IF ok THEN Rec("loaded", v) ELSE Rec("error", 0)]
    /\ UNCHANGED <<chapters, lo, hi, anchor, active, version, missed>>

Complete(c, v, ok) ==
    /\ running[c][v] > 0
    /\ running' = [running EXCEPT ![c][v] = @ - 1]
    /\ inFlight' = inFlight \ {c}
    /\ IF ok THEN PutCache(c, v) ELSE UNCHANGED <<cache, order>>
    /\ record' = IF record[c].state = "absent" THEN record
                 ELSE [record EXCEPT ![c] = IF ok THEN Rec("loaded", v) ELSE Rec("error", 0)]
    /\ UNCHANGED <<chapters, lo, hi, anchor, active, version, missed>>

Answer(c) == \E v \in Version, ok \in BOOLEAN : Complete(c, v, ok)

Next ==
    \/ \E list \in Lists : SetChapters(list)
    \/ ReloadWindow
    \/ ExpandAbove \/ ExpandBelow
    \/ \E c \in ChapterId :
         \/ Retry(c)
         \/ \E force \in BOOLEAN : Refresh(c, force)
         \/ JumpTo(c)
         \/ c \in Window /\ \E visible \in OnScreen(c) \cup {{}} : Read(c, visible)
         \/ Answer(c)

\* The loader answers in the end, with paragraphs or with an error.
Spec == Init /\ [][Next]_vars /\ \A c \in ChapterId : WF_vars(Answer(c))

-----------------------------------------------------------------------------
(* Properties                                                              *)

(* The load states are exactly those of the window's chapters, and the     *)
(* anchor is one of them, whatever answers arrive for chapters that were   *)
(* trimmed meanwhile ("the single source of truth for which chapters are   *)
(* rendered and what state each is in").                                   *)
WindowCovered ==
    /\ {c \in ChapterId : record[c].state # "absent"} = Window
    /\ lo <= anchor /\ anchor <= hi

(* Trimming spares what the user sees: the chapter being read and its      *)
(* neighbours, the chapters on screen and the anchor stay in the window,   *)
(* and what stays exceeds the cap only if nothing else could go            *)
(* (maintainAround).                                                       *)
TrimSpares ==
    [][UNCHANGED <<chapters, running>> /\ active' \in Window =>
       \A visible \in OnScreen(active') : Read(active', visible) =>
         LET i == Index(chapters, active')
             spared == visible \cup {chapters[anchor']}
                         \cup {chapters[j] : j \in {k \in lo .. hi : Distance(k, i) <= KeepAdjacent}}
         IN  /\ spared \subseteq Window'
             /\ hi' - lo' + 1 > MaxWindow => {chapters[lo'], chapters[hi']} \subseteq spared]_vars

(* A chapter shows its current version, unless its change was made while   *)
(* an older fetch of it was running or it was outside the window           *)
(* (reloadWindow and reload drop what is cached).                          *)
FreshUnlessMissed ==
    \A c \in Window \ missed : record[c].state = "loaded" => record[c].shows = version[c]

(* No chapter stays on its loading indicator for ever: whatever was joined *)
(* or superseded, its load settles or it leaves the window.                *)
LoadingSettles ==
    \A c \in ChapterId : record[c].state = "loading" ~> record[c].state # "loading"

-----------------------------------------------------------------------------
(* What the comments of the code say, and the code does not do             *)

(* reader_chapter_window.dart on reloadWindow: "paragraphs must be         *)
(* re-fetched"; reader_screen_controller.dart on the chapter refresh:      *)
(* "make the reader re-read the chapter so the new content actually shows". *)
NoStaleParagraphs ==
    \A c \in Window : record[c].state = "loaded" => record[c].shows = version[c]
=============================================================================
