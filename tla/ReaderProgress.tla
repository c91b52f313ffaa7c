--------------------------- MODULE ReaderProgress ---------------------------
(* The reading position of the book that is open: the progress notifier, the *)
(* reader's screen controller with its debounced saves, the progress actor    *)
(* with its table, and listening, which writes the same row.                  *)
(*                                                                            *)
(* A native call is sent, handled by the actor, and answered: three steps.    *)
(* Calls that are in flight together are handled in any order. What follows   *)
(* an await without another await in between is one step.                     *)
EXTENDS Naturals, FiniteSets

CONSTANTS ReadBook,      \* the books that are read and listened to
          OtherBook,     \* books of which only the detail page is opened
          ReadChapter,   \* {1, .. n}, in the order of the chapter list
          MaxCalls,      \* calls sent in a behaviour
          MaxReports,    \* positions the reader's views report
          Absent         \* no row, no book, nothing pending

VARIABLES
    progressRows,  \* reading_progress: the place of each book, or Absent
    calls,         \* native calls in flight
    sentCalls, reports, \* how many so far
    active,        \* the notifier: the book and the place it holds
    progress,      \* the notifier: the row it read or wrote last, with its book
    refused,       \* the notifier: its last call failed
    reading,       \* the reader's page: book, explicit start, phase, chapter list
    pending,       \* the screen controller: the position to save, or Absent
    lastSaved,     \* the position whose save was sent last, or Absent
    debounce,      \* the save timer runs
    listened,      \* the book whose progress listening owns, or Absent
    moved,         \* history: the reader has a reason to move the stored place
    opened,        \* history: the row of the book when its reader was opened
    stirred        \* history: what interfered since the last call of the notifier was sent:
                   \* another call that was in flight ("crossed"), or listening
progressVars == <<progressRows, calls, sentCalls, reports, active, progress, refused, reading,
                  pending, lastSaved, debounce, listened, moved, opened, stirred>>

Place(c, p) == [chapter |-> c, paragraph |-> p]
\* What the views of the reader report.
Places == {Place(c, "p") : c \in ReadChapter}
Closed == [book |-> Absent, start |-> Absent, phase |-> "closed", chapters |-> {}]

ProgressInit ==
    /\ progressRows \in {[b \in ReadBook \cup OtherBook |-> IF b = read THEN Place(2, "p") ELSE Absent] : read \in ReadBook \cup OtherBook}
    /\ calls = {} /\ sentCalls = 0 /\ reports = 0
    /\ active = [book |-> Absent, place |-> Absent] /\ progress = Absent /\ refused = FALSE
    /\ reading = Closed /\ pending = Absent /\ lastSaved = Absent /\ debounce = FALSE
    /\ listened = Absent /\ moved = FALSE /\ opened = Absent /\ stirred = {}

Slot == CHOOSE n \in 1..MaxCalls : ~\E c \in calls : c.n = n
\* A call leaves for the actor; nothing interferes with it if it is alone.
Post(call) ==
    /\ sentCalls < MaxCalls /\ sentCalls' = sentCalls + 1
    /\ calls' = calls \cup {call}
Crossing(others) == IF others = {} THEN {} ELSE {"crossed"}
Send(call) == Post(call) /\ stirred' = Crossing(calls)
Call(kind, by, b, place) ==
    [n |-> Slot, stage |-> "sent", answer |-> Absent, kind |-> kind, by |-> by, book |-> b, place |-> place]
GetCall(by, b, first) == Call("get", by, b, first)
SetCall(by, b, place) == Call("set", by, b, place)

\* The actor handles one call; the database may refuse it.
Handle(call) ==
    /\ call.stage = "sent"
    /\ \/ /\ calls' = (calls \ {call}) \cup
                      {[call EXCEPT !.stage = "done", !.answer = IF call.kind = "get" THEN progressRows[call.book] ELSE Absent]}
          /\ progressRows' = IF call.kind = "set" THEN [progressRows EXCEPT ![call.book] = call.place]
                                                  ELSE progressRows
       \/ /\ calls' = (calls \ {call}) \cup {[call EXCEPT !.stage = "failed"]}
          /\ UNCHANGED progressRows
    /\ UNCHANGED <<sentCalls, reports, active, progress, refused, reading, pending, lastSaved, debounce,
                   listened, moved, opened, stirred>>

\* load: the book is current at once, its place when the call is answered.
Load(by, b, first) ==
    /\ Send(GetCall(by, b, first))
    /\ active' = [active EXCEPT !.book = b]
    /\ refused' = FALSE

\* The detail page of a book loads its progress, its reader not being open.
DetailLoads(b) ==
    /\ reading = Closed /\ Load("detail", b, Place(1, ""))
    /\ UNCHANGED <<progressRows, reports, progress, reading, pending, lastSaved, debounce, listened, moved, opened>>

(* The reader opens, perhaps at an explicit place, and asks for the chapters. *)
(* What was on its way to the row when it opened is not the reader's doing.   *)
OpenReader(b, start) ==
    /\ reading = Closed /\ sentCalls < MaxCalls
    /\ reading' = [book |-> b, start |-> start, phase |-> "chapters", chapters |-> {}]
    /\ opened' = progressRows[b]
    /\ moved' = (start # Absent \/ progressRows[b] = Absent
                 \/ listened = b \/ \E c \in calls : c.kind = "set" /\ c.book = b)
    /\ UNCHANGED <<progressRows, calls, sentCalls, reports, active, progress, refused, pending, lastSaved,
                   debounce, listened, stirred>>
(* The page goes. A load it has sent still fills the notifier, but the rest   *)
(* of its initialize throws at the unmounted ref: the answer opens no reader. *)
Orphaned(call) == IF call.by = "reader" /\ call.kind = "get" THEN [call EXCEPT !.by = "closed"] ELSE call
CloseReader ==
    /\ reading # Closed /\ reading' = Closed
    /\ debounce' = FALSE /\ pending' = Absent /\ lastSaved' = Absent /\ opened' = Absent /\ moved' = FALSE
    /\ calls' = {Orphaned(c) : c \in calls}
    /\ UNCHANGED <<progressRows, sentCalls, reports, active, progress, refused, listened, stirred>>

FirstOf(chapters) == CHOOSE c \in chapters : \A d \in chapters : c <= d
\* The explicit start, if the book still has its chapter, or the first chapter.
Fallback(start, chapters) == IF start # Absent /\ start.chapter \in chapters THEN start
                             ELSE Place(FirstOf(chapters), "")
ChaptersArrive(chapters) ==
    /\ reading.phase = "chapters"
    /\ reading' = [reading EXCEPT !.phase = "progress", !.chapters = chapters]
    /\ Load("reader", reading.book, Fallback(reading.start, chapters))
    /\ UNCHANGED <<progressRows, reports, progress, pending, lastSaved, debounce, listened, moved, opened>>

\* onPositionChanged: the notifier follows, and a position not yet pending is saved later.
Reported(place) ==
    IF pending = place THEN UNCHANGED <<pending, debounce>>
    ELSE pending' = place /\ debounce' = TRUE

\* hydrateInitialPosition with what was read, or with the fallback.
Hydrated(call) == IF call.stage = "done" /\ call.answer # Absent THEN call.answer ELSE call.place
\* The rest of initialize: a chapter that is gone gives way to the first, and the reader starts.
StartAtChapter(place) == Place(IF place.chapter \in reading.chapters THEN place.chapter ELSE FirstOf(reading.chapters), "")
StartAt(place) == IF reading.start # Absent /\ reading.start.chapter \in reading.chapters THEN reading.start
                  ELSE IF place.chapter \in reading.chapters THEN place
                  ELSE Place(FirstOf(reading.chapters), "")
LoadAnswered(call) ==
    /\ call.kind = "get" /\ call.stage # "sent" /\ calls' = calls \ {call}
    /\ progress' = IF call.stage = "done" THEN [book |-> call.book, place |-> call.answer] ELSE progress
    /\ refused' = (call.stage = "failed")
    /\ LET place == Hydrated(call) IN
       IF call.by = "reader" /\ reading.phase = "progress" /\ reading.book = call.book
       THEN /\ reading' = [reading EXCEPT !.phase = "open"]
            /\ active' = [active EXCEPT !.place = StartAt(place)]
            /\ Reported(StartAt(place))
            /\ moved' = (moved \/ call.stage = "failed" \/ place.chapter \notin reading.chapters)
       ELSE /\ active' = [active EXCEPT !.place = place]
            /\ UNCHANGED <<reading, pending, debounce, moved>>
    /\ stirred' = stirred \cup Crossing(calls')
    /\ UNCHANGED <<progressRows, sentCalls, reports, lastSaved, listened, opened>>

\* A view reports a position; while listening owns the book only the notifier follows.
Report(place) ==
    /\ reading.phase = "open" /\ reports < MaxReports /\ reports' = reports + 1
    /\ active' = [active EXCEPT !.place = place]
    /\ IF listened = reading.book THEN UNCHANGED <<pending, debounce>> ELSE Reported(place)
    /\ moved' = TRUE /\ stirred' = stirred \cup Crossing(calls)
    /\ UNCHANGED <<progressRows, calls, sentCalls, progress, refused, reading, lastSaved, listened, opened>>

\* The timer fires: the pending position is saved unless it is the one saved last.
FlushPending ==
    /\ debounce /\ debounce' = FALSE
    /\ IF pending = Absent \/ pending = lastSaved
       THEN UNCHANGED <<calls, sentCalls, stirred, active, refused, lastSaved>>
       ELSE /\ lastSaved' = pending
            /\ active' = [book |-> reading.book, place |-> pending]
            /\ Send(SetCall("reader", reading.book, pending))
            /\ refused' = FALSE
    /\ UNCHANGED <<progressRows, reports, progress, reading, pending, listened, moved, opened>>

\* saveActive goes on: the notifier shows the position it now holds as saved.
SaveAnswered(call) ==
    /\ call.kind = "set" /\ call.stage # "sent" /\ calls' = calls \ {call}
    /\ IF call.by = "listening" THEN UNCHANGED <<progress, refused>>
       ELSE /\ progress' = IF call.stage = "done" THEN active ELSE progress
            /\ refused' = (call.stage = "failed")
    /\ UNCHANGED <<progressRows, sentCalls, reports, active, reading, pending, lastSaved, debounce,
                   listened, moved, opened, stirred>>

\* suspendProgressSaving
SuspendKept == debounce' = FALSE /\ pending' = Absent /\ UNCHANGED lastSaved
Suspend == debounce' = FALSE /\ pending' = Absent /\ lastSaved' = Absent
(* Listening reaches a paragraph: an open reader of the book drops its saves  *)
(* and follows, and listening writes the row itself.                          *)
ListeningAdvances(b, place) ==
    /\ listened \in {Absent, b} /\ listened' = b
    /\ IF reading.book = b THEN Suspend ELSE UNCHANGED <<debounce, pending, lastSaved>>
    /\ Post(SetCall("listening", b, place)) /\ stirred' = stirred \cup {"listening"} \cup Crossing(calls)
    /\ moved' = (moved \/ b = reading.book)
    /\ UNCHANGED <<progressRows, reports, active, progress, refused, reading, opened>>
ListeningStops ==
    /\ listened # Absent /\ listened' = Absent
    /\ UNCHANGED <<progressRows, calls, sentCalls, reports, active, progress, refused, reading, pending,
                   lastSaved, debounce, moved, opened, stirred>>

ProgressNext ==
    \/ \E b \in ReadBook \cup OtherBook : DetailLoads(b)
    \/ \E b \in ReadBook, s \in {Absent, Place(2, "p")} : OpenReader(b, s)
    \/ CloseReader
    \/ \E c \in ReadChapter : ChaptersArrive(1..c)
    \/ \E c \in calls : Handle(c)
    \/ \E c \in calls : LoadAnswered(c)
    \/ \E c \in calls : SaveAnswered(c)
    \/ \E p \in Places : Report(p)
    \/ FlushPending
    \/ \E b \in ReadBook, p \in {Place(2, "")} : ListeningAdvances(b, p)
    \/ ListeningStops
-----------------------------------------------------------------------------
(* A reader left in peace has its position in the table: once the timer and   *)
(* the calls have run out, the row is what the reader reported last, whatever *)
(* listening wrote to it meanwhile. (Not when calls crossed, or one failed.)  *)
SavedWhenSettled ==
    reading.phase = "open" /\ pending # Absent /\ ~debounce /\ calls = {} /\ "crossed" \notin stirred /\ ~refused
       => progressRows[reading.book] = pending
(* Opening a book and looking at it does not move its stored place: what is   *)
(* reported and saved at the start is the row that was read.                  *)
OpeningKeepsPlace ==
    reading # Closed /\ ~moved => progressRows[reading.book] = opened
(* What the notifier shows as the stored progress is the row, if nothing      *)
(* interfered with the call that read or wrote it.                            *)
ProgressShown ==
    progress # Absent /\ calls = {} /\ stirred = {} /\ ~refused /\ active.book = progress.book
       => progressRows[active.book] = progress.place
ProgressTrue == SavedWhenSettled /\ OpeningKeepsPlace /\ ProgressShown
=============================================================================
