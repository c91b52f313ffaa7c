----------------------------- MODULE SearchScreen ---------------------------
(* The search screen (lib/features/feeds/search_provider.dart) over the Dart *)
(* end of a pull stream (pull_stream.dart). Every search is a run with a     *)
(* stream of its own; pages are read from it through a StreamIterator whose  *)
(* moveNext cannot be cancelled, so that the future of a page that ran out   *)
(* of time is kept for the next page.                                        *)
EXTENDS Naturals, Sequences, FiniteSets

CONSTANTS
    Feed, Item,   \* the feeds of a search, and the ids of their books
    PageSize,     \* _pageSize
    MaxRuns,      \* bound on the searches of a behaviour
    MaxEvents     \* bound on the events of one stream

VARIABLES
    token,     \* _runToken; also the number of the stream of the last search
    screen,    \* SearchState, with the number of events it has been built from
    live,      \* _iterator # null
    loader,    \* run -> its _loadPage, which awaits a moveNext, and its groups
    pump,      \* run -> where pump() of its pullStream stands
    canceled,  \* run -> the subscription was cancelled
    handles,   \* run -> native handles opened, and calls of cancel made for them
    given,     \* run -> events the native side has handed over
    taken      \* run -> events that moveNext has answered with

streams == <<pump, canceled, handles, given, taken>>
searchVars == <<token, screen, live, loader, streams>>

Run == 1..MaxRuns
Event == [feed : Feed, id : Item \cup {"error"}]
NoGroups == [f \in Feed |-> [items |-> <<>>, failed |-> FALSE]]
Blank == [groups |-> NoGroups, of |-> 0, loading |-> FALSE, more |-> FALSE,
          hasMore |-> TRUE, error |-> FALSE]
Idle == [at |-> "none", groups |-> NoGroups, of |-> 0, left |-> 0]

SearchInit == /\ token = 0 /\ screen = Blank /\ live = FALSE
              /\ loader = [r \in Run |-> Idle]
              /\ pump = [r \in Run |-> "unheard"]
              /\ canceled = [r \in Run |-> FALSE]
              /\ handles = [r \in Run |-> [opened |-> 0, closed |-> 0]]
              /\ given = [r \in Run |-> <<>>] /\ taken = [r \in Run |-> 0]

-----------------------------------------------------------------------------
(* pullStream: open, pull while the listener awaits an event, and close the  *)
(* handle once, whoever comes first (closeHandle).                           *)
Closed(r) == [handles EXCEPT ![r].closed = handles[r].opened]
Stand(r, l) == pump' = [pump EXCEPT ![r] = l]
Awaits(r) == loader[r].at # "none"

Open(r) == /\ pump[r] = "opening" /\ Stand(r, "loop")
           /\ handles' = [handles EXCEPT ![r].opened = @ + 1]
           /\ UNCHANGED <<canceled, given, taken>>
OpenFails(r) == /\ pump[r] = "opening" /\ Stand(r, "threw")
                /\ UNCHANGED <<canceled, handles, given, taken>>
Pull(r) == /\ pump[r] = "loop" /\ ~canceled[r] /\ Awaits(r) /\ Stand(r, "next")
           /\ UNCHANGED <<canceled, handles, given, taken>>
Leave(r) == /\ pump[r] = "loop" /\ canceled[r] /\ Stand(r, "closing")
            /\ UNCHANGED <<canceled, handles, given, taken>>
\* next() answers with a batch, the end or an error. After a cancel its answer
\* is dropped.
Batches(r) == {b \in {<<e>> : e \in Event} \cup (Event \X Event) :
                  Len(given[r]) + Len(b) <= MaxEvents}
Answer(r) == /\ pump[r] = "next"
             /\ \/ /\ ~canceled[r] /\ Stand(r, "loop")
                   /\ \E b \in Batches(r) : given' = [given EXCEPT ![r] = @ \o b]
                \/ Stand(r, "closing") /\ UNCHANGED given
                \/ Stand(r, "threw") /\ UNCHANGED given
             /\ UNCHANGED <<canceled, handles, taken>>

\* Mutant: a pull that threw leaves the handle open.
CloseEnded(r) == /\ pump[r] \in {"closing", "threw"}
                 /\ handles' = IF pump[r] = "threw" THEN handles ELSE Closed(r)
                 /\ Stand(r, IF pump[r] = "threw" THEN "failed" ELSE "closed")
                 /\ UNCHANGED <<canceled, given, taken>>

Close(r) == /\ pump[r] \in {"closing", "threw"}
            /\ handles' = Closed(r)
            /\ Stand(r, IF pump[r] = "threw" THEN "failed" ELSE "closed")
            /\ UNCHANGED <<canceled, given, taken>>
PumpStep(r) == /\ Open(r) \/ OpenFails(r) \/ Pull(r) \/ Leave(r) \/ Answer(r) \/ Close(r)
               /\ UNCHANGED <<token, screen, live, loader>>

-----------------------------------------------------------------------------
(* SearchNotifier *)
Spinning == screen.loading \/ screen.more
Load(r, page) == loader' = [loader EXCEPT ![r] = page]

\* _disposeIterator cancels the subscription, which closes an open handle; what
\* an abandoned stream has given is forgotten.
Dispose == /\ given' = [r \in Run |-> IF r = token THEN <<>> ELSE given[r]]
           /\ taken' = [r \in Run |-> IF r = token THEN 0 ELSE taken[r]]
           /\ canceled' = IF live THEN [canceled EXCEPT ![token] = TRUE] ELSE canceled
           /\ handles' = IF live THEN Closed(token) ELSE handles

\* search, searchAll and retry: a new token and the first page of its stream,
\* whose first moveNext makes the pump open it.
Search == /\ token < MaxRuns /\ token' = token + 1
          /\ Dispose
          /\ live' = TRUE
          /\ screen' = [Blank EXCEPT !.loading = TRUE]
          /\ Load(token + 1, [Idle EXCEPT !.at = "await", !.left = PageSize])
          /\ Stand(token + 1, "opening")
Clear == /\ token \in 1..(MaxRuns - 1) /\ token' = token + 1
         /\ Dispose
         /\ live' = FALSE /\ screen' = Blank
         /\ UNCHANGED <<loader, pump>>
LoadMore == /\ ~Spinning /\ screen.hasMore /\ live
            /\ screen' = [screen EXCEPT !.more = TRUE]
            /\ Load(token, [at |-> "await", groups |-> screen.groups, of |-> screen.of,
                            left |-> PageSize])
            /\ UNCHANGED <<token, live, streams>>

\* A page of an older run finds another token when its await is over.
Outdated(r) == /\ r # token /\ Awaits(r) /\ Load(r, Idle)
               /\ UNCHANGED <<token, screen, live, streams>>

\* The page is published at its budget, at the end of the stream, or when the
\* window that its first event opened is over; then the rest of the same page
\* goes on, with the moveNext that is under way.
Publish(page, exhausted, goesOn) ==
    screen' = [screen EXCEPT !.groups = page.groups, !.of = page.of,
                             !.loading = FALSE, !.more = goesOn, !.hasMore = ~exhausted]
Resumed(page) == [page EXCEPT !.at = "await"]
Has(g, e) == \E i \in DOMAIN g[e.feed].items : g[e.feed].items[i] = e.id
Added(g, e) == IF e.id = "error" THEN [g EXCEPT ![e.feed].failed = TRUE]
               ELSE IF Has(g, e) THEN g ELSE [g EXCEPT ![e.feed].items = Append(@, e.id)]

HasEvent(r) == taken[r] < Len(given[r])
Consume(r) ==
    LET page == [at |-> "timed", groups |-> Added(loader[r].groups, given[r][taken[r] + 1]),
                 of |-> loader[r].of + 1, left |-> loader[r].left - 1]
    IN  /\ Awaits(r) /\ r = token /\ HasEvent(r)
        /\ taken' = [taken EXCEPT ![r] = @ + 1]
        /\ IF page.left = 0 THEN Load(r, Idle) /\ Publish(page, FALSE, FALSE)
           ELSE \/ Load(r, page) /\ UNCHANGED screen
                \/ Load(r, Resumed(page)) /\ Publish(page, FALSE, TRUE)
        /\ UNCHANGED <<token, live, pump, canceled, handles, given>>

\* Mutant: the next page does not resume the moveNext of the one before.
WindowOverDropped(r) == /\ loader[r].at = "timed" /\ r = token
                        /\ Publish(loader[r], FALSE, TRUE) /\ Load(r, Resumed(loader[r]))
                        /\ taken' = [taken EXCEPT ![r] = @ + 1]
                        /\ UNCHANGED <<token, live, pump, canceled, handles, given>>

WindowOver(r) == /\ loader[r].at = "timed" /\ r = token
                 /\ Publish(loader[r], FALSE, TRUE) /\ Load(r, Resumed(loader[r]))
                 /\ UNCHANGED <<token, live, streams>>
StreamEnds(r) == /\ Awaits(r) /\ r = token /\ ~HasEvent(r) /\ pump[r] = "closed"
                 /\ Publish(loader[r], TRUE, FALSE) /\ Load(r, Idle)
                 /\ UNCHANGED <<token, live, streams>>
StreamFails(r) == /\ Awaits(r) /\ r = token /\ ~HasEvent(r) /\ pump[r] = "failed"
                  /\ screen' = [screen EXCEPT !.groups = loader[r].groups, !.of = loader[r].of,
                                  !.loading = FALSE, !.more = FALSE, !.hasMore = FALSE, !.error = TRUE]
                  /\ Load(r, Idle)
                  /\ UNCHANGED <<token, live, streams>>
LoaderStep(r) == Outdated(r) \/ Consume(r) \/ WindowOver(r) \/ StreamEnds(r) \/ StreamFails(r)

SearchNext == \/ Search \/ Clear \/ LoadMore
              \/ \E r \in Run : PumpStep(r) \/ LoaderStep(r)
-----------------------------------------------------------------------------
(* Properties *)

\* The groups that events make, in the words of the properties: each feed has
\* the first occurrence of each of its books in the order they came.
FirstAt(s, f, x) == CHOOSE i \in DOMAIN s : s[i].feed = f /\ s[i].id = x
                      /\ \A j \in 1..(i - 1) : ~(s[j].feed = f /\ s[j].id = x)
Books(s, f) == {s[i].id : i \in {j \in DOMAIN s : s[j].feed = f}} \ {"error"}
ShowsEvents(g, s) == \A f \in Feed :
    /\ g[f].failed <=> \E i \in DOMAIN s : s[i].feed = f /\ s[i].id = "error"
    /\ Len(g[f].items) = Cardinality(Books(s, f))
    /\ \A x \in Books(s, f) : \E i \in DOMAIN g[f].items : g[f].items[i] = x
    /\ \A i, j \in DOMAIN g[f].items :
          i < j => FirstAt(s, f, g[f].items[i]) < FirstAt(s, f, g[f].items[j])

\* Whatever is shown comes from the last search, is made of all the events up
\* to a point of its stream, each once, and the results are not called
\* complete before the last of them is shown ("Retain that exact future so the
\* next load resumes it without skipping an event").
ShownIsRead == live =>
    /\ screen.of <= taken[token]
    /\ ShowsEvents(screen.groups, SubSeq(given[token], 1, screen.of))
    /\ ~Spinning => screen.of = taken[token]
    /\ ~screen.hasMore => screen.of = Len(given[token]) /\ pump[token] \in {"closed", "failed"}

\* The screen says that it is loading exactly while a page of the current run
\* is being loaded: no spinner stays behind, and no second page is started.
SpinnerDriven == Spinning <=> (live /\ Awaits(token))

\* A native stream that was opened is closed once its stream is over, and a
\* cancel closes it at once unless open() was still under way; the pump then
\* does so before anything else.
HandlesReleased == \A r \in Run :
    /\ pump[r] \in {"closed", "failed"} => handles[r].closed = handles[r].opened
    /\ canceled[r] /\ pump[r] = "next" => handles[r].closed = handles[r].opened
=============================================================================
