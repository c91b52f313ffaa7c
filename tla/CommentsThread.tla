---------------------------- MODULE CommentsThread --------------------------
(* One thread of comments (comments_controller.dart): pages are asked for    *)
(* one after another by the cursor of the page before, a refresh starts over *)
(* with a new generation while a page may be on its way, and the native side *)
(* refuses a cursor that does not advance (comments_page of script/js/feed.rs). *)
EXTENDS Naturals, Sequences, FiniteSets

CONSTANTS
    Comment,   \* ids of comments
    Cursor,    \* page cursors of the source
    Start,     \* the cursor of the first page: null
    MaxGen     \* bound on refreshes

VARIABLES
    generation, loading, hasMore, error,
    cursor,     \* _cursor
    cursors,    \* _cursors: those already reached
    items,      \* the comments, in the order of arrival
    load,       \* generation -> its loadMore, and the cursor it asks with
    requests,   \* native requests that are open, by generation
    pages       \* history: the pages of this generation, [asked, ids, next]

threadVars == <<generation, loading, hasMore, error, cursor, cursors, items, load, requests, pages>>

Gen == 0..MaxGen
NoLoad == [at |-> "none", asked |-> Start]

ThreadInit == /\ generation = 0 /\ loading = FALSE /\ hasMore = TRUE /\ error = FALSE
              /\ cursor = Start /\ cursors = {} /\ items = <<>> /\ pages = <<>>
              /\ load = [g \in Gen |-> NoLoad] /\ requests = {}

Current(g) == g = generation
At(g, l) == load[g].at = l
Shown == {items[i] : i \in DOMAIN items}
thread == <<hasMore, cursor, cursors, items, pages>>

\* loadMore up to its first await.
Started == [at |-> "opening", asked |-> cursor]
LoadMore == /\ ~loading /\ hasMore
            /\ loading' = TRUE /\ error' = FALSE
            /\ load' = [load EXCEPT ![generation] = Started]
            /\ UNCHANGED <<generation, thread, requests>>

\* openCommentsPage: the request of an older generation is cancelled at once.
Opened(g) == /\ At(g, "opening")
             /\ requests' = requests \cup {g}
             /\ load' = [load EXCEPT ![g].at = IF Current(g) THEN "result" ELSE "leave"]
             /\ UNCHANGED <<generation, loading, error, thread>>
Failed(g) == error' = IF Current(g) THEN TRUE ELSE error
OpenFails(g) == /\ At(g, "opening") /\ Failed(g)
                /\ load' = [load EXCEPT ![g].at = "leave"]
                /\ UNCHANGED <<generation, loading, thread, requests>>

\* The source's page: any comments, and a cursor that is not the one it was
\* asked with.
Answer == [ids : {<<>>} \cup {<<x>> : x \in Comment} \cup {<<x, y>> : x, y \in Comment},
         next : Cursor \cup {Start}]
Advances(p, asked) == p.next = Start \/ p.next # asked

Distinct(s, x) == IF \E i \in DOMAIN s : s[i] = x THEN s ELSE Append(s, x)
WithNew(s, ids) == CASE ids = <<>> -> s
                     [] Len(ids) = 1 -> Distinct(s, ids[1])
                     [] Len(ids) = 2 -> Distinct(Distinct(s, ids[1]), ids[2])
Accept(g, p) == /\ items' = WithNew(items, p.ids)
                /\ cursor' = p.next /\ hasMore' = (p.next # Start)
                /\ cursors' = cursors \cup ({p.next} \ {Start})
                /\ pages' = Append(pages, [asked |-> load[g].asked, ids |-> p.ids, next |-> p.next])

\* Mutant: the answer of an older generation is accepted.
ResultAnyGeneration(g) ==
    /\ At(g, "result") /\ load' = [load EXCEPT ![g].at = "leave"]
    /\ \/ /\ \E p \in Answer : Advances(p, load[g].asked) /\ p.next \notin cursors /\ Accept(g, p)
          /\ UNCHANGED error
       \/ error' = TRUE /\ UNCHANGED thread
    /\ UNCHANGED <<generation, loading, requests>>

\* result(): a page, an error, or nothing of interest for an older generation.
Result(g) ==
    /\ At(g, "result") /\ load' = [load EXCEPT ![g].at = "leave"]
    /\ \/ /\ ~Current(g) /\ UNCHANGED <<error, thread>>
       \/ /\ Current(g)
          /\ \E p \in Answer : Advances(p, load[g].asked) /\ p.next \notin cursors /\ Accept(g, p)
          /\ UNCHANGED error
       \/ /\ error' = Current(g) /\ Current(g)     \* it failed, or the cursor was seen before
          /\ UNCHANGED thread
    /\ UNCHANGED <<generation, loading, requests>>

\* Mutant: the end of any load ends the spinner.
FinishAny(g) == /\ At(g, "leave")
                /\ requests' = requests \ {g}
                /\ load' = [load EXCEPT ![g] = NoLoad]
                /\ loading' = FALSE
                /\ UNCHANGED <<generation, error, thread>>

\* finally: the request is cancelled, and the load is over.
Finish(g) == /\ At(g, "leave")
             /\ requests' = requests \ {g}
             /\ load' = [load EXCEPT ![g] = NoLoad]
             /\ loading' = IF Current(g) THEN FALSE ELSE loading
             /\ UNCHANGED <<generation, error, thread>>

\* refresh: everything is forgotten and the first page asked for. The request
\* under way is told to cancel; that its answer is an error then, or was on its
\* way already, is left to Result.
Refresh == /\ generation < MaxGen /\ generation' = generation + 1
           /\ items' = <<>> /\ pages' = <<>> /\ cursors' = {} /\ cursor' = Start
           /\ hasMore' = TRUE /\ error' = FALSE /\ loading' = TRUE
           /\ load' = [load EXCEPT ![generation + 1] =
                         [at |-> "opening", asked |-> Start]]
           /\ UNCHANGED requests

ThreadNext == \/ LoadMore \/ Refresh
              \/ \E g \in Gen : Opened(g) \/ OpenFails(g) \/ Result(g) \/ Finish(g)
-----------------------------------------------------------------------------
OfPages == UNION {{pages[i].ids[j] : j \in DOMAIN pages[i].ids} : i \in DOMAIN pages}

\* The thread is what the pages of this generation say, asked for one after
\* another from the first, no cursor twice: nothing of an older generation,
\* no comment left out and none shown twice.
ThreadOfPages ==
    /\ \A i \in DOMAIN pages : pages[i].asked = IF i = 1 THEN Start ELSE pages[i - 1].next
    /\ \A i, j \in DOMAIN pages : i < j => pages[i].asked # pages[j].asked
    /\ Shown = OfPages /\ Cardinality(Shown) = Len(items)
    /\ hasMore <=> pages = <<>> \/ pages[Len(pages)].next # Start

\* The thread is loading exactly while a load of its generation is under way,
\* and every native request belongs to a load that will cancel it.
LoadDriven == /\ loading <=> load[generation].at # "none"
              /\ \A g \in requests : load[g].at \in {"result", "leave"}
=============================================================================
