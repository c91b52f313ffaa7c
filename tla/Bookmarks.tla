----------------------------- MODULE Bookmarks ------------------------------
(* The bookmarks of the book that is read: the notifier that shows them, the  *)
(* bookmark actor and its table. A native call is sent, handled and answered; *)
(* calls in flight together are handled in any order.                         *)
EXTENDS Integers, Sequences, FiniteSets

CONSTANTS MarkBook,    \* books
          MaxMarks,    \* bookmarks ever created
          MaxMarkCalls \* calls sent in a behaviour

VARIABLES
    markRows,      \* the table: bookmarks with their id and book
    nextMark,      \* the id of the next one; ids grow with the time of creation
    markCalls,     \* native calls in flight
    markSent,      \* how many were sent
    markBook,      \* the notifier: the book of the last load, "" before
    shownMarks,    \* the notifier: the items, in their order
    crossed        \* history: calls overlapped, or a load failed, since a load began
marksVars == <<markRows, nextMark, markCalls, markSent, markBook, shownMarks, crossed>>

MarksInit == /\ markRows = {} /\ nextMark = 1 /\ markCalls = {} /\ markSent = 0
             /\ markBook = "" /\ shownMarks = <<>> /\ crossed = FALSE

\* What is in a set, in the order of its keys.
InOrder(S, key) == CHOOSE s \in [1..Cardinality(S) -> S] :
                      /\ \A x \in S : \E i \in DOMAIN s : s[i] = x
                      /\ \A i, j \in DOMAIN s : i < j => key[s[i]] < key[s[j]]

\* list_bookmarks: those of the book, newest first.
RowsOf(b) == {m \in markRows : m.book = b}
ListOf(b) == InOrder(RowsOf(b), [m \in RowsOf(b) |-> 0 - m.id])

\* A call leaves; it overlaps with the calls that are still in flight.
MarkSend(kind, b, id) ==
    /\ markSent < MaxMarkCalls /\ markSent' = markSent + 1
    /\ markCalls' = markCalls \cup {[n |-> markSent, kind |-> kind, book |-> b, id |-> id,
                                     stage |-> "sent", answer |-> <<>>]}
    /\ crossed' = (markCalls # {} \/ (crossed /\ kind # "list"))

\* load: the book is current at once, its items when the call is answered.
LoadMarks(b) == MarkSend("list", b, 0) /\ markBook' = b /\ UNCHANGED <<markRows, nextMark, shownMarks>>
\* A paragraph of the book that is read is marked.
AddMark == /\ markBook # "" /\ MarkSend("add", markBook, 0)
           /\ UNCHANGED <<markRows, nextMark, markBook, shownMarks>>
\* A bookmark in the sheet is removed.
RemoveMark(m) == MarkSend("remove", m.book, m.id) /\ UNCHANGED <<markRows, nextMark, markBook, shownMarks>>

\* The actor handles one call, or the database refuses it.
Done(call, answer) == markCalls' = (markCalls \ {call}) \cup {[call EXCEPT !.stage = "done", !.answer = answer]}
HandleMark(call) ==
    /\ call.stage = "sent"
    /\ \/ call.kind = "list" /\ Done(call, ListOf(call.book)) /\ UNCHANGED <<markRows, nextMark>>
       \/ /\ call.kind = "add" /\ nextMark <= MaxMarks
          /\ nextMark' = nextMark + 1
          /\ markRows' = markRows \cup {[id |-> nextMark, book |-> call.book]}
          /\ Done(call, <<[id |-> nextMark, book |-> call.book]>>)
       \/ /\ call.kind = "remove"
          /\ markRows' = {m \in markRows : m.id # call.id} /\ UNCHANGED nextMark
          /\ Done(call, IF \E m \in markRows : m.id = call.id THEN <<call.id>> ELSE <<>>)
       \/ /\ markCalls' = (markCalls \ {call}) \cup {[call EXCEPT !.stage = "failed"]}
          /\ UNCHANGED <<markRows, nextMark>>
    /\ UNCHANGED <<markSent, markBook, shownMarks, crossed>>

\* The new bookmark goes on top, a removed one goes, if there was one to remove.
WithNewLast(items, answer) == items \o answer
WithNew(items, answer) == answer \o items
Kept(items, id) == {i \in DOMAIN items : items[i].id # id}
Without(items, call) == IF call.answer = <<>> THEN items
                        ELSE LET kept == InOrder(Kept(items, call.id), [i \in Kept(items, call.id) |-> i])
                             IN  [k \in DOMAIN kept |-> items[kept[k]]]
Answered(call) ==
    /\ call.stage # "sent" /\ markCalls' = markCalls \ {call}
    /\ shownMarks' = IF call.stage = "failed" THEN shownMarks
                     ELSE CASE call.kind = "list" -> call.answer
                            [] call.kind = "add" -> WithNew(shownMarks, call.answer)
                            [] OTHER -> Without(shownMarks, call)
    /\ crossed' = (crossed \/ (call.stage = "failed" /\ call.kind = "list"))
    /\ UNCHANGED <<markRows, nextMark, markSent, markBook>>

MarksNext ==
    \/ \E b \in MarkBook : LoadMarks(b)
    \/ AddMark
    \/ \E i \in DOMAIN shownMarks : RemoveMark(shownMarks[i])
    \/ \E c \in markCalls : HandleMark(c)
    \/ \E c \in markCalls : Answered(c)
-----------------------------------------------------------------------------
(* Between calls the sheet shows the bookmarks of its book in the order of    *)
(* the table, unless calls overlapped or a load failed since the last one.    *)
MarksShown == markCalls = {} /\ ~crossed => shownMarks = IF markBook = "" THEN <<>> ELSE ListOf(markBook)
=============================================================================
