------------------------------ MODULE FeedSearch -----------------------------
(***************************************************************************)
(* Aggregated search (OpenAggregatedSearchStream and search_one_feed of    *)
(* native/hub/src/actors/feed_actor.rs): one producer task per enabled     *)
(* feed, all sending into the one channel of a pull stream, with the       *)
(* search permits shared by every search of the session.  A stream may     *)
(* also be the search of one feed (OpenSearchStream), which has a producer *)
(* of its own and takes no permits.                                        *)
(*                                                                         *)
(* Tokio's semaphore serves its waiters first come first served, so the    *)
(* permits and the tasks waiting for one are ONE sequence, `line`: the     *)
(* first Permits tasks in it hold a permit, the others wait.               *)
(***************************************************************************)
EXTENDS PullStream

CONSTANTS
    Permits,   \* MAX_CONCURRENT_FEED_SEARCHES
    Drained    \* the streams whose caller keeps pulling until the end

ASSUME SearchAssumption ==
    /\ Permits \in Nat \ {0}
    /\ Drained \subseteq Stream

VARIABLES
    line,      \* search_permits: holders first, then the waiters in order
    stage,     \* where the task of each stream and feed stands
    failed     \* history: feeds whose resolution or search failed

searchVars == <<line, stage, failed>>
vars == <<streamVars, searchVars>>

Stage == {"single", "unresolved", "resolve", "between", "advance", "gone"}

LineRange == {line[i] : i \in DOMAIN line}

TypeOK ==
    /\ PullTypeOK
    /\ line \in Seq(Stream \X Feed)
    /\ stage \in [Stream -> [Feed -> Stage]]
    /\ failed \in [Stream -> SUBSET Feed]

\* Any subset of the installed feeds may be enabled when a search is opened,
\* and a search of one feed has that feed as its sender.
Init ==
    /\ PullInit
    /\ senders \in [Stream -> SUBSET Feed]
    /\ line = <<>>
    /\ \E single \in SUBSET {s \in Stream : \E f \in Feed : senders[s] = {f}} :
         stage = [s \in Stream |-> [f \in Feed |->
                    IF f \notin senders[s] THEN "gone"
                    ELSE IF s \in single THEN "single" ELSE "unresolved"]]
    /\ failed = [s \in Stream |-> {}]

\* s is a search of all feeds, or a cancelled search of one whose task is over.
Aggregated(s) == \A f \in Feed : stage[s][f] # "single"

ToStage(s, f, st) == stage' = [stage EXCEPT ![s][f] = st]

\* permits.acquire().await joins the line; dropping the permit leaves it.
Acquire(s, f) == line' = Append(line, <<s, f>>)

Release(s, f) == line' = SelectSeq(line, LAMBDA p : p # <<s, f>>)

Holds(s, f) == \E i \in 1 .. Len(line) : i <= Permits /\ line[i] = <<s, f>>

\* The first permit is for resolving the feed.
AwaitResolve(s, f) ==
    /\ stage[s][f] = "unresolved"
    /\ Acquire(s, f)
    /\ ToStage(s, f, "resolve")
    /\ UNCHANGED <<streamVars, failed>>

\* Mutant: a failure is logged, and no event is sent for it.
FailFeedSilent(s, f) ==
    /\ failed' = [failed EXCEPT ![s] = @ \cup {f}]
    /\ failing' = [failing EXCEPT ![s] = @ \cup {f}]
    /\ ToStage(s, f, "gone")
    /\ UNCHANGED <<chan, sent, senders>>

\* emit_feed_error, or the error of the stream: the task ends once it is sent.
FailFeed(s, f) ==
    /\ failed' = [failed EXCEPT ![s] = @ \cup {f}]
    /\ failing' = [failing EXCEPT ![s] = @ \cup {f}]
    /\ Send(s, f, "feedError")
    /\ ToStage(s, f, "gone")
    /\ UNCHANGED senders

\* GetFeed answers; the permit is dropped before anything is sent.
Resolve(s, f) ==
    /\ stage[s][f] = "resolve" /\ Holds(s, f)
    /\ Release(s, f)
    /\ \/ ToStage(s, f, "between") /\ UNCHANGED <<chan, producerVars, failed>>
       \/ FailFeed(s, f)
    /\ UNCHANGED <<cancel, readerVars>>

\* Each advance of the source queues for a permit of its own.
AwaitAdvance(s, f) ==
    /\ stage[s][f] = "between" /\ ~Parked(s, f)
    /\ Acquire(s, f)
    /\ ToStage(s, f, "advance")
    /\ UNCHANGED <<streamVars, failed>>

\* Mutant: one permit for the whole search, kept while its items are sent.
AdvanceHolding(s, f) ==
    /\ stage[s][f] = "advance" /\ Holds(s, f) /\ ~Parked(s, f)
    /\ \/ /\ ItemsOf(s, f) < MaxItems
          /\ Send(s, f, "item")
          /\ UNCHANGED <<line, stage, senders, failing, failed>>
       \/ FailFeed(s, f) /\ Release(s, f)
       \/ /\ Leave(s, f) /\ Release(s, f) /\ ToStage(s, f, "gone")
          /\ UNCHANGED <<chan, sent, failed>>
    /\ UNCHANGED <<cancel, readerVars>>

\* stream.next(): an item, an error, or the end.
Advance(s, f) ==
    /\ stage[s][f] = "advance" /\ Holds(s, f)
    /\ Release(s, f)
    /\ \/ /\ ItemsOf(s, f) < MaxItems
          /\ Send(s, f, "item")
          /\ ToStage(s, f, "between")
          /\ UNCHANGED <<senders, failing, failed>>
       \/ FailFeed(s, f)
       \/ Leave(s, f) /\ ToStage(s, f, "gone") /\ UNCHANGED <<chan, sent, failed>>
    /\ UNCHANGED <<cancel, readerVars>>

LeaveError(s, f) == LeaveFailed(s, f) /\ UNCHANGED searchVars

\* Mutant: the tasks are detached, so abort() does not reach them; they end at
\* their next send, and only if the receiver is gone.
AbandonDetached(s, f) ==
    /\ cancel[s] = "dropped"
    /\ Die(s, f)
    /\ Release(s, f)
    /\ ToStage(s, f, "gone")
    /\ UNCHANGED failed

\* An aborted task gives its permit, or its place in the line, back.
Abandon(s, f) ==
    /\ Die(s, f)
    /\ Release(s, f)
    /\ ToStage(s, f, "gone")
    /\ UNCHANGED failed

SearchStep(s, f) ==
    /\ stage[s][f] # "single"
    /\ \/ AwaitResolve(s, f) \/ Resolve(s, f)
       \/ AwaitAdvance(s, f) \/ Advance(s, f)
       \/ LeaveError(s, f) \/ Abandon(s, f)

\* drive_stream feeds the search of one feed.
DriveSingle(s, f) ==
    /\ stage[s][f] = "single"
    /\ \/ Drive(s, f) /\ UNCHANGED searchVars
       \/ LeaveError(s, f) \/ Abandon(s, f)

ReadStep(s) == ReaderStep(s) /\ UNCHANGED searchVars

CallerPulls(s) == Pull(s) /\ ~ended[s] /\ UNCHANGED searchVars

CallerLeaves(s) == s \notin Drained /\ (Cancel(s) \/ Drop(s)) /\ UNCHANGED searchVars

CancelGoesOn(s) == CancelRest(s) /\ UNCHANGED searchVars

Next ==
    \E s \in Stream :
        \/ \E f \in Feed : SearchStep(s, f) \/ DriveSingle(s, f)
        \/ ReadStep(s) \/ CallerPulls(s) \/ CallerLeaves(s) \/ CancelGoesOn(s)

\* Every task is polled, and every source of a search of all feeds answers or
\* times out; of the source of a single search nothing is assumed, not even that
\* it comes to an await, where abort() can end its task.  Of the callers,
\* only those of the Drained streams are assumed to come back for more: the
\* search screen stops pulling until the user scrolls on.
Fairness ==
    \A s \in Stream :
        /\ \A f \in Feed : WF_vars(SearchStep(s, f))
        /\ WF_vars(ReadStep(s))
        /\ WF_vars(CancelGoesOn(s))
        /\ s \in Drained => WF_vars(CallerPulls(s))

Spec == Init /\ [][Next]_vars /\ Fairness

-----------------------------------------------------------------------------
(* Properties                                                              *)

(* A failing feed is reported, once and after all its items, and no other  *)
(* feed's search is cut short by it: when an uncancelled stream ends, each *)
(* feed that failed has exactly its one error event, as its last event.    *)
ErrorsReported ==
    \A s \in Stream :
        ended[s] /\ ~Cancelled(s) =>
            \A f \in Feed :
                LET events == {i \in DOMAIN returned[s] : returned[s][i].from = f}
                    errors == {i \in events : returned[s][i].kind = "feedError"}
                IN  IF f \in failed[s] THEN \E i \in events : errors = {i} /\ \A j \in events : j <= i
                                      ELSE errors = {}

(* A search whose caller keeps pulling comes to its end, whatever the      *)
(* callers of the other searches do ("Never hold a slot while waiting for  *)
(* Flutter to consume a result ... either can starve queued sources").     *)
DrainedEnds == \A s \in Drained : Aggregated(s) => <>ended[s]

(* Cancelling a search of all feeds, or dropping its handle, ends all its  *)
(* tasks, and they keep neither a permit nor a place in the line.          *)
CancelFrees ==
    \A s \in Stream :
        Cancelled(s) /\ Aggregated(s) ~> senders[s] = {} /\ \A f \in Feed : <<s, f>> \notin LineRange

(* A cancelled stream comes to rest: its pull answers, and its tasks leave *)
(* neither a permit nor a place in the line behind.                        *)
CancelSettles == CancelWakes /\ CancelFrees
=============================================================================
