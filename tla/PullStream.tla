------------------------------ MODULE PullStream -----------------------------
(***************************************************************************)
(* The pull streams of native/hub/src/actors/feed_actor.rs: a producer     *)
(* task sends events through a bounded channel, the bridge pulls them in   *)
(* batches, and cancel() may come at any moment from another thread.       *)
(*                                                                         *)
(* The channel and its parked senders are ONE sequence: the first Capacity *)
(* events are buffered, and each later one belongs to a sender that is     *)
(* still waiting in send(), in Tokio's first-come order.                   *)
(*                                                                         *)
(* Drive is the one producer of a search of one feed (drive_stream);       *)
(* FeedSearch puts many producers behind the same reader, and says which   *)
(* streams there are and who sends into them.                              *)
(***************************************************************************)
EXTENDS Integers, Sequences

CONSTANTS
    Stream,     \* stream handles
    Feed,       \* feeds, each the sender of its own events
    Capacity,   \* capacity of the channel (1 in the code)
    Limit,      \* SEARCH_BATCH_SIZE
    MaxItems,   \* bound on the items one feed yields (checking only)
    None

Event == [from : Feed, kind : {"item", "feedError", "err"}]

ASSUME PullAssumption ==
    /\ Capacity \in Nat \ {0}
    /\ Limit \in Nat \ {0}
    /\ None \notin Event

VARIABLES
    chan,      \* buffered events, then those of the parked senders
    senders,   \* feeds whose sender is alive; the channel closes without any
    failing,   \* senders that stop after the event they are sending
    cancel,    \* how far cancel() has come
    reader,    \* where the pull in progress stands
    woken,     \* the reader's `notified` has fired
    batch,     \* items of the pull in progress
    pending,   \* pending_error
    ended,     \* a pull has answered None
    sent,      \* history: every event sent
    returned   \* history: every event a pull has returned

producerVars == <<senders, failing, sent>>
readerVars == <<reader, woken, batch, pending, ended, returned>>
streamVars == <<chan, cancel, producerVars, readerVars>>

CancelPc == {"none", "stored", "aborted", "notified", "dropped"}
ReaderPc == {"idle", "register", "check", "select", "await", "finish"}

PullTypeOK ==
    /\ chan \in [Stream -> Seq(Event)]
    /\ senders \in [Stream -> SUBSET Feed]
    /\ failing \in [Stream -> SUBSET Feed]
    /\ cancel \in [Stream -> CancelPc]
    /\ reader \in [Stream -> ReaderPc]
    /\ woken \in [Stream -> BOOLEAN]
    /\ batch \in [Stream -> Seq(Event)]
    /\ pending \in [Stream -> Event \cup {None}]
    /\ ended \in [Stream -> BOOLEAN]
    /\ sent \in [Stream -> Seq(Event)]
    /\ returned \in [Stream -> Seq(Event)]

\* The stream is open; who its senders are is said by its specification.
PullInit ==
    /\ chan = [s \in Stream |-> <<>>]
    /\ failing = [s \in Stream |-> {}]
    /\ cancel = [s \in Stream |-> "none"]
    /\ reader = [s \in Stream |-> "idle"]
    /\ woken = [s \in Stream |-> FALSE]
    /\ batch = [s \in Stream |-> <<>>]
    /\ pending = [s \in Stream |-> None]
    /\ ended = [s \in Stream |-> FALSE]
    /\ sent = [s \in Stream |-> <<>>]
    /\ returned = [s \in Stream |-> <<>>]

Cancelled(s) == cancel[s] # "none"
Aborted(s) == cancel[s] \in {"aborted", "notified", "dropped"}

Sent(f, kind) == [from |-> f, kind |-> kind]

\* A sender is parked in send() while its event is beyond the buffer.
ParkedAt(s, f) == {i \in Capacity + 1 .. Len(chan[s]) : chan[s][i].from = f}
Parked(s, f) == ParkedAt(s, f) # {}

\* What feed f has sent on stream s so far.
ItemsOf(s, f) == Len(SelectSeq(sent[s], LAMBDA e : e.from = f))

-----------------------------------------------------------------------------
(* Senders                                                                 *)

\* tx.send(event).await; the sender goes on once its event is buffered.
Send(s, f, kind) ==
    /\ chan' = [chan EXCEPT ![s] = Append(@, Sent(f, kind))]
    /\ sent' = [sent EXCEPT ![s] = Append(@, Sent(f, kind))]

\* The sender is dropped: its task is over.
Leave(s, f) ==
    /\ senders' = [senders EXCEPT ![s] = @ \ {f}]
    /\ failing' = [failing EXCEPT ![s] = @ \ {f}]

\* A task that has sent its error waits for room like any other, then ends.
LeaveFailed(s, f) ==
    /\ f \in failing[s] /\ ~Parked(s, f)
    /\ Leave(s, f)
    /\ UNCHANGED <<chan, cancel, sent, readerVars>>

Without(events, i) == SubSeq(events, 1, i - 1) \o SubSeq(events, i + 1, Len(events))

\* An aborted task is dropped where it waits, and its one parked event with it.
Die(s, f) ==
    /\ Aborted(s) /\ f \in senders[s]
    /\ Leave(s, f)
    /\ chan' = [chan EXCEPT ![s] = IF Parked(s, f) THEN Without(@, CHOOSE i \in ParkedAt(s, f) : TRUE) ELSE @]
    /\ UNCHANGED <<cancel, sent, readerVars>>

-----------------------------------------------------------------------------
(* The reader: next_batch and read_next                                    *)

ToReader(s, pc) == reader' = [reader EXCEPT ![s] = pc]

\* Callers of one stream queue on its state lock: one pull at a time.
Pull(s) ==
    /\ reader[s] = "idle" /\ cancel[s] # "dropped"
    /\ ToReader(s, "register")
    /\ UNCHANGED <<chan, cancel, producerVars, woken, batch, pending, ended, returned>>

\* `notified` is enabled before the flag is read.
Register(s) ==
    /\ reader[s] = "register"
    /\ woken' = [woken EXCEPT ![s] = FALSE]
    /\ ToReader(s, "check")
    /\ UNCHANGED <<chan, cancel, producerVars, batch, pending, ended, returned>>

\* A pull answers its caller.
Answer(s, events) ==
    /\ returned' = [returned EXCEPT ![s] = @ \o events]
    /\ batch' = [batch EXCEPT ![s] = <<>>]

\* Mutant: an error is returned at once, with the items before it dropped.
ReadErrorAtOnce(s, error) ==
    /\ returned' = [returned EXCEPT ![s] = Append(@, error)]
    /\ batch' = [batch EXCEPT ![s] = <<>>]
    /\ pending' = [pending EXCEPT ![s] = None]
    /\ ToReader(s, "idle")

\* An error with nothing before it is returned; after items it is deferred.
ReadError(s, error) ==
    IF batch[s] = <<>>
    THEN Answer(s, <<error>>) /\ ToReader(s, "idle") /\ pending' = [pending EXCEPT ![s] = None]
    ELSE /\ pending' = [pending EXCEPT ![s] = error]
         /\ ToReader(s, "finish")
         /\ UNCHANGED <<batch, returned>>

Check(s) ==
    /\ reader[s] = "check"
    /\ \/ Cancelled(s) /\ ToReader(s, "finish") /\ UNCHANGED <<batch, pending, returned>>
       \/ ~Cancelled(s) /\ pending[s] # None /\ ReadError(s, pending[s])
       \/ /\ ~Cancelled(s) /\ pending[s] = None
          /\ ToReader(s, "select")
          /\ UNCHANGED <<batch, pending, returned>>
    /\ UNCHANGED <<chan, cancel, producerVars, woken, ended>>

\* The select! polls both of its branches for the first time.
Poll(s) ==
    /\ reader[s] = "select"
    /\ ToReader(s, "await")
    /\ UNCHANGED <<chan, cancel, producerVars, woken, batch, pending, ended, returned>>

\* rx.recv(): the next event, which lets the first parked sender in.
Receive(s) ==
    /\ reader[s] = "await" /\ chan[s] # <<>>
    /\ chan' = [chan EXCEPT ![s] = Tail(@)]
    /\ IF Head(chan[s]).kind = "err"
       THEN ReadError(s, Head(chan[s]))
       ELSE /\ batch' = [batch EXCEPT ![s] = Append(@, Head(chan[s]))]
            /\ ToReader(s, IF Len(batch[s]) + 1 < Limit THEN "register" ELSE "finish")
            /\ UNCHANGED <<pending, returned>>
    /\ UNCHANGED <<cancel, producerVars, woken, ended>>

\* Mutant: an empty channel is taken for a closed one.
StopReadingEmpty(s) ==
    /\ reader[s] = "await"
    /\ woken[s] \/ chan[s] = <<>>
    /\ ToReader(s, "finish")
    /\ UNCHANGED <<chan, cancel, producerVars, woken, batch, pending, ended, returned>>

\* Nothing more to receive: woken by cancel(), closed, or past the deadline
\* that the first item of the batch has set.
StopReading(s) ==
    /\ reader[s] = "await"
    /\ \/ woken[s]
       \/ chan[s] = <<>> /\ senders[s] = {}
       \/ chan[s] = <<>> /\ batch[s] # <<>>
    /\ ToReader(s, "finish")
    /\ UNCHANGED <<chan, cancel, producerVars, woken, batch, pending, ended, returned>>

\* A cancelled pull answers None whatever it has collected.
FinishPull(s) ==
    /\ reader[s] = "finish"
    /\ Answer(s, IF Cancelled(s) THEN <<>> ELSE batch[s])
    /\ ended' = [ended EXCEPT ![s] = @ \/ Cancelled(s) \/ batch[s] = <<>>]
    /\ ToReader(s, "idle")
    /\ UNCHANGED <<chan, cancel, producerVars, woken, pending>>

\* cancel(): store the flag ...
Cancel(s) ==
    /\ cancel[s] = "none"
    /\ cancel' = [cancel EXCEPT ![s] = "stored"]
    /\ UNCHANGED <<chan, producerVars, readerVars>>

\* Mutant: `notified` is not enabled before the flag is read, so that it first
\* listens when select! polls it.
CancelRestLateNotified(s) ==
    /\ \/ cancel[s] = "stored" /\ cancel' = [cancel EXCEPT ![s] = "aborted"] /\ UNCHANGED woken
       \/ /\ cancel[s] = "aborted"
          /\ cancel' = [cancel EXCEPT ![s] = "notified"]
          /\ woken' = [woken EXCEPT ![s] = @ \/ reader[s] = "await"]
    /\ UNCHANGED <<chan, producerVars, reader, batch, pending, ended, returned>>

\* ... abort the producer, then notify_waiters: who is not waiting misses it.
CancelRest(s) ==
    /\ \/ cancel[s] = "stored" /\ cancel' = [cancel EXCEPT ![s] = "aborted"] /\ UNCHANGED woken
       \/ /\ cancel[s] = "aborted"
          /\ cancel' = [cancel EXCEPT ![s] = "notified"]
          /\ woken' = [woken EXCEPT ![s] = @ \/ reader[s] \in {"check", "select", "await"}]
    /\ UNCHANGED <<chan, producerVars, reader, batch, pending, ended, returned>>

\* Drop of the handle (no pull holds it): abort, and the receiver is gone.
Drop(s) ==
    /\ reader[s] = "idle" /\ cancel[s] \in {"none", "notified"}
    /\ cancel' = [cancel EXCEPT ![s] = "dropped"]
    /\ chan' = [chan EXCEPT ![s] = <<>>]
    /\ UNCHANGED <<producerVars, readerVars>>

ReaderStep(s) ==
    Register(s) \/ Check(s) \/ Poll(s) \/ Receive(s) \/ StopReading(s) \/ FinishPull(s)

-----------------------------------------------------------------------------
(* The one producer of a stream: OpenSearchStream and drive_stream         *)

\* Mutant: the producer goes on after an error.
DriveOn(s, f) ==
    /\ f \in senders[s] \ failing[s] /\ ~Parked(s, f)
    /\ \/ /\ ItemsOf(s, f) < MaxItems
          /\ \E kind \in {"item", "err"} : Send(s, f, kind)
          /\ UNCHANGED <<senders, failing>>
       \/ Leave(s, f) /\ UNCHANGED <<chan, sent>>
    /\ UNCHANGED <<cancel, readerVars>>

\* The source yields an item, an error, or its end.
Drive(s, f) ==
    /\ f \in senders[s] \ failing[s] /\ ~Parked(s, f)
    /\ \/ ItemsOf(s, f) < MaxItems /\ Send(s, f, "item") /\ UNCHANGED <<senders, failing>>
       \/ /\ Send(s, f, "err")
          /\ failing' = [failing EXCEPT ![s] = @ \cup {f}]
          /\ UNCHANGED senders
       \/ Leave(s, f) /\ UNCHANGED <<chan, sent>>
    /\ UNCHANGED <<cancel, readerVars>>

-----------------------------------------------------------------------------
(* Properties of the reader, whoever the senders are                       *)

PendingEvents(s) == IF pending[s] = None THEN <<>> ELSE <<pending[s]>>

(* Until it is cancelled, a stream loses, repeats and reorders nothing:    *)
(* what the pulls returned, the batch in progress, the deferred error and  *)
(* the channel are together what was sent (next_batch "Preserve any items  *)
(* received before a terminal error"; the deadline cuts a batch short).    *)
NothingLost ==
    \A s \in Stream :
        ~Cancelled(s) => returned[s] \o batch[s] \o PendingEvents(s) \o chan[s] = sent[s]

(* None ends the stream: only when every sender is gone and every event    *)
(* was returned, unless the stream was cancelled.                          *)
EndIsTrue ==
    \A s \in Stream :
        ended[s] /\ ~Cancelled(s) => senders[s] = {} /\ returned[s] = sent[s]

(* A producer's error is the last thing a stream delivers (drive_stream    *)
(* "On the first error the producer terminates").                          *)
ErrorIsLast ==
    \A s \in Stream : \A i \in 1 .. Len(returned[s]) - 1 : returned[s][i].kind # "err"

(* What a reader gets is the stream: all of it, in order, up to its true   *)
(* end or its one error.                                                   *)
StreamTruth == NothingLost /\ EndIsTrue /\ ErrorIsLast

(* A pull of a cancelled stream answers, even when the producer never      *)
(* yields: cancel() wakes "pending readers" and aborts the producer        *)
(* "without waiting for a pull".                                           *)
CancelWakes ==
    \A s \in Stream : Cancelled(s) /\ reader[s] # "idle" ~> reader[s] = "idle"
=============================================================================
