-------------------------- MODULE FeedSearchProofs ---------------------------
(* What a search stream returns is what its producers sent, for any number   *)
(* of feeds, searches, items and permits, and however its caller leaves it.  *)
EXTENDS FeedSearch, TLAPS

StateOK == PullTypeOK /\ stage \in [Stream -> [Feed -> Stage]]

(* Who may still send on a stream: the task of a search of all feeds while   *)
(* it is in the run, the task of a search of one feed until its error.       *)
Over(s, f) == stage[s][f] = "gone" \/ (stage[s][f] = "single" /\ f \notin senders[s] \ failing[s])
Stopped(s) == \A f \in Feed : Over(s, f)
TasksOK(s) == \A f \in Feed :
    /\ stage[s][f] \notin {"single", "gone"} => f \in senders[s]
    /\ f \in failing[s] => stage[s][f] \in {"single", "gone"}
    /\ stage[s][f] = "single" => \A g \in Feed \ {f} : stage[s][g] = "gone"

\* An error was the last event, and nobody will send another.
SentOK(s) == \A i \in DOMAIN sent[s] : sent[s][i].kind = "err" => i = Len(sent[s]) /\ Stopped(s)
Joined(r, b, p, c) == r \o b \o p \o c
Flow(s) == ~Cancelled(s) => Joined(returned[s], batch[s], PendingEvents(s), chan[s]) = sent[s]
Empty(s) == batch[s] = <<>> /\ pending[s] = None /\ chan[s] = <<>>

(* Where the pull in progress stands. *)
PullOK(s) ==
    /\ reader[s] \in {"select", "await"} => pending[s] = None
    /\ pending[s] # None => pending[s].kind = "err"
    /\ woken[s] => Cancelled(s)
    /\ \A i \in DOMAIN batch[s] : batch[s][i].kind # "err"
    /\ reader[s] = "finish" /\ batch[s] = <<>> /\ ~Cancelled(s) => senders[s] = {} /\ Empty(s)
    /\ ended[s] /\ ~Cancelled(s) => senders[s] = {} /\ Empty(s)

\* A returned error is the last event: whatever is left is never returned.
Done(s) == \/ Cancelled(s) /\ reader[s] \notin {"select", "await"}
           \/ Empty(s) /\ Stopped(s)
ReturnedOK(s) == \A i \in DOMAIN returned[s] :
                    returned[s][i].kind = "err" => i = Len(returned[s]) /\ Done(s)

StreamOK(s) == TasksOK(s) /\ SentOK(s) /\ Flow(s) /\ PullOK(s) /\ ReturnedOK(s)
SearchInv == StateOK /\ \A s \in Stream : StreamOK(s)

-----------------------------------------------------------------------------
(* A step of one stream leaves the others alone.                             *)
Unmoved(s) == /\ chan'[s] = chan[s] /\ senders'[s] = senders[s] /\ failing'[s] = failing[s]
              /\ cancel'[s] = cancel[s] /\ reader'[s] = reader[s] /\ woken'[s] = woken[s]
              /\ batch'[s] = batch[s] /\ pending'[s] = pending[s] /\ ended'[s] = ended[s]
              /\ sent'[s] = sent[s] /\ returned'[s] = returned[s] /\ stage'[s] = stage[s]

LEMMA UnmovedOK ==
    ASSUME NEW s \in Stream, StreamOK(s), Unmoved(s)
    PROVE  StreamOK(s)'
  <1> USE DEF Unmoved
  <1>1. (Cancelled(s)' <=> Cancelled(s)) /\ (Stopped(s)' <=> Stopped(s)) /\ (Empty(s)' <=> Empty(s))
        /\ PendingEvents(s)' = PendingEvents(s)
    BY DEF Cancelled, Stopped, Over, Empty, PendingEvents
  <1>2. TasksOK(s)'
    BY DEF StreamOK, TasksOK
  <1>3. SentOK(s)'
    BY <1>1 DEF StreamOK, SentOK
  <1>4. Flow(s)'
    BY <1>1 DEF StreamOK, Flow
  <1>5. PullOK(s)'
    BY <1>1 DEF StreamOK, PullOK
  <1>6. Done(s)' <=> Done(s)
    BY <1>1 DEF Done
  <1>7. ReturnedOK(s)'
    BY <1>6 DEF StreamOK, ReturnedOK
  <1>8. QED
    BY <1>2, <1>3, <1>4, <1>5, <1>7 DEF StreamOK

-----------------------------------------------------------------------------
(* Sequences of events.                                                      *)
LEMMA AppendLast ==
    ASSUME NEW S, NEW a \in Seq(S), NEW b \in Seq(S), NEW e \in S
    PROVE  a \o Append(b, e) = Append(a \o b, e)
  OBVIOUS

LEMMA MoveHead ==
    ASSUME NEW S, NEW a \in Seq(S), NEW b \in Seq(S), b # <<>>
    PROVE  a \o b = Append(a, Head(b)) \o Tail(b)
  OBVIOUS

LEMMA JoinEmpty ==
    ASSUME NEW S, NEW a \in Seq(S)
    PROVE  a \o <<>> = a
  OBVIOUS

LEMMA JoinOne ==
    ASSUME NEW S, NEW a \in Seq(S), NEW e \in S
    PROVE  a \o <<e>> = Append(a, e)
  OBVIOUS

LEMMA JoinedTakes ==
    ASSUME NEW S, NEW r \in Seq(S), NEW b \in Seq(S), NEW c \in Seq(S), c # <<>>
    PROVE  /\ Joined(r, Append(b, Head(c)), <<>>, Tail(c)) = Joined(r, b, <<>>, c)
           /\ Joined(r, b, <<Head(c)>>, Tail(c)) = Joined(r, b, <<>>, c)
  <1> DEFINE front == r \o b
  <1>1. front \in Seq(S) /\ Head(c) \in S /\ Append(b, Head(c)) \in Seq(S) /\ r \o Append(b, Head(c)) \in Seq(S)
    OBVIOUS
  <1>2. r \o Append(b, Head(c)) = Append(front, Head(c))
    BY <1>1, AppendLast
  <1>3. /\ front \o <<>> = front /\ (r \o Append(b, Head(c))) \o <<>> = r \o Append(b, Head(c))
        /\ front \o <<Head(c)>> = Append(front, Head(c))
    <2> HIDE DEF front
    <2>1. QED
      BY <1>1, JoinEmpty, JoinOne
  <1>4. front \o c = Append(front, Head(c)) \o Tail(c)
    <2> HIDE DEF front
    <2>1. QED
      BY <1>1, MoveHead
  <1>5. QED
    BY <1>2, <1>3, <1>4 DEF Joined

LEMMA JoinedNothing ==
    ASSUME NEW S, NEW r \in Seq(S), NEW c \in Seq(S)
    PROVE  Joined(r, <<>>, <<>>, c) = r \o c
  BY JoinEmpty DEF Joined

LEMMA JoinedError ==
    ASSUME NEW S, NEW r \in Seq(S), NEW c \in Seq(S), NEW e \in S
    PROVE  Joined(r, <<>>, <<e>>, c) = Append(r, e) \o c
  BY JoinEmpty, JoinOne DEF Joined

LEMMA JoinedAnswers ==
    ASSUME NEW S, NEW r \in Seq(S), NEW b \in Seq(S), NEW p, NEW c
    PROVE  Joined(r \o b, <<>>, p, c) = Joined(r, b, p, c)
  <1> DEFINE front == r \o b
  <1>1. front \in Seq(S)
    OBVIOUS
  <1>2. front \o <<>> = front
    <2> HIDE DEF front
    <2>1. QED
      BY <1>1, JoinEmpty
  <1>3. QED
    BY <1>2 DEF Joined

(* The same of the sequences of a stream.                                    *)
LEMMA StreamSends ==
    ASSUME StateOK, NEW s \in Stream, NEW e \in Event
    PROVE  Joined(returned[s], batch[s], PendingEvents(s), Append(chan[s], e))
             = Append(Joined(returned[s], batch[s], PendingEvents(s), chan[s]), e)
  <1>1. /\ chan[s] \in Seq(Event) /\ batch[s] \in Seq(Event) /\ returned[s] \in Seq(Event)
        /\ PendingEvents(s) \in Seq(Event)
    BY DEF StateOK, PullTypeOK, PendingEvents
  <1> DEFINE front == returned[s] \o batch[s] \o PendingEvents(s)
  <1>2. front \in Seq(Event)
    BY <1>1
  <1>3. front \o Append(chan[s], e) = Append(front \o chan[s], e)
    <2> HIDE DEF front
    <2>1. QED
      BY <1>1, <1>2, AppendLast
  <1>4. QED
    BY <1>3 DEF Joined

LEMMA StreamError ==
    ASSUME StateOK, NEW s \in Stream, NEW e \in Event
    PROVE  Joined(returned[s], <<>>, <<e>>, chan[s]) = Append(returned[s], e) \o chan[s]
  <1>1. chan[s] \in Seq(Event) /\ returned[s] \in Seq(Event)
    BY DEF StateOK, PullTypeOK
  <1>2. QED
    BY <1>1, JoinedError

LEMMA StreamAnswers ==
    ASSUME StateOK, NEW s \in Stream
    PROVE  Joined(returned[s] \o batch[s], <<>>, PendingEvents(s), chan[s])
             = Joined(returned[s], batch[s], PendingEvents(s), chan[s])
  <1>1. batch[s] \in Seq(Event) /\ returned[s] \in Seq(Event)
    BY DEF StateOK, PullTypeOK
  <1>2. QED
    BY <1>1, JoinedAnswers

LEMMA StreamTakes ==
    ASSUME StateOK, NEW s \in Stream, chan[s] # <<>>
    PROVE  /\ Joined(returned[s], Append(batch[s], Head(chan[s])), <<>>, Tail(chan[s]))
                = Joined(returned[s], batch[s], <<>>, chan[s])
           /\ Joined(returned[s], batch[s], <<Head(chan[s])>>, Tail(chan[s]))
                = Joined(returned[s], batch[s], <<>>, chan[s])
  <1>1. chan[s] \in Seq(Event) /\ batch[s] \in Seq(Event) /\ returned[s] \in Seq(Event)
    BY DEF StateOK, PullTypeOK
  <1>2. QED
    BY <1>1, JoinedTakes

LEMMA StreamHead ==
    ASSUME StateOK, NEW s \in Stream, chan[s] # <<>>
    PROVE  /\ Tail(chan[s]) \in Seq(Event)
           /\ returned[s] \o chan[s] = Append(returned[s], Head(chan[s])) \o Tail(chan[s])
  <1>1. chan[s] \in Seq(Event) /\ returned[s] \in Seq(Event)
    BY DEF StateOK, PullTypeOK
  <1>2. Tail(chan[s]) \in Seq(Event)
    BY <1>1
  <1>3. \A r, c \in Seq(Event) : c # <<>> => r \o c = Append(r, Head(c)) \o Tail(c)
    BY MoveHead
  <1>4. QED
    BY <1>1, <1>2, <1>3

LEMMA NoErrorJoined ==
    ASSUME NEW a \in Seq(Event), NEW b \in Seq(Event),
           \A i \in DOMAIN a : a[i].kind # "err", \A i \in DOMAIN b : b[i].kind # "err"
    PROVE  \A i \in DOMAIN (a \o b) : (a \o b)[i].kind # "err"
  OBVIOUS

-----------------------------------------------------------------------------
(* Sending.                                                                  *)
\* The tasks of s stay in order and an event is added to its channel.
Sends(s, f, kind) ==
    /\ chan'[s] = Append(chan[s], Sent(f, kind)) /\ sent'[s] = Append(sent[s], Sent(f, kind))
    /\ cancel'[s] = cancel[s] /\ reader'[s] = reader[s] /\ woken'[s] = woken[s] /\ batch'[s] = batch[s]
    /\ pending'[s] = pending[s] /\ ended'[s] = ended[s] /\ returned'[s] = returned[s]

LEMMA SendsOK ==
    ASSUME StateOK, NEW s \in Stream, StreamOK(s), NEW f \in Feed, NEW kind \in {"item", "feedError", "err"},
           Sends(s, f, kind), ~Over(s, f), TasksOK(s)', senders'[s] = senders[s],
           kind = "err" => Stopped(s)'
    PROVE  StreamOK(s)'
  <1> DEFINE e == Sent(f, kind)
  <1>1. e \in Event /\ e.kind = kind
    BY DEF Sent, Event
  <1>2. /\ chan[s] \in Seq(Event) /\ sent[s] \in Seq(Event) /\ batch[s] \in Seq(Event) /\ returned[s] \in Seq(Event)
        /\ PendingEvents(s) \in Seq(Event)
    BY DEF StateOK, PullTypeOK, PendingEvents
  <1>3. ~Stopped(s) /\ f \in senders[s]
    BY DEF Stopped, Over, StreamOK, TasksOK
  <1>4. \A i \in DOMAIN sent[s] : sent[s][i].kind # "err"
    BY <1>3 DEF StreamOK, SentOK
  <1>5. SentOK(s)'
    <2> HIDE DEF e
    <2>1. /\ DOMAIN sent'[s] = DOMAIN sent[s] \cup {Len(sent[s]) + 1} /\ Len(sent'[s]) = Len(sent[s]) + 1
          /\ \A i \in DOMAIN sent[s] : sent'[s][i] = sent[s][i]
          /\ sent'[s][Len(sent[s]) + 1] = e
      BY <1>1, <1>2 DEF Sends, e
    <2>2. QED
      BY <1>1, <1>4, <2>1 DEF SentOK
  <1>6. Flow(s)'
    <2>1. ~Cancelled(s) => Joined(returned[s], batch[s], PendingEvents(s), Append(chan[s], e)) = Append(sent[s], e)
      <3> HIDE DEF e
      <3>1. QED
        BY <1>1, StreamSends DEF StreamOK, Flow
    <2>2. PendingEvents(s)' = PendingEvents(s) /\ (Cancelled(s)' <=> Cancelled(s))
      BY DEF Sends, PendingEvents, Cancelled
    <2>3. QED
      BY <2>1, <2>2 DEF Sends, Flow
  <1>7. PullOK(s)'
    BY <1>3 DEF StreamOK, PullOK, Sends, Cancelled
  <1>8. ReturnedOK(s)'
    <2>1. \A i \in DOMAIN returned[s] : returned[s][i].kind = "err" =>
              i = Len(returned[s]) /\ Cancelled(s) /\ reader[s] \notin {"select", "await"}
      BY <1>3 DEF StreamOK, ReturnedOK, Done
    <2>2. QED
      BY <2>1 DEF ReturnedOK, Done, Sends, Cancelled
  <1>9. QED
    BY <1>5, <1>6, <1>7, <1>8 DEF StreamOK

\* A task goes on without sending, or ends; what the stream holds stays.
Ends(s) ==
    /\ senders'[s] \subseteq senders[s]
    /\ sent'[s] = sent[s] /\ cancel'[s] = cancel[s] /\ reader'[s] = reader[s] /\ woken'[s] = woken[s]
    /\ batch'[s] = batch[s] /\ pending'[s] = pending[s] /\ ended'[s] = ended[s] /\ returned'[s] = returned[s]

LEMMA EndsOK ==
    ASSUME StateOK, NEW s \in Stream, StreamOK(s), Ends(s), TasksOK(s)',
           Stopped(s) => Stopped(s)',
           chan'[s] = chan[s] \/ (Cancelled(s) /\ chan[s] # <<>>)
    PROVE  StreamOK(s)'
  <1>1. (Cancelled(s)' <=> Cancelled(s)) /\ PendingEvents(s)' = PendingEvents(s)
    BY DEF Ends, Cancelled, PendingEvents
  <1>2. SentOK(s)'
    BY DEF StreamOK, SentOK, Ends
  <1>3. Flow(s)'
    BY <1>1 DEF StreamOK, Flow, Ends
  <1>4. PullOK(s)'
    BY <1>1 DEF StreamOK, PullOK, Empty, Ends
  <1>5. Done(s) => Done(s)'
    BY <1>1 DEF Done, Empty, Ends
  <1>6. ReturnedOK(s)'
    BY <1>5 DEF StreamOK, ReturnedOK, Ends
  <1>7. QED
    BY <1>2, <1>3, <1>4, <1>6 DEF StreamOK

(* The senders are left alone by the steps of the reader.                    *)
Reads(s) == /\ senders'[s] = senders[s] /\ failing'[s] = failing[s] /\ stage'[s] = stage[s]
            /\ sent'[s] = sent[s] /\ cancel'[s] = cancel[s]

LEMMA ReadsOK ==
    ASSUME NEW s \in Stream, StreamOK(s), Reads(s)
    PROVE  /\ TasksOK(s)' /\ SentOK(s)' /\ (Cancelled(s)' <=> Cancelled(s)) /\ (Stopped(s)' <=> Stopped(s))
  <1>1. (Cancelled(s)' <=> Cancelled(s)) /\ (Stopped(s)' <=> Stopped(s))
    BY DEF Reads, Cancelled, Stopped, Over
  <1>2. TasksOK(s)' /\ SentOK(s)'
    BY <1>1 DEF Reads, StreamOK, TasksOK, SentOK
  <1>3. QED
    BY <1>1, <1>2

(* Steps of the reader that only move it: what is in the stream stays.       *)
StreamSame(s) == /\ chan'[s] = chan[s] /\ batch'[s] = batch[s] /\ pending'[s] = pending[s]
                 /\ returned'[s] = returned[s] /\ ended'[s] = ended[s]

LEMMA MovesOK ==
    ASSUME NEW s \in Stream, StreamOK(s), Reads(s), StreamSame(s),
           woken'[s] => Cancelled(s),
           reader'[s] \in {"select", "await"} =>
               pending[s] = None /\ (reader[s] \in {"select", "await"} \/ ~Cancelled(s)),
           reader'[s] = "finish" /\ batch[s] = <<>> /\ ~Cancelled(s) => senders[s] = {} /\ Empty(s)
    PROVE  StreamOK(s)'
  <1>1. TasksOK(s)' /\ SentOK(s)' /\ (Cancelled(s)' <=> Cancelled(s)) /\ (Stopped(s)' <=> Stopped(s))
    BY ReadsOK
  <1>2. (Empty(s)' <=> Empty(s)) /\ PendingEvents(s)' = PendingEvents(s)
    BY DEF Empty, StreamSame, PendingEvents
  <1>3. Flow(s)'
    BY <1>1, <1>2 DEF StreamOK, Flow, Reads, StreamSame
  <1>4. PullOK(s)'
    BY <1>1, <1>2 DEF StreamOK, PullOK, Reads, StreamSame
  <1>5. Done(s) => Done(s)'
    BY <1>1, <1>2 DEF Done
  <1>6. ReturnedOK(s)'
    BY <1>5 DEF StreamOK, ReturnedOK, StreamSame
  <1>7. QED
    BY <1>1, <1>3, <1>4, <1>6 DEF StreamOK

(* The first event of the channel joins the batch.                           *)
LEMMA TakesOK ==
    ASSUME StateOK, NEW s \in Stream, StreamOK(s), Reads(s), reader[s] = "await", chan[s] # <<>>,
           Head(chan[s]).kind # "err",
           chan'[s] = Tail(chan[s]), batch'[s] = Append(batch[s], Head(chan[s])),
           pending'[s] = pending[s], returned'[s] = returned[s], ended'[s] = ended[s],
           woken'[s] = woken[s], reader'[s] \in {"register", "finish"}
    PROVE  StreamOK(s)'
  <1> DEFINE e == Head(chan[s])
  <1>1. TasksOK(s)' /\ SentOK(s)' /\ (Cancelled(s)' <=> Cancelled(s)) /\ (Stopped(s)' <=> Stopped(s))
    BY ReadsOK
  <1>2. pending[s] = None /\ PendingEvents(s) = <<>> /\ PendingEvents(s)' = <<>>
    BY DEF StreamOK, PullOK, PendingEvents
  <1>3. /\ chan[s] \in Seq(Event) /\ batch[s] \in Seq(Event) /\ returned[s] \in Seq(Event)
        /\ e \in Event /\ Tail(chan[s]) \in Seq(Event)
    BY DEF StateOK, PullTypeOK
  <1>4. Flow(s)'
    <2>1. Joined(returned[s], Append(batch[s], e), <<>>, Tail(chan[s])) = Joined(returned[s], batch[s], <<>>, chan[s])
      BY StreamTakes
    <2>2. QED
      BY <1>1, <1>2, <2>1 DEF StreamOK, Flow, Reads
  <1>5. \A i \in DOMAIN batch'[s] : batch'[s][i].kind # "err"
    BY <1>3 DEF StreamOK, PullOK
  <1>6. batch'[s] # <<>>
    BY <1>3
  <1>7. PullOK(s)'
    BY <1>1, <1>2, <1>5, <1>6 DEF StreamOK, PullOK, Empty
  <1>8. ~Done(s)
    BY DEF Done, Empty
  <1>9. ReturnedOK(s)'
    BY <1>8 DEF StreamOK, ReturnedOK
  <1>10. QED
    BY <1>1, <1>4, <1>7, <1>9 DEF StreamOK

(* An error is taken from the channel, or was pending: with a batch before   *)
(* it, it is deferred ...                                                    *)
LEMMA DefersOK ==
    ASSUME StateOK, NEW s \in Stream, StreamOK(s), Reads(s), batch[s] # <<>>, NEW error \in Event, error.kind = "err",
           \/ reader[s] = "await" /\ chan[s] # <<>> /\ error = Head(chan[s]) /\ chan'[s] = Tail(chan[s])
           \/ ~Cancelled(s) /\ pending[s] = error /\ chan'[s] = chan[s],
           batch'[s] = batch[s], pending'[s] = error, returned'[s] = returned[s], ended'[s] = ended[s],
           woken'[s] = woken[s], reader'[s] = "finish"
    PROVE  StreamOK(s)'
  <1>1. TasksOK(s)' /\ SentOK(s)' /\ (Cancelled(s)' <=> Cancelled(s)) /\ (Stopped(s)' <=> Stopped(s))
    BY ReadsOK
  <1>2. /\ chan[s] \in Seq(Event) /\ batch[s] \in Seq(Event) /\ returned[s] \in Seq(Event) /\ error # None
    BY PullAssumption DEF StateOK, PullTypeOK
  <1>3. PendingEvents(s)' = <<error>>
    BY <1>2 DEF PendingEvents
  <1>4. Flow(s)'
    <2>1. CASE reader[s] = "await" /\ chan[s] # <<>> /\ error = Head(chan[s]) /\ chan'[s] = Tail(chan[s])
      <3>1. PendingEvents(s) = <<>>
        BY <2>1 DEF StreamOK, PullOK, PendingEvents
      <3>2. Joined(returned[s], batch[s], <<error>>, Tail(chan[s])) = Joined(returned[s], batch[s], <<>>, chan[s])
        BY <2>1, StreamTakes
      <3>3. QED
        BY <1>1, <1>3, <2>1, <3>1, <3>2 DEF StreamOK, Flow, Reads
    <2>2. CASE pending[s] = error /\ chan'[s] = chan[s]
      BY <1>1, <1>2, <1>3, <2>2 DEF StreamOK, Flow, Reads, PendingEvents
    <2>3. QED
      BY <2>1, <2>2
  <1>5. PullOK(s)'
    BY <1>1 DEF StreamOK, PullOK, Empty
  <1>6. ASSUME Done(s)
        PROVE  Cancelled(s) /\ reader[s] \notin {"select", "await"}
    BY <1>2, <1>6 DEF Done, Empty
  <1>7. ReturnedOK(s)'
    BY <1>1, <1>6 DEF StreamOK, ReturnedOK, Done
  <1>8. QED
    BY <1>1, <1>4, <1>5, <1>7 DEF StreamOK

(* ... and with nothing before it, it is returned.                           *)
LEMMA ReturnsOK ==
    ASSUME StateOK, NEW s \in Stream, StreamOK(s), Reads(s), batch[s] = <<>>, NEW error \in Event, error.kind = "err",
           \/ reader[s] = "await" /\ chan[s] # <<>> /\ error = Head(chan[s]) /\ chan'[s] = Tail(chan[s])
           \/ ~Cancelled(s) /\ pending[s] = error /\ chan'[s] = chan[s],
           batch'[s] = <<>>, pending'[s] = None, returned'[s] = Append(returned[s], error), ended'[s] = ended[s],
           woken'[s] = woken[s], reader'[s] = "idle"
    PROVE  StreamOK(s)'
  <1>1. TasksOK(s)' /\ SentOK(s)' /\ (Cancelled(s)' <=> Cancelled(s)) /\ (Stopped(s)' <=> Stopped(s))
    BY ReadsOK
  <1>2. /\ chan[s] \in Seq(Event) /\ sent[s] \in Seq(Event) /\ returned[s] \in Seq(Event) /\ error # None
        /\ PendingEvents(s)' = <<>>
    BY PullAssumption DEF StateOK, PullTypeOK, PendingEvents
  <1>3. PICK rest \in Seq(Event) : chan'[s] = rest /\ (~Cancelled(s) => Append(returned[s], error) \o rest = sent[s])
    <2>1. CASE reader[s] = "await" /\ chan[s] # <<>> /\ error = Head(chan[s]) /\ chan'[s] = Tail(chan[s])
      <3>1. PendingEvents(s) = <<>>
        BY <2>1 DEF StreamOK, PullOK, PendingEvents
      <3>2. Joined(returned[s], <<>>, <<>>, chan[s]) = returned[s] \o chan[s]
        BY <1>2, JoinedNothing
      <3>3. ~Cancelled(s) => returned[s] \o chan[s] = sent[s]
        BY <3>1, <3>2 DEF StreamOK, Flow
      <3>4. Tail(chan[s]) \in Seq(Event) /\ returned[s] \o chan[s] = Append(returned[s], error) \o Tail(chan[s])
        BY <2>1, StreamHead
      <3>5. QED
        BY <2>1, <3>3, <3>4
    <2>2. CASE ~Cancelled(s) /\ pending[s] = error /\ chan'[s] = chan[s]
      <3>1. PendingEvents(s) = <<error>>
        BY <1>2, <2>2 DEF PendingEvents
      <3>2. Joined(returned[s], <<>>, <<error>>, chan[s]) = Append(returned[s], error) \o chan[s]
        BY StreamError
      <3>3. QED
        BY <1>2, <2>2, <3>1, <3>2 DEF StreamOK, Flow
    <2>3. QED
      BY <2>1, <2>2
  <1>4. Flow(s)'
    <2>1. Joined(Append(returned[s], error), <<>>, <<>>, rest) = Append(returned[s], error) \o rest
      <3>1. Append(returned[s], error) \in Seq(Event)
        BY <1>2
      <3>2. QED
        BY <3>1, JoinedNothing
    <2>2. QED
      BY <1>1, <1>2, <1>3, <2>1 DEF Flow, Reads
  <1>5. ASSUME ~Cancelled(s)
        PROVE  rest = <<>> /\ Stopped(s)
    <2>1. sent[s] = Append(returned[s], error) \o rest
      BY <1>3, <1>5
    <2>2. /\ Len(returned[s]) + 1 \in DOMAIN sent[s] /\ sent[s][Len(returned[s]) + 1] = error
          /\ Len(sent[s]) = Len(returned[s]) + 1 + Len(rest)
      BY <1>2, <2>1
    <2>3. Stopped(s) /\ Len(returned[s]) + 1 = Len(sent[s])
      BY <2>2 DEF StreamOK, SentOK
    <2>4. Len(rest) = 0
      BY <1>2, <2>2, <2>3
    <2>5. QED
      BY <2>3, <2>4
  <1>6. \A i \in DOMAIN returned[s] : returned[s][i].kind # "err"
    <2>1. ASSUME Done(s)
          PROVE  FALSE
      <3>1. ~Empty(s)
        BY <1>2 DEF Empty
      <3>2. QED
        BY <2>1, <3>1 DEF Done
    <2>2. QED
      BY <2>1 DEF StreamOK, ReturnedOK
  <1>7. PullOK(s)'
    <2>1. ended[s] /\ ~Cancelled(s) => FALSE
      BY <1>2 DEF StreamOK, PullOK, Empty
    <2>2. QED
      BY <1>1, <2>1 DEF StreamOK, PullOK, Empty
  <1>8. Done(s)'
    BY <1>1, <1>3, <1>5 DEF Done, Empty
  <1>9. ReturnedOK(s)'
    BY <1>2, <1>6, <1>8 DEF ReturnedOK
  <1>10. QED
    BY <1>1, <1>4, <1>7, <1>9 DEF StreamOK

(* The pull answers with its batch, or with nothing when it was cancelled.   *)
LEMMA AnswersOK ==
    ASSUME StateOK, NEW s \in Stream, StreamOK(s), Reads(s), reader[s] = "finish",
           returned'[s] = returned[s] \o (IF Cancelled(s) THEN <<>> ELSE batch[s]), batch'[s] = <<>>,
           chan'[s] = chan[s], pending'[s] = pending[s], woken'[s] = woken[s], reader'[s] = "idle",
           ended'[s] = (ended[s] \/ Cancelled(s) \/ batch[s] = <<>>)
    PROVE  StreamOK(s)'
  <1>1. TasksOK(s)' /\ SentOK(s)' /\ (Cancelled(s)' <=> Cancelled(s)) /\ (Stopped(s)' <=> Stopped(s))
    BY ReadsOK
  <1>2. /\ chan[s] \in Seq(Event) /\ batch[s] \in Seq(Event) /\ returned[s] \in Seq(Event)
        /\ PendingEvents(s) \in Seq(Event) /\ PendingEvents(s)' = PendingEvents(s)
    BY DEF StateOK, PullTypeOK, PendingEvents
  <1>3. Flow(s)'
    <2>1. Joined(returned[s] \o batch[s], <<>>, PendingEvents(s), chan[s])
            = Joined(returned[s], batch[s], PendingEvents(s), chan[s])
      BY StreamAnswers
    <2>2. QED
      BY <1>1, <1>2, <2>1 DEF StreamOK, Flow, Reads
  <1>4. PullOK(s)'
    <2>1. ended'[s] /\ ~Cancelled(s) => senders[s] = {} /\ Empty(s)
      <3>1. CASE ended[s]
        BY <3>1 DEF StreamOK, PullOK
      <3>2. CASE batch[s] = <<>>
        BY <3>2 DEF StreamOK, PullOK
      <3>3. QED
        BY <3>1, <3>2
    <2>2. Empty(s) => Empty(s)'
      BY DEF Empty
    <2>3. QED
      BY <1>1, <2>1, <2>2 DEF StreamOK, PullOK, Reads
  <1>5. ReturnedOK(s)'
    <2>1. CASE Cancelled(s)
      BY <1>1, <1>2, <2>1 DEF StreamOK, ReturnedOK, Done
    <2>2. CASE ~Cancelled(s) /\ batch[s] = <<>>
      <3>1. returned'[s] = returned[s]
        BY <1>2, <2>2
      <3>2. Done(s) => Done(s)'
        BY <1>1, <2>2 DEF Done, Empty
      <3>3. QED
        BY <3>1, <3>2 DEF StreamOK, ReturnedOK
    <2>3. CASE ~Cancelled(s) /\ batch[s] # <<>>
      <3>1. ~Done(s)
        BY <2>3 DEF Done, Empty
      <3>2. \A i \in DOMAIN returned[s] : returned[s][i].kind # "err"
        BY <3>1 DEF StreamOK, ReturnedOK
      <3>3. \A i \in DOMAIN batch[s] : batch[s][i].kind # "err"
        BY DEF StreamOK, PullOK
      <3>4. \A i \in DOMAIN (returned[s] \o batch[s]) : (returned[s] \o batch[s])[i].kind # "err"
        BY <1>2, <3>2, <3>3, NoErrorJoined
      <3>5. QED
        BY <2>3, <3>4 DEF ReturnedOK
    <2>4. QED
      BY <2>1, <2>2, <2>3
  <1>6. QED
    BY <1>1, <1>3, <1>4, <1>5 DEF StreamOK

(* Cancelled, a stream promises less.                                        *)
LEMMA CancelsOK ==
    ASSUME NEW s \in Stream, StreamOK(s), cancel'[s] # "none", senders'[s] = senders[s], failing'[s] = failing[s],
           stage'[s] = stage[s], sent'[s] = sent[s], returned'[s] = returned[s], batch'[s] = batch[s],
           pending'[s] = pending[s], reader'[s] = reader[s], ended'[s] = ended[s],
           chan'[s] = chan[s] \/ chan'[s] = <<>>
    PROVE  StreamOK(s)'
  <1>1. Cancelled(s)' /\ (Stopped(s)' <=> Stopped(s)) /\ (Empty(s) => Empty(s)')
    BY DEF Cancelled, Stopped, Over, Empty
  <1>2. TasksOK(s)' /\ SentOK(s)'
    BY <1>1 DEF StreamOK, TasksOK, SentOK
  <1>3. Flow(s)' /\ PullOK(s)'
    BY <1>1 DEF StreamOK, Flow, PullOK
  <1>4. Done(s) => Done(s)'
    BY <1>1 DEF Done
  <1>5. ReturnedOK(s)'
    BY <1>4 DEF StreamOK, ReturnedOK
  <1>6. QED
    BY <1>2, <1>3, <1>5 DEF StreamOK
-----------------------------------------------------------------------------
(* The steps of the specification.                                           *)
LEMMA OneMoves ==
    ASSUME SearchInv, NEW s \in Stream, StateOK', StreamOK(s)', \A t \in Stream \ {s} : Unmoved(t)
    PROVE  SearchInv'
  <1>1. ASSUME NEW t \in Stream \ {s}
        PROVE  StreamOK(t)'
    BY UnmovedOK DEF SearchInv
  <1>2. QED
    BY <1>1 DEF SearchInv

LEMMA RegisterStep ==
    ASSUME SearchInv, NEW s \in Stream, Register(s), UNCHANGED searchVars
    PROVE  SearchInv'
  <1>1. StateOK' /\ \A t \in Stream \ {s} : Unmoved(t)
    BY DEF SearchInv, StateOK, PullTypeOK, ReaderPc, Unmoved, Register, ToReader, producerVars, searchVars
  <1>2. Reads(s) /\ StreamSame(s) /\ ~woken'[s] /\ reader'[s] = "check"
    BY DEF SearchInv, StateOK, PullTypeOK, Reads, StreamSame, Register, ToReader, producerVars, searchVars
  <1>3. StreamOK(s)'
    BY <1>2, MovesOK DEF SearchInv
  <1>4. QED
    BY <1>1, <1>3, OneMoves

LEMMA PollStep ==
    ASSUME SearchInv, NEW s \in Stream, Poll(s), UNCHANGED searchVars
    PROVE  SearchInv'
  <1>1. StateOK' /\ \A t \in Stream \ {s} : Unmoved(t)
    BY DEF SearchInv, StateOK, PullTypeOK, ReaderPc, Unmoved, Poll, ToReader, producerVars, searchVars
  <1>2. Reads(s) /\ StreamSame(s) /\ woken'[s] = woken[s] /\ reader[s] = "select" /\ reader'[s] = "await"
    BY DEF SearchInv, StateOK, PullTypeOK, Reads, StreamSame, Poll, ToReader, producerVars, searchVars
  <1>3. StreamOK(s)'
    BY <1>2, MovesOK DEF SearchInv, StreamOK, PullOK
  <1>4. QED
    BY <1>1, <1>3, OneMoves

LEMMA PullStep ==
    ASSUME SearchInv, NEW s \in Stream, Pull(s), UNCHANGED searchVars
    PROVE  SearchInv'
  <1>1. StateOK' /\ \A t \in Stream \ {s} : Unmoved(t)
    BY DEF SearchInv, StateOK, PullTypeOK, ReaderPc, Unmoved, Pull, ToReader, producerVars, searchVars
  <1>2. Reads(s) /\ StreamSame(s) /\ woken'[s] = woken[s] /\ reader'[s] = "register"
    BY DEF SearchInv, StateOK, PullTypeOK, Reads, StreamSame, Pull, ToReader, producerVars, searchVars
  <1>3. StreamOK(s)'
    BY <1>2, MovesOK DEF SearchInv, StreamOK, PullOK
  <1>4. QED
    BY <1>1, <1>3, OneMoves

LEMMA StopReadingStep ==
    ASSUME SearchInv, NEW s \in Stream, StopReading(s), UNCHANGED searchVars
    PROVE  SearchInv'
  <1>1. StateOK' /\ \A t \in Stream \ {s} : Unmoved(t)
    BY DEF SearchInv, StateOK, PullTypeOK, ReaderPc, Unmoved, StopReading, ToReader, producerVars, searchVars
  <1>2. Reads(s) /\ StreamSame(s) /\ woken'[s] = woken[s] /\ reader[s] = "await" /\ reader'[s] = "finish"
    BY DEF SearchInv, StateOK, PullTypeOK, Reads, StreamSame, StopReading, ToReader, producerVars, searchVars
  <1>3. batch[s] = <<>> /\ ~Cancelled(s) => senders[s] = {} /\ Empty(s)
    BY DEF SearchInv, StreamOK, PullOK, StopReading, Empty
  <1>4. StreamOK(s)'
    BY <1>2, <1>3, MovesOK DEF SearchInv, StreamOK, PullOK
  <1>5. QED
    BY <1>1, <1>4, OneMoves

LEMMA FinishPullStep ==
    ASSUME SearchInv, NEW s \in Stream, FinishPull(s), UNCHANGED searchVars
    PROVE  SearchInv'
  <1>1. StateOK' /\ \A t \in Stream \ {s} : Unmoved(t)
    BY DEF SearchInv, StateOK, PullTypeOK, ReaderPc, Unmoved, FinishPull, Answer, ToReader, producerVars, searchVars
  <1>2. /\ Reads(s) /\ reader[s] = "finish" /\ reader'[s] = "idle"
        /\ returned'[s] = returned[s] \o (IF Cancelled(s) THEN <<>> ELSE batch[s]) /\ batch'[s] = <<>>
        /\ chan'[s] = chan[s] /\ pending'[s] = pending[s] /\ woken'[s] = woken[s]
        /\ ended'[s] = (ended[s] \/ Cancelled(s) \/ batch[s] = <<>>)
    BY DEF SearchInv, StateOK, PullTypeOK, Reads, FinishPull, Answer, ToReader, producerVars, searchVars
  <1>3. StreamOK(s)'
    BY <1>2, AnswersOK DEF SearchInv
  <1>4. QED
    BY <1>1, <1>3, OneMoves

LEMMA CancelStep ==
    ASSUME SearchInv, NEW s \in Stream, Cancel(s) \/ CancelRest(s) \/ Drop(s), UNCHANGED searchVars
    PROVE  SearchInv'
  <1> USE DEF SearchInv, StateOK, PullTypeOK, CancelPc, Cancel, CancelRest, Drop, producerVars, readerVars, searchVars
  <1>1. \A t \in Stream \ {s} : Unmoved(t)
    BY DEF Unmoved
  <1>2. StateOK'
    <2>1. CASE Cancel(s)
      BY <2>1
    <2>2. CASE CancelRest(s)
      BY <2>2
    <2>3. CASE Drop(s)
      BY <2>3
    <2>4. QED
      BY <2>1, <2>2, <2>3
  <1>3. /\ cancel'[s] # "none" /\ senders'[s] = senders[s] /\ failing'[s] = failing[s] /\ stage'[s] = stage[s]
        /\ sent'[s] = sent[s] /\ returned'[s] = returned[s] /\ batch'[s] = batch[s]
        /\ pending'[s] = pending[s] /\ reader'[s] = reader[s] /\ ended'[s] = ended[s]
        /\ chan'[s] = chan[s] \/ chan'[s] = <<>>
    OBVIOUS
  <1>4. StreamOK(s)'
    BY <1>3, CancelsOK
  <1>5. QED
    BY <1>1, <1>2, <1>4, OneMoves

\* What the reader does with an error.
LEMMA ReadErrorMoves ==
    ASSUME StateOK, NEW s \in Stream, NEW error \in Event, ReadError(s, error)
    PROVE  /\ batch' \in [Stream -> Seq(Event)] /\ returned' \in [Stream -> Seq(Event)]
           /\ pending' \in [Stream -> Event \cup {None}] /\ reader' \in [Stream -> ReaderPc]
  <1>1. batch' \in [Stream -> Seq(Event)]
    BY DEF StateOK, PullTypeOK, ReadError, Answer
  <1>2. returned' \in [Stream -> Seq(Event)]
    <2>1. returned[s] \o <<error>> \in Seq(Event)
      BY DEF StateOK, PullTypeOK
    <2>2. QED
      BY <2>1 DEF StateOK, PullTypeOK, ReadError, Answer
  <1>3. pending' \in [Stream -> Event \cup {None}]
    BY DEF StateOK, PullTypeOK, ReadError
  <1>4. reader' \in [Stream -> ReaderPc]
    BY DEF StateOK, PullTypeOK, ReaderPc, ReadError, ToReader
  <1>5. QED
    BY <1>1, <1>2, <1>3, <1>4

LEMMA CheckStep ==
    ASSUME SearchInv, NEW s \in Stream, Check(s), UNCHANGED searchVars
    PROVE  SearchInv'
  <1> USE DEF SearchInv, StateOK, PullTypeOK, ReaderPc, Check, ReadError, Answer, ToReader, producerVars, searchVars
  <1>1. StateOK' /\ \A t \in Stream \ {s} : Unmoved(t)
    <2>1. StateOK'
      <3>1. CASE UNCHANGED <<batch, pending, returned>>
        BY <3>1
      <3>2. CASE pending[s] # None /\ ReadError(s, pending[s])
        <4>1. pending[s] \in Event
          BY <3>2
        <4>2. /\ batch' \in [Stream -> Seq(Event)] /\ returned' \in [Stream -> Seq(Event)]
              /\ pending' \in [Stream -> Event \cup {None}] /\ reader' \in [Stream -> ReaderPc]
          BY <3>2, <4>1, ReadErrorMoves
        <4>3. QED
          BY <4>2
      <3>3. QED
        BY <3>1, <3>2
    <2>2. \A t \in Stream \ {s} : Unmoved(t)
      BY DEF Unmoved
    <2>3. QED
      BY <2>1, <2>2
  <1>2. /\ Reads(s) /\ reader[s] = "check" /\ woken'[s] = woken[s] /\ ended'[s] = ended[s] /\ chan'[s] = chan[s]
    BY DEF Reads
  <1>3. CASE \/ Cancelled(s) /\ ToReader(s, "finish") /\ UNCHANGED <<batch, pending, returned>>
             \/ /\ ~Cancelled(s) /\ pending[s] = None
                /\ ToReader(s, "select")
                /\ UNCHANGED <<batch, pending, returned>>
    <2>1. /\ StreamSame(s)
          /\ \/ Cancelled(s) /\ reader'[s] = "finish"
             \/ ~Cancelled(s) /\ pending[s] = None /\ reader'[s] = "select"
      BY <1>2, <1>3 DEF StreamSame
    <2>2. StreamOK(s)'
      BY <1>2, <2>1, MovesOK DEF StreamOK, PullOK
    <2>3. QED
      BY <1>1, <2>2, OneMoves
  <1>4. CASE ~Cancelled(s) /\ pending[s] # None /\ ReadError(s, pending[s])
    <2>1. pending[s] \in Event /\ pending[s].kind = "err"
      BY <1>4 DEF StreamOK, PullOK
    <2>2. CASE batch[s] = <<>>
      <3>1. /\ batch'[s] = <<>> /\ pending'[s] = None /\ reader'[s] = "idle"
            /\ returned'[s] = Append(returned[s], pending[s])
        BY <1>4, <2>1, <2>2
      <3>2. StreamOK(s)'
        BY <1>2, <1>4, <2>1, <2>2, <3>1, ReturnsOK
      <3>3. QED
        BY <1>1, <3>2, OneMoves
    <2>3. CASE batch[s] # <<>>
      <3>1. /\ batch'[s] = batch[s] /\ pending'[s] = pending[s] /\ returned'[s] = returned[s]
            /\ reader'[s] = "finish"
        BY <1>4, <2>1, <2>3
      <3>2. StreamOK(s)'
        BY <1>2, <1>4, <2>1, <2>3, <3>1, DefersOK
      <3>3. QED
        BY <1>1, <3>2, OneMoves
    <2>4. QED
      BY <2>2, <2>3
  <1>5. QED
    BY <1>3, <1>4

LEMMA ReceiveStep ==
    ASSUME SearchInv, NEW s \in Stream, Receive(s), UNCHANGED searchVars
    PROVE  SearchInv'
  <1> USE DEF SearchInv, StateOK, PullTypeOK, ReaderPc, Receive, ReadError, Answer, ToReader, producerVars, searchVars
  <1>1. chan[s] # <<>> /\ Head(chan[s]) \in Event /\ Tail(chan[s]) \in Seq(Event)
    OBVIOUS
  <1>2. StateOK' /\ \A t \in Stream \ {s} : Unmoved(t)
    <2>1. StateOK'
      <3>1. /\ batch' \in [Stream -> Seq(Event)] /\ returned' \in [Stream -> Seq(Event)]
            /\ pending' \in [Stream -> Event \cup {None}]
            /\ reader' \in [Stream -> ReaderPc]
        <4>1. CASE Head(chan[s]).kind = "err"
          BY <1>1, <4>1, ReadErrorMoves
        <4>2. CASE Head(chan[s]).kind # "err"
          <5>1. Append(batch[s], Head(chan[s])) \in Seq(Event)
            BY <1>1
          <5>2. QED
            BY <4>2, <5>1
        <4>3. QED
          BY <4>1, <4>2
      <3>2. chan' \in [Stream -> Seq(Event)]
        BY <1>1
      <3>3. QED
        BY <3>1, <3>2
    <2>2. \A t \in Stream \ {s} : Unmoved(t)
      BY DEF Unmoved
    <2>3. QED
      BY <2>1, <2>2
  <1>3. /\ Reads(s) /\ reader[s] = "await" /\ woken'[s] = woken[s] /\ ended'[s] = ended[s]
        /\ chan'[s] = Tail(chan[s])
    BY DEF Reads
  <1>4. StreamOK(s)'
    <2>1. CASE Head(chan[s]).kind = "err" /\ batch[s] = <<>>
      <3>1. /\ batch'[s] = <<>> /\ pending'[s] = None /\ reader'[s] = "idle"
            /\ returned'[s] = Append(returned[s], Head(chan[s]))
        BY <1>1, <2>1
      <3>2. QED
        BY <1>1, <1>3, <2>1, <3>1, ReturnsOK
    <2>2. CASE Head(chan[s]).kind = "err" /\ batch[s] # <<>>
      <3>1. /\ batch'[s] = batch[s] /\ pending'[s] = Head(chan[s]) /\ returned'[s] = returned[s]
            /\ reader'[s] = "finish"
        BY <1>1, <2>2
      <3>2. QED
        BY <1>1, <1>3, <2>2, <3>1, DefersOK
    <2>3. CASE Head(chan[s]).kind # "err"
      <3>1. /\ batch'[s] = Append(batch[s], Head(chan[s])) /\ pending'[s] = pending[s]
            /\ returned'[s] = returned[s] /\ reader'[s] \in {"register", "finish"}
        BY <2>3
      <3>2. QED
        BY <1>1, <1>3, <2>3, <3>1, TakesOK
    <2>4. QED
      BY <2>1, <2>2, <2>3
  <1>5. QED
    BY <1>2, <1>4, OneMoves

-----------------------------------------------------------------------------
(* The tasks.  A task sends on its own stream, or leaves it as it is.        *)
LEMMA StageMoves ==
    ASSUME StateOK, NEW s \in Stream, NEW f \in Feed, NEW st \in Stage, ToStage(s, f, st)
    PROVE  /\ stage' \in [Stream -> [Feed -> Stage]]
           /\ stage'[s][f] = st /\ \A g \in Feed \ {f} : stage'[s][g] = stage[s][g]
           /\ \A t \in Stream \ {s} : stage'[t] = stage[t]
  <1>1. [stage[s] EXCEPT ![f] = st] \in [Feed -> Stage]
    BY DEF StateOK
  <1>2. stage' = [stage EXCEPT ![s] = [stage[s] EXCEPT ![f] = st]]
    BY DEF StateOK, ToStage
  <1>3. QED
    BY <1>1, <1>2 DEF StateOK

\* A task that only goes on in its search.
LEMMA TaskMoves ==
    ASSUME SearchInv, NEW s \in Stream, NEW f \in Feed, NEW st \in Stage \ {"single"},
           stage[s][f] \notin {"single", "gone"}, ToStage(s, f, st), st # "gone",
           UNCHANGED <<chan, cancel, senders, failing, sent, readerVars>>
    PROVE  SearchInv'
  <1>1. /\ stage' \in [Stream -> [Feed -> Stage]]
        /\ stage'[s][f] = st /\ \A g \in Feed \ {f} : stage'[s][g] = stage[s][g]
        /\ \A t \in Stream \ {s} : stage'[t] = stage[t]
    BY StageMoves DEF SearchInv
  <1>2. StateOK'
    BY <1>1 DEF SearchInv, StateOK, PullTypeOK, readerVars
  <1>3. \A t \in Stream \ {s} : Unmoved(t)
    BY <1>1 DEF Unmoved, readerVars
  <1>4. Ends(s) /\ senders'[s] = senders[s] /\ failing'[s] = failing[s] /\ chan'[s] = chan[s]
    BY DEF Ends, readerVars
  <1>5. TasksOK(s)'
    BY <1>1, <1>4 DEF SearchInv, StreamOK, TasksOK
  <1>6. \A g \in Feed : Over(s, g) => Over(s, g)'
    BY <1>1, <1>4 DEF Over
  <1>7. StreamOK(s)'
    BY <1>4, <1>5, <1>6, EndsOK DEF SearchInv, Stopped
  <1>8. QED
    BY <1>2, <1>3, <1>7, OneMoves

LEMMA QueueStep ==
    ASSUME SearchInv, NEW s \in Stream, NEW f \in Feed, AwaitResolve(s, f) \/ AwaitAdvance(s, f)
    PROVE  SearchInv'
  <1>1. /\ stage[s][f] \in {"unresolved", "between"} /\ UNCHANGED streamVars
        /\ ToStage(s, f, "resolve") \/ ToStage(s, f, "advance")
    BY DEF AwaitResolve, AwaitAdvance
  <1>2. PICK st \in {"resolve", "advance"} : ToStage(s, f, st)
    BY <1>1
  <1>3. QED
    BY <1>1, <1>2, TaskMoves DEF streamVars, producerVars, Stage

\* What a task of a search of all feeds does with its stream.
LEMMA TaskSends ==
    ASSUME SearchInv, NEW s \in Stream, NEW f \in Feed, NEW kind \in {"item", "feedError"}, NEW st \in Stage,
           stage[s][f] \notin {"single", "gone"}, Send(s, f, kind), ToStage(s, f, st), st # "single",
           UNCHANGED <<cancel, senders, readerVars>>,
           failing' = failing \/ (failing' = [failing EXCEPT ![s] = @ \cup {f}] /\ st = "gone")
    PROVE  SearchInv'
  <1>1. Sent(f, kind) \in Event
    BY DEF Sent, Event
  <1>2. /\ stage' \in [Stream -> [Feed -> Stage]]
        /\ stage'[s][f] = st /\ \A g \in Feed \ {f} : stage'[s][g] = stage[s][g]
        /\ \A t \in Stream \ {s} : stage'[t] = stage[t]
    BY StageMoves DEF SearchInv
  <1>3. failing' \in [Stream -> SUBSET Feed] /\ \A t \in Stream \ {s} : failing'[t] = failing[t]
    <2>1. CASE failing' = failing
      BY <2>1 DEF SearchInv, StateOK, PullTypeOK
    <2>2. CASE failing' = [failing EXCEPT ![s] = @ \cup {f}]
      BY <2>2 DEF SearchInv, StateOK, PullTypeOK
    <2>3. QED
      BY <2>1, <2>2
  <1>4. failing'[s] = failing[s] \/ (failing'[s] = failing[s] \cup {f} /\ st = "gone")
    BY DEF SearchInv, StateOK, PullTypeOK
  <1>5. chan' \in [Stream -> Seq(Event)] /\ sent' \in [Stream -> Seq(Event)]
    BY <1>1 DEF SearchInv, StateOK, PullTypeOK, Send
  <1>6. StateOK'
    BY <1>2, <1>3, <1>5 DEF SearchInv, StateOK, PullTypeOK, readerVars
  <1>7. \A t \in Stream \ {s} : Unmoved(t)
    BY <1>2, <1>3 DEF Unmoved, SearchInv, StateOK, PullTypeOK, Send, readerVars
  <1>8. Sends(s, f, kind) /\ senders'[s] = senders[s]
    BY DEF Sends, SearchInv, StateOK, PullTypeOK, Send, readerVars
  <1>9. TasksOK(s)' /\ ~Over(s, f)
    BY <1>2, <1>4, <1>8 DEF SearchInv, StreamOK, TasksOK, Over
  <1>10. StreamOK(s)'
    BY <1>8, <1>9, SendsOK DEF SearchInv
  <1>11. QED
    BY <1>6, <1>7, <1>10, OneMoves

\* A task that ends: its sender goes, and its parked event if it was aborted.
LEMMA TaskEnds ==
    ASSUME SearchInv, NEW s \in Stream, NEW f \in Feed, Leave(s, f), UNCHANGED <<cancel, sent, readerVars>>,
           (stage' = stage /\ stage[s][f] \in {"single", "gone"}) \/ ToStage(s, f, "gone"),
           NEW events \in Seq(Event), chan' = [chan EXCEPT ![s] = events],
           events = chan[s] \/ (Cancelled(s) /\ chan[s] # <<>>)
    PROVE  SearchInv'
  <1>1. /\ stage' \in [Stream -> [Feed -> Stage]]
        /\ (stage'[s][f] = stage[s][f] /\ stage[s][f] \in {"single", "gone"}) \/ stage'[s][f] = "gone"
        /\ \A g \in Feed \ {f} : stage'[s][g] = stage[s][g]
        /\ \A t \in Stream \ {s} : stage'[t] = stage[t]
    <2>1. CASE stage' = stage /\ stage[s][f] \in {"single", "gone"}
      BY <2>1 DEF SearchInv, StateOK
    <2>2. CASE ToStage(s, f, "gone")
      BY <2>2, StageMoves DEF SearchInv, Stage
    <2>3. QED
      BY <2>1, <2>2
  <1>2. /\ senders' \in [Stream -> SUBSET Feed] /\ failing' \in [Stream -> SUBSET Feed]
        /\ senders'[s] = senders[s] \ {f} /\ failing'[s] = failing[s] \ {f}
        /\ \A t \in Stream \ {s} : senders'[t] = senders[t] /\ failing'[t] = failing[t]
    BY DEF SearchInv, StateOK, PullTypeOK, Leave
  <1>3. /\ chan' \in [Stream -> Seq(Event)] /\ chan'[s] = events
        /\ \A t \in Stream \ {s} : chan'[t] = chan[t]
    BY DEF SearchInv, StateOK, PullTypeOK
  <1>4. StateOK'
    BY <1>1, <1>2, <1>3 DEF SearchInv, StateOK, PullTypeOK, readerVars
  <1>5. \A t \in Stream \ {s} : Unmoved(t)
    BY <1>1, <1>2, <1>3 DEF Unmoved, readerVars
  <1>6. Ends(s) /\ (chan'[s] = chan[s] \/ (Cancelled(s) /\ chan[s] # <<>>))
    BY <1>2, <1>3 DEF Ends, readerVars
  <1>7. TasksOK(s)'
    <2>1. TasksOK(s)
      BY DEF SearchInv, StreamOK
    <2>2. ASSUME NEW g \in Feed
          PROVE  /\ stage'[s][g] \notin {"single", "gone"} => g \in senders'[s]
                 /\ g \in failing'[s] => stage'[s][g] \in {"single", "gone"}
      BY <1>1, <1>2, <2>1 DEF TasksOK
    <2>3. ASSUME NEW g \in Feed, stage'[s][g] = "single", NEW h \in Feed \ {g}
          PROVE  stage'[s][h] = "gone"
      <3>1. stage[s][g] = "single"
        BY <1>1, <2>3
      <3>2. stage[s][h] = "gone"
        BY <2>1, <3>1 DEF TasksOK
      <3>3. QED
        BY <1>1, <3>2
    <2>4. QED
      BY <2>2, <2>3 DEF TasksOK
  <1>8. \A g \in Feed : Over(s, g) => Over(s, g)'
    BY <1>1, <1>2 DEF Over
  <1>9. StreamOK(s)'
    BY <1>6, <1>7, <1>8, EndsOK DEF SearchInv, Stopped
  <1>10. QED
    BY <1>4, <1>5, <1>9, OneMoves

LEMMA WithoutType ==
    ASSUME NEW S, NEW events \in Seq(S), NEW i \in 1 .. Len(events)
    PROVE  Without(events, i) \in Seq(S)
  <1>1. SubSeq(events, 1, i - 1) \in Seq(S) /\ SubSeq(events, i + 1, Len(events)) \in Seq(S)
    OBVIOUS
  <1>2. QED
    BY <1>1 DEF Without

LEMMA ResolveStep ==
    ASSUME SearchInv, NEW s \in Stream, NEW f \in Feed, Resolve(s, f)
    PROVE  SearchInv'
  <1>1. stage[s][f] = "resolve"
    BY DEF Resolve
  <1>2. CASE ToStage(s, f, "between") /\ UNCHANGED <<chan, producerVars, failed>>
    BY <1>1, <1>2, TaskMoves DEF Resolve, producerVars, Stage
  <1>3. CASE FailFeed(s, f)
    BY <1>1, <1>3, TaskSends DEF Resolve, FailFeed, Stage
  <1>4. QED
    BY <1>2, <1>3 DEF Resolve

LEMMA AdvanceStep ==
    ASSUME SearchInv, NEW s \in Stream, NEW f \in Feed, Advance(s, f)
    PROVE  SearchInv'
  <1>1. stage[s][f] = "advance" /\ UNCHANGED <<cancel, readerVars>>
    BY DEF Advance
  <1>2. CASE Send(s, f, "item") /\ ToStage(s, f, "between") /\ UNCHANGED <<senders, failing, failed>>
    BY <1>1, <1>2, TaskSends DEF Stage
  <1>3. CASE FailFeed(s, f)
    BY <1>1, <1>3, TaskSends DEF FailFeed, Stage
  <1>4. CASE Leave(s, f) /\ ToStage(s, f, "gone") /\ UNCHANGED <<chan, sent, failed>>
    <2>1. chan[s] \in Seq(Event) /\ chan' = [chan EXCEPT ![s] = chan[s]]
      BY <1>4 DEF SearchInv, StateOK, PullTypeOK
    <2>2. QED
      BY <1>1, <1>4, <2>1, TaskEnds
  <1>5. QED
    BY <1>2, <1>3, <1>4 DEF Advance

LEMMA LeaveErrorStep ==
    ASSUME SearchInv, NEW s \in Stream, NEW f \in Feed, LeaveError(s, f)
    PROVE  SearchInv'
  <1>1. stage[s][f] \in {"single", "gone"}
    BY DEF SearchInv, StreamOK, TasksOK, LeaveError, LeaveFailed
  <1>2. chan[s] \in Seq(Event) /\ chan' = [chan EXCEPT ![s] = chan[s]]
    BY DEF SearchInv, StateOK, PullTypeOK, LeaveError, LeaveFailed
  <1>3. QED
    BY <1>1, <1>2, TaskEnds DEF LeaveError, LeaveFailed, searchVars

LEMMA AbandonStep ==
    ASSUME SearchInv, NEW s \in Stream, NEW f \in Feed, Abandon(s, f)
    PROVE  SearchInv'
  <1>1. Leave(s, f) /\ UNCHANGED <<cancel, sent, readerVars>> /\ ToStage(s, f, "gone") /\ Cancelled(s)
    BY DEF Abandon, Die, Aborted, Cancelled
  <1>2. chan[s] \in Seq(Event)
    BY DEF SearchInv, StateOK, PullTypeOK
  <1>3. CASE Parked(s, f)
    <2>1. PICK i : i \in ParkedAt(s, f) /\ chan' = [chan EXCEPT ![s] = Without(chan[s], i)]
      <3>1. \E i : i \in ParkedAt(s, f)
        BY <1>3 DEF Parked
      <3>2. (CHOOSE i \in ParkedAt(s, f) : TRUE) \in ParkedAt(s, f)
        BY <3>1
      <3>3. chan' = [chan EXCEPT ![s] = Without(chan[s], CHOOSE i \in ParkedAt(s, f) : TRUE)]
        BY <1>3 DEF Abandon, Die
      <3>4. QED
        BY <3>2, <3>3
    <2>2. i \in 1 .. Len(chan[s])
      BY <1>2, <2>1, PullAssumption DEF ParkedAt
    <2>3. chan[s] # <<>> /\ Without(chan[s], i) \in Seq(Event)
      BY <1>2, <2>2, WithoutType
    <2>4. QED
      BY <1>1, <2>1, <2>3, TaskEnds
  <1>4. CASE ~Parked(s, f)
    <2>1. chan' = [chan EXCEPT ![s] = chan[s]]
      BY <1>4 DEF Abandon, Die
    <2>2. QED
      BY <1>1, <1>2, <2>1, TaskEnds
  <1>5. QED
    BY <1>3, <1>4

LEMMA DriveStep ==
    ASSUME SearchInv, NEW s \in Stream, NEW f \in Feed, stage[s][f] = "single", Drive(s, f), UNCHANGED searchVars
    PROVE  SearchInv'
  <1>1. f \in senders[s] \ failing[s] /\ UNCHANGED <<cancel, readerVars>> /\ ~Over(s, f)
    BY DEF Drive, Over
  <1>2. CASE \/ Send(s, f, "item") /\ UNCHANGED <<senders, failing>>
             \/ /\ Send(s, f, "err")
                /\ failing' = [failing EXCEPT ![s] = @ \cup {f}]
                /\ UNCHANGED senders
    <2> USE DEF SearchInv, StateOK, PullTypeOK, Send, readerVars, searchVars
    <2>1. PICK kind \in {"item", "err"} :
             /\ Send(s, f, kind) /\ UNCHANGED senders
             /\ \/ failing' = failing /\ kind = "item"
                \/ failing' = [failing EXCEPT ![s] = @ \cup {f}]
             /\ kind = "err" => f \in failing'[s]
      BY <1>2
    <2>2. Sent(f, kind) \in Event
      BY DEF Sent, Event
    <2>3. StateOK' /\ \A t \in Stream \ {s} : Unmoved(t)
      <3>1. /\ chan' \in [Stream -> Seq(Event)] /\ sent' \in [Stream -> Seq(Event)]
            /\ failing' \in [Stream -> SUBSET Feed]
        <4>1. chan' \in [Stream -> Seq(Event)] /\ sent' \in [Stream -> Seq(Event)]
          BY <2>1, <2>2
        <4>2. failing' \in [Stream -> SUBSET Feed]
          <5>1. CASE failing' = failing
            BY <5>1
          <5>2. CASE failing' = [failing EXCEPT ![s] = @ \cup {f}]
            BY <5>2
          <5>3. QED
            BY <2>1, <5>1, <5>2
        <4>3. QED
          BY <4>1, <4>2
      <3>2. StateOK'
        BY <1>1, <2>1, <3>1
      <3>3. \A t \in Stream \ {s} : Unmoved(t)
        BY <1>1, <2>1 DEF Unmoved
      <3>4. QED
        BY <3>2, <3>3
    <2>4. Sends(s, f, kind) /\ senders'[s] = senders[s] /\ stage'[s] = stage[s]
      BY <1>1, <2>1 DEF Sends
    <2>5. failing'[s] = failing[s] \/ failing'[s] = failing[s] \cup {f}
      BY <2>1
    <2>6. TasksOK(s)'
      BY <2>4, <2>5 DEF StreamOK, TasksOK
    <2>7. kind = "err" => Stopped(s)'
      BY <2>1, <2>4, <2>6 DEF TasksOK, Stopped, Over
    <2>8. StreamOK(s)'
      BY <1>1, <2>4, <2>6, <2>7, SendsOK
    <2>9. QED
      BY <2>3, <2>8, OneMoves
  <1>3. CASE Leave(s, f) /\ UNCHANGED <<chan, sent>>
    <2>1. chan[s] \in Seq(Event) /\ chan' = [chan EXCEPT ![s] = chan[s]]
      BY <1>3 DEF SearchInv, StateOK, PullTypeOK
    <2>2. QED
      BY <1>1, <1>3, <2>1, TaskEnds DEF searchVars
  <1>4. QED
    BY <1>2, <1>3 DEF Drive

-----------------------------------------------------------------------------
(* The invariant holds at first and in every step, and says what was meant.  *)
LEMMA InitInv == ASSUME Init PROVE SearchInv
  <1>1. PICK single \in SUBSET {s \in Stream : \E f \in Feed : senders[s] = {f}} :
           stage = [s \in Stream |-> [f \in Feed |->
                      IF f \notin senders[s] THEN "gone" ELSE IF s \in single THEN "single" ELSE "unresolved"]]
    BY DEF Init
  <1>2. StateOK
    BY <1>1 DEF Init, PullInit, StateOK, PullTypeOK, Stage, CancelPc, ReaderPc
  <1>3. ASSUME NEW s \in Stream
        PROVE  StreamOK(s)
    <2>1. TasksOK(s)
      BY <1>1 DEF Init, PullInit, TasksOK
    <2>2. SentOK(s) /\ ReturnedOK(s)
      BY DEF Init, PullInit, SentOK, ReturnedOK
    <2>3. Flow(s)
      <3>1. Joined(<<>>, <<>>, <<>>, <<>>) = <<>>
        BY DEF Joined
      <3>2. QED
        BY <3>1 DEF Init, PullInit, Flow, PendingEvents
    <2>4. PullOK(s)
      BY DEF Init, PullInit, PullOK
    <2>5. QED
      BY <2>1, <2>2, <2>3, <2>4 DEF StreamOK
  <1>4. QED
    BY <1>2, <1>3 DEF SearchInv

LEMMA NextInv == ASSUME SearchInv, Next PROVE SearchInv'
  <1>1. ASSUME NEW s \in Stream, NEW f \in Feed, SearchStep(s, f)
        PROVE  SearchInv'
    BY <1>1, QueueStep, ResolveStep, AdvanceStep, LeaveErrorStep, AbandonStep DEF SearchStep
  <1>2. ASSUME NEW s \in Stream, NEW f \in Feed, DriveSingle(s, f)
        PROVE  SearchInv'
    BY <1>2, DriveStep, LeaveErrorStep, AbandonStep DEF DriveSingle
  <1>3. ASSUME NEW s \in Stream, ReadStep(s)
        PROVE  SearchInv'
    BY <1>3, RegisterStep, CheckStep, PollStep, ReceiveStep, StopReadingStep, FinishPullStep DEF ReadStep, ReaderStep
  <1>4. ASSUME NEW s \in Stream, CallerPulls(s) \/ CallerLeaves(s) \/ CancelGoesOn(s)
        PROVE  SearchInv'
    BY <1>4, PullStep, CancelStep DEF CallerPulls, CallerLeaves, CancelGoesOn
  <1>5. QED
    BY <1>1, <1>2, <1>3, <1>4 DEF Next

LEMMA InvTruth == ASSUME SearchInv PROVE StreamTruth
  <1>1. NothingLost
    BY DEF SearchInv, StreamOK, Flow, Joined, NothingLost
  <1>2. ASSUME NEW s \in Stream, ended[s], ~Cancelled(s)
        PROVE  senders[s] = {} /\ returned[s] = sent[s]
    <2>1. senders[s] = {} /\ batch[s] = <<>> /\ PendingEvents(s) = <<>> /\ chan[s] = <<>>
      BY <1>2 DEF SearchInv, StreamOK, PullOK, Empty, PendingEvents
    <2>2. returned[s] \in Seq(Event)
      BY DEF SearchInv, StateOK, PullTypeOK
    <2>3. Joined(returned[s], <<>>, <<>>, <<>>) = returned[s]
      BY <2>2, JoinEmpty DEF Joined
    <2>4. QED
      BY <1>2, <2>1, <2>3 DEF SearchInv, StreamOK, Flow
  <1>3. ASSUME NEW s \in Stream, NEW i \in 1 .. Len(returned[s]) - 1
        PROVE  returned[s][i].kind # "err"
    <2>1. returned[s] \in Seq(Event)
      BY DEF SearchInv, StateOK, PullTypeOK
    <2>2. i \in DOMAIN returned[s] /\ i # Len(returned[s])
      BY <2>1
    <2>3. QED
      BY <2>2 DEF SearchInv, StreamOK, ReturnedOK
  <1>4. QED
    BY <1>1, <1>2, <1>3 DEF StreamTruth, EndIsTrue, ErrorIsLast

LEMMA InvStep == ASSUME SearchInv, [Next]_vars PROVE SearchInv'
  <1>1. CASE UNCHANGED vars
    <2>1. StateOK' /\ \A s \in Stream : Unmoved(s)
      BY <1>1 DEF SearchInv, StateOK, PullTypeOK, Unmoved, vars, streamVars, producerVars, readerVars, searchVars
    <2>2. QED
      BY <2>1, UnmovedOK DEF SearchInv
  <1>2. QED
    BY <1>1, NextInv

(* For any number of feeds, searches and items, whatever the permits, the    *)
(* channel and the batches hold: what the pulls of a stream have returned is *)
(* what its producers sent, in order, up to its end or its one error, unless *)
(* it was cancelled.                                                         *)
THEOREM SearchStreams == Spec => []StreamTruth
  <1>1. Init => SearchInv
    BY InitInv
  <1>2. SearchInv /\ [Next]_vars => SearchInv'
    BY InvStep
  <1>3. SearchInv => StreamTruth
    BY InvTruth
  <1>4. QED
    BY <1>1, <1>2, <1>3, PTL DEF Spec

-----------------------------------------------------------------------------
(* The reports of failed feeds. A task that fails sends its feed error and   *)
(* is over at once, so the error of a feed is the last event it sends.       *)
ErrorAt(s, f, i) == sent[s][i].from = f /\ sent[s][i].kind = "feedError"
Reported(s, f) ==
    /\ f \in failed[s] => stage[s][f] = "gone" /\ \E i \in DOMAIN sent[s] : ErrorAt(s, f, i)
    /\ \A i \in DOMAIN sent[s] : ErrorAt(s, f, i) =>
          f \in failed[s] /\ \A j \in DOMAIN sent[s] : sent[s][j].from = f => j <= i
ReportInv ==
    /\ failed \in [Stream -> SUBSET Feed]
    /\ \A s \in Stream, f \in Feed : Reported(s, f)

\* Nothing is sent and nothing fails; a task may end.
LEMMA QuietReports ==
    ASSUME ReportInv, UNCHANGED <<sent, failed>>,
           \A s \in Stream, f \in Feed : stage[s][f] = "gone" => stage'[s][f] = "gone"
    PROVE  ReportInv'
  BY DEF ReportInv, Reported, ErrorAt

LEMMA StageReports ==
    ASSUME SearchInv, ReportInv, NEW s \in Stream, NEW f \in Feed, NEW st \in Stage, ToStage(s, f, st),
           stage[s][f] = "gone" => st = "gone", UNCHANGED <<sent, failed>>
    PROVE  ReportInv'
  <1>1. \A t \in Stream, g \in Feed : stage[t][g] = "gone" => stage'[t][g] = "gone"
    BY StageMoves DEF SearchInv
  <1>2. QED
    BY <1>1, QuietReports

\* The events of a stream after one more was sent.
LEMMA SentMore ==
    ASSUME StateOK, NEW s \in Stream, NEW f \in Feed, NEW kind \in {"item", "feedError", "err"}, Send(s, f, kind)
    PROVE  /\ \A t \in Stream \ {s} : sent'[t] = sent[t]
           /\ DOMAIN sent[s] = 1 .. Len(sent[s]) /\ Len(sent[s]) \in Nat
           /\ DOMAIN sent'[s] = 1 .. Len(sent[s]) + 1
           /\ \A i \in DOMAIN sent[s] : sent'[s][i] = sent[s][i]
           /\ sent'[s][Len(sent[s]) + 1].from = f /\ sent'[s][Len(sent[s]) + 1].kind = kind
  <1>1. sent \in [Stream -> Seq(Event)]
    BY DEF StateOK, PullTypeOK
  <1>2. Sent(f, kind) \in Event /\ Sent(f, kind).from = f /\ Sent(f, kind).kind = kind
    BY DEF Sent, Event
  <1>3. sent'[s] = Append(sent[s], Sent(f, kind)) /\ \A t \in Stream \ {s} : sent'[t] = sent[t]
    BY <1>1 DEF Send
  <1> DEFINE e == Sent(f, kind)
  <1> HIDE DEF e
  <1>4. QED
    BY <1>1, <1>2, <1>3 DEF e

LEMMA SendReports ==
    ASSUME SearchInv, ReportInv, NEW s \in Stream, NEW f \in Feed, NEW kind \in {"item", "err"}, Send(s, f, kind),
           stage[s][f] # "gone", UNCHANGED failed,
           stage' = stage \/ \E st \in Stage : ToStage(s, f, st)
    PROVE  ReportInv'
  <1>1. \A t \in Stream, g \in Feed : stage[t][g] = "gone" => stage'[t][g] = "gone"
    BY StageMoves DEF SearchInv
  <1>2. /\ \A t \in Stream \ {s} : sent'[t] = sent[t]
        /\ DOMAIN sent[s] = 1 .. Len(sent[s]) /\ Len(sent[s]) \in Nat
        /\ DOMAIN sent'[s] = 1 .. Len(sent[s]) + 1
        /\ \A i \in DOMAIN sent[s] : sent'[s][i] = sent[s][i]
        /\ sent'[s][Len(sent[s]) + 1].from = f /\ sent'[s][Len(sent[s]) + 1].kind = kind
    BY SentMore DEF SearchInv
  <1>3. ASSUME NEW t \in Stream \ {s}, NEW g \in Feed
        PROVE  Reported(t, g)'
    BY <1>1, <1>2 DEF ReportInv, Reported, ErrorAt
  <1>4. ASSUME NEW g \in Feed
        PROVE  Reported(s, g)'
    <2>1. Reported(s, g) /\ (g \in failed[s] => g # f)
      BY DEF ReportInv, Reported
    <2>2. g \in failed'[s] => stage'[s][g] = "gone" /\ \E i \in DOMAIN sent'[s] : ErrorAt(s, g, i)'
      BY <1>1, <1>2, <2>1 DEF Reported, ErrorAt
    <2>3. ASSUME NEW i \in DOMAIN sent'[s], ErrorAt(s, g, i)'
          PROVE  g \in failed'[s] /\ \A j \in DOMAIN sent'[s] : sent'[s][j].from = g => j <= i
      <3>1. i \in DOMAIN sent[s] /\ ErrorAt(s, g, i)
        BY <1>2, <2>3 DEF ErrorAt
      <3>2. QED
        BY <1>2, <2>1, <3>1 DEF Reported
    <2>4. QED
      BY <2>2, <2>3 DEF Reported
  <1>5. QED
    BY <1>3, <1>4 DEF ReportInv

LEMMA FailReports ==
    ASSUME SearchInv, ReportInv, NEW s \in Stream, NEW f \in Feed, FailFeed(s, f), stage[s][f] # "gone"
    PROVE  ReportInv'
  <1>1. /\ \A t \in Stream, g \in Feed : stage[t][g] = "gone" => stage'[t][g] = "gone"
        /\ stage'[s][f] = "gone"
    BY StageMoves DEF SearchInv, FailFeed, Stage
  <1>2. /\ \A t \in Stream \ {s} : sent'[t] = sent[t]
        /\ DOMAIN sent[s] = 1 .. Len(sent[s]) /\ Len(sent[s]) \in Nat
        /\ DOMAIN sent'[s] = 1 .. Len(sent[s]) + 1
        /\ \A i \in DOMAIN sent[s] : sent'[s][i] = sent[s][i]
        /\ sent'[s][Len(sent[s]) + 1].from = f /\ sent'[s][Len(sent[s]) + 1].kind = "feedError"
    BY SentMore DEF SearchInv, FailFeed
  <1>3. /\ failed' \in [Stream -> SUBSET Feed] /\ failed'[s] = failed[s] \cup {f}
        /\ \A t \in Stream \ {s} : failed'[t] = failed[t]
    BY DEF FailFeed, ReportInv
  <1>4. ASSUME NEW t \in Stream \ {s}, NEW g \in Feed
        PROVE  Reported(t, g)'
    BY <1>1, <1>2, <1>3 DEF ReportInv, Reported, ErrorAt
  <1>5. ASSUME NEW g \in Feed
        PROVE  Reported(s, g)'
    <2>1. Reported(s, g) /\ f \notin failed[s]
      BY DEF ReportInv, Reported
    <2>2. CASE g = f
      <3>1. \A i \in DOMAIN sent[s] : ~ErrorAt(s, f, i)
        BY <2>1, <2>2 DEF Reported
      <3>2. PICK n : n = Len(sent[s]) + 1
        OBVIOUS
      <3>3. n \in DOMAIN sent'[s] /\ ErrorAt(s, f, n)' /\ \A j \in DOMAIN sent'[s] : j <= n
        BY <1>2, <3>2 DEF ErrorAt
      <3>4. \A i \in DOMAIN sent'[s] : ErrorAt(s, f, i)' => i = n
        BY <1>2, <3>1, <3>2 DEF ErrorAt
      <3>5. QED
        BY <1>1, <1>3, <2>2, <3>3, <3>4 DEF Reported
    <2>3. CASE g # f
      <3>1. g \in failed'[s] => stage'[s][g] = "gone" /\ \E i \in DOMAIN sent'[s] : ErrorAt(s, g, i)'
        BY <1>1, <1>2, <1>3, <2>1, <2>3 DEF Reported, ErrorAt
      <3>2. ASSUME NEW i \in DOMAIN sent'[s], ErrorAt(s, g, i)'
            PROVE  g \in failed'[s] /\ \A j \in DOMAIN sent'[s] : sent'[s][j].from = g => j <= i
        <4>1. i \in DOMAIN sent[s] /\ ErrorAt(s, g, i)
          BY <1>2, <2>3, <3>2 DEF ErrorAt
        <4>2. QED
          BY <1>2, <1>3, <2>1, <2>3, <4>1 DEF Reported
      <3>3. QED
        BY <3>1, <3>2 DEF Reported
    <2>4. QED
      BY <2>2, <2>3
  <1>6. QED
    BY <1>3, <1>4, <1>5 DEF ReportInv

LEMMA ReportStep ==
    ASSUME SearchInv, ReportInv, [Next]_vars
    PROVE  ReportInv'
  <1>1. ASSUME NEW s \in Stream, NEW f \in Feed, LeaveError(s, f) \/ Abandon(s, f)
        PROVE  ReportInv'
    BY <1>1, QuietReports, StageReports DEF LeaveError, LeaveFailed, Abandon, Die, searchVars, Stage
  <1>2. ASSUME NEW s \in Stream, NEW f \in Feed, AwaitResolve(s, f) \/ AwaitAdvance(s, f)
        PROVE  ReportInv'
    BY <1>2, StageReports DEF AwaitResolve, AwaitAdvance, streamVars, producerVars, Stage
  <1>3. ASSUME NEW s \in Stream, NEW f \in Feed, Resolve(s, f)
        PROVE  ReportInv'
    BY <1>3, StageReports, FailReports DEF Resolve, producerVars, Stage
  <1>4. ASSUME NEW s \in Stream, NEW f \in Feed, Advance(s, f)
        PROVE  ReportInv'
    BY <1>4, StageReports, SendReports, FailReports DEF Advance, Stage
  <1>5. ASSUME NEW s \in Stream, NEW f \in Feed, stage[s][f] = "single", Drive(s, f), UNCHANGED searchVars
        PROVE  ReportInv'
    BY <1>5, SendReports, QuietReports DEF Drive, searchVars
  <1>6. ASSUME NEW s \in Stream, ReadStep(s) \/ CallerPulls(s) \/ CallerLeaves(s) \/ CancelGoesOn(s)
        PROVE  UNCHANGED <<sent, searchVars>>
    BY <1>6 DEF ReadStep, ReaderStep, Register, Check, Poll, Receive, StopReading, FinishPull, CallerPulls, Pull,
                CallerLeaves, Cancel, Drop, CancelGoesOn, CancelRest, producerVars
  <1>7. CASE UNCHANGED <<sent, searchVars>>
    BY <1>7, QuietReports DEF searchVars
  <1>8. QED
    BY <1>1, <1>2, <1>3, <1>4, <1>5, <1>6, <1>7
       DEF Next, SearchStep, DriveSingle, vars, streamVars, producerVars

(* A feed that fails is reported once, after all its items, and the others   *)
(* are not cut short by it, for any number of feeds, searches and permits    *)
(* (search_one_feed: emit_feed_error).                                       *)
THEOREM SearchErrors == Spec => []ErrorsReported
  <1>1. Init => SearchInv /\ ReportInv
    <2>1. ASSUME Init
          PROVE  ReportInv
      BY <2>1 DEF Init, PullInit, ReportInv, Reported
    <2>2. QED
      BY <2>1, InitInv
  <1>2. SearchInv /\ ReportInv /\ [Next]_vars => SearchInv' /\ ReportInv'
    BY InvStep, ReportStep
  <1>3. SearchInv /\ ReportInv => ErrorsReported
    <2>1. ASSUME SearchInv, ReportInv, NEW s \in Stream, ended[s], ~Cancelled(s), NEW f \in Feed
          PROVE  LET events == {i \in DOMAIN returned[s] : returned[s][i].from = f}
                     errors == {i \in events : returned[s][i].kind = "feedError"}
                 IN  IF f \in failed[s] THEN \E i \in events : errors = {i} /\ \A j \in events : j <= i
                                        ELSE errors = {}
      <3>1. returned[s] = sent[s]
        BY <2>1, InvTruth DEF StreamTruth, EndIsTrue
      <3>2. Reported(s, f)
        BY <2>1 DEF ReportInv
      <3> DEFINE events == {i \in DOMAIN sent[s] : sent[s][i].from = f}
      <3> DEFINE errors == {i \in events : sent[s][i].kind = "feedError"}
      <3>3. \A i \in errors, j \in events : j <= i
        BY <3>2 DEF Reported, ErrorAt
      <3>4. DOMAIN sent[s] \subseteq Nat
        BY <2>1 DEF SearchInv, StateOK, PullTypeOK
      <3>5. \A i, j \in errors : i = j
        <4>1. \A i, j \in errors : i <= j /\ j <= i /\ i \in Nat /\ j \in Nat
          BY <3>3, <3>4
        <4>2. QED
          BY <4>1
      <3>6. f \in failed[s] => errors # {}
        BY <3>2 DEF Reported, ErrorAt
      <3>7. f \notin failed[s] => errors = {}
        BY <3>2 DEF Reported, ErrorAt
      <3>8. errors \subseteq events
        OBVIOUS
      <3>9. f \in failed[s] => \E i \in events : errors = {i} /\ \A j \in events : j <= i
        <4> HIDE DEF errors, events
        <4>1. QED
          BY <3>3, <3>5, <3>6, <3>8
      <3>10. QED
        BY <3>1, <3>7, <3>9
    <2>2. QED
      BY <2>1 DEF ErrorsReported
  <1>4. QED
    BY <1>1, <1>2, <1>3, PTL DEF Spec
=============================================================================
