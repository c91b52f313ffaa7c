--------------------------- MODULE WebviewPrompts ---------------------------
(* Interactive verification: a feed operation parks on a prompt              *)
(* (webview_actor.rs), the app presents one prompt at a time                 *)
(* (webview_verify_coordinator.dart) and the page answers it                 *)
(* (webview_verify_page.dart). A new Flutter engine replaces the listener.   *)
EXTENDS Naturals, Sequences

CONSTANTS Op, None,
          PromptCap,     \* PROMPT_CHANNEL_CAPACITY
          Id             \* prompt ids; one is fresh while nothing refers to it

Screens == [id : Id, phase : {"open", "submitting", "canceling"}]
ASSUME NoneIsNoOne == None \notin Op /\ None \notin Screens

VARIABLES
    pending,   \* prompt id -> the operation parked on it, None once dropped
    answer,    \* operation -> what its receiver got: None, "snapshot" or "refused"
    listener,  \* "none", "live", or "dead": the engine that listened is gone
    channel,   \* prompts sent and not yet taken by the coordinator
    screen,    \* the page on top: None or [id, phase]
    cancels,   \* cancelWebview calls on their way to the actor
    stray,     \* a page that was left twice: it will pop once more, or None
    lost,      \* prompts whose engine went away
    blind      \* prompts whose page was popped by another page's pop

prompts == <<pending, answer, listener, channel, screen, cancels, stray, lost, blind>>
app == <<listener, channel, screen, cancels, stray, lost, blind>>

PromptsInit == /\ pending = <<>> /\ answer = [o \in Op |-> None]
               /\ listener = "none" /\ channel = <<>> /\ screen = None
               /\ cancels = {} /\ stray = None /\ lost = {} /\ blind = {}

Ids == DOMAIN pending
Elements(s) == {s[i] : i \in DOMAIN s}
Waiting(i) == i \in Ids /\ pending[i] # None
Unparked(ids) == [i \in Ids \ ids |-> pending[i]]
Top == IF screen = None THEN {} ELSE {screen.id}
\* The map without entries that no page can answer and nobody waits for: the
\* code keeps those for ever, to no effect.
Kept(ids) == Unparked({i \in ids : ~Waiting(i)})
Left(ids) == {i \in ids : Waiting(i)}
Answered(i, a) == IF i \in Ids /\ pending[i] # None
                  THEN [answer EXCEPT ![pending[i]] = a] ELSE answer

\* Ids something may still name (next_id only counts up).
Named == Ids \cup Elements(channel) \cup cancels \cup {stray} \cup Top
\* OpenWebview: no listener, a closed or a full channel refuse the newest
\* prompt; a dead engine's channel may also still take it.
Refuse(o) == /\ \/ listener \in {"none", "dead"}
                \/ listener = "live" /\ Len(channel) = PromptCap
             /\ answer' = [answer EXCEPT ![o] = "refused"]
             /\ UNCHANGED <<pending, app>>
Prompt(o) == /\ listener = "dead" \/ (listener = "live" /\ Len(channel) < PromptCap)
             /\ \E id \in Id \ Named :
                /\ \A i \in Id : i < id => i \in Named
                /\ pending' = [i \in Ids \cup {id} |-> IF i = id THEN o ELSE pending[i]]
                /\ IF listener = "live"
                   THEN channel' = Append(channel, id) /\ UNCHANGED lost
                   ELSE lost' = lost \cup {id} /\ UNCHANGED channel
             /\ UNCHANGED <<answer, listener, screen, cancels, stray, blind>>
OpenWebview(o) == Refuse(o) \/ Prompt(o)

\* The parked operation is dropped: its receiver closes.
DropReceiver(o) ==
    LET mine == {i \in Ids : pending[i] = o}
    IN  /\ pending' = [i \in Ids \ (mine \cap (lost \cup blind)) |->
                         IF i \in mine THEN None ELSE pending[i]]
        /\ lost' = lost \ mine /\ blind' = blind \ mine
        /\ answer' = [answer EXCEPT ![o] = None]
        /\ UNCHANGED <<listener, channel, screen, cancels, stray>>

\* SubscribeWebviewPrompts, at startup and by a new engine.
Subscribe == /\ listener # "live" /\ listener' = "live"
             /\ UNCHANGED <<pending, answer, channel, screen, cancels, stray, lost, blind>>

\* The engine goes away with its pages; calls already made still arrive.
EngineGone == /\ listener = "live" /\ listener' = "dead"
              /\ LET gone == (Elements(channel) \cup Top) \ cancels
                 IN  lost' = lost \cup Left(gone) /\ pending' = Kept(gone)
              /\ channel' = <<>> /\ screen' = None /\ stray' = None
              /\ UNCHANGED <<answer, cancels, blind>>

\* The coordinator takes the next prompt once the last page has popped. When
\* the page cannot be presented it cancels the operation.
Present == /\ screen = None /\ channel # <<>>
           /\ channel' = Tail(channel)
           /\ \/ screen' = [id |-> Head(channel), phase |-> "open"] /\ UNCHANGED cancels
              \/ cancels' = cancels \cup {Head(channel)} /\ UNCHANGED screen
           /\ UNCHANGED <<pending, answer, listener, stray, lost, blind>>

OnScreen(phase) == screen # None /\ screen.phase = phase
\* _submitPage: the snapshot is delivered, or taking it fails and the page stays.
Submit == /\ OnScreen("open")
          /\ screen' = [screen EXCEPT !.phase = "submitting"]
          /\ UNCHANGED <<pending, answer, listener, channel, cancels, stray, lost, blind>>

\* Mutant: the prompt is forgotten and its operation not answered.
CompleteUnanswered == /\ OnScreen("submitting")
                      /\ pending' = Unparked({screen.id})
                      /\ screen' = None
                      /\ UNCHANGED <<answer, listener, channel, cancels, stray, lost, blind>>

Complete == /\ OnScreen("submitting")
            /\ answer' = Answered(screen.id, "snapshot")
            /\ pending' = Unparked({screen.id})
            /\ screen' = None
            /\ UNCHANGED <<listener, channel, cancels, stray, lost, blind>>
SubmitFails == /\ OnScreen("submitting")
               /\ screen' = [screen EXCEPT !.phase = "open"]
               /\ UNCHANGED <<pending, answer, listener, channel, cancels, stray, lost, blind>>

\* Leaving the page: cancel, await the reply, pop.
Back == /\ OnScreen("open")
        /\ screen' = [screen EXCEPT !.phase = "canceling"]
        /\ cancels' = cancels \cup {screen.id}
        /\ UNCHANGED <<pending, answer, listener, channel, stray, lost, blind>>

\* Mutant: the cancellation does not reach the operation.
CancelWebviewSilent(i) == /\ i \in cancels /\ cancels' = cancels \ {i}
                          /\ UNCHANGED <<answer, pending, listener, channel, screen, stray, lost, blind>>

CancelWebview(i) == /\ i \in cancels /\ cancels' = cancels \ {i}
                    /\ answer' = Answered(i, "refused")
                    /\ pending' = Unparked({i})
                    /\ UNCHANGED <<listener, channel, screen, stray, lost, blind>>
PopCanceled == /\ OnScreen("canceling") /\ screen.id \notin cancels
               /\ screen' = None
               /\ UNCHANGED <<pending, answer, listener, channel, cancels, stray, lost, blind>>
\* A second back press while the cancel is awaited pops at once (_cancel
\* returns early); the first press still pops when its await returns, and
\* while the page is in its exit transition that pops whatever is on top.
BackAgain == /\ OnScreen("canceling") /\ stray = None
             /\ stray' = screen.id /\ screen' = None
             /\ UNCHANGED <<pending, answer, listener, channel, cancels, lost, blind>>
StrayPop == /\ stray # None /\ stray \notin cancels /\ stray' = None
            /\ \/ UNCHANGED <<screen, blind, pending>>       \* already unmounted
               \/ /\ screen' = None
                  /\ blind' = blind \cup Left(Top \ cancels) /\ pending' = Kept(Top \ cancels)
            /\ UNCHANGED <<answer, listener, channel, cancels, lost>>

PageStep == Submit \/ Complete \/ SubmitFails \/ Back \/ PopCanceled \/ BackAgain \/ StrayPop
PromptsNext == Subscribe \/ EngineGone \/ Present \/ PageStep \/ \E i \in cancels : CancelWebview(i)
-----------------------------------------------------------------------------
InReach == Elements(channel) \cup cancels \cup Top

\* "Leaving the page without submitting cancels the parked operation": every
\* parked operation has its prompt queued, on screen or being cancelled,
\* unless the engine that held the prompt is gone ...
PromptsAccounted == \A i \in Ids : Waiting(i) => i \in InReach \cup lost \cup blind
\* ... and with no exception for a page that something else popped.
LeavingCancels == \A i \in blind : ~Waiting(i)

\* One answer per prompt: an operation gets an answer only while it is parked
\* on no prompt, so that the late answer of an earlier prompt, or the second
\* answer of one, cannot be taken for the answer of the next.
OneAnswer == \A o \in Op : answer[o] # None => \A i \in Ids : pending[i] # o

\* Every prompt can still be answered, and is answered once.
PromptsAnswered == PromptsAccounted /\ OneAnswer
=============================================================================
