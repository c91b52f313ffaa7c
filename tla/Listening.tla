------------------------------ MODULE Listening ------------------------------
(***************************************************************************)
(* ListeningController (lib/features/bookshelf/listening/                  *)
(* listening_controller.dart): reading a book aloud.                       *)
(*                                                                         *)
(* Dart runs one event at a time, so the code between two awaits is one    *)
(* step.  Every operation of the user, and the playback loop it may start, *)
(* is a task that stops at its awaits; the tasks share the session.  A task *)
(* remembers the _generation it took, and the only question ever asked of  *)
(* that number is whether it is still the current one: `owner` is the task *)
(* that took the current generation (None after _fail).                    *)
(*                                                                         *)
(* Chapters and paragraphs are numbered from 1; 0 is the empty id.  The    *)
(* books have the same chapter list.  A paragraph is one spoken chunk.     *)
(***************************************************************************)
EXTENDS Integers, FiniteSets

CONSTANTS
    Book, Task, None,
    NC,        \* chapters of a book
    NP,        \* paragraphs of a chapter
    Empty,     \* the chapters without any paragraph
    Ops,       \* the operations the user uses, of OpName
    MaxOps     \* bound: operations in a behaviour

OpName == {"start", "startHere", "pause", "resume", "stop", "move", "configure",
           "timer", "atEnd", "read", "open", "throw"}

ASSUME ListeningAssumption ==
    /\ NC \in Nat \ {0} /\ NP \in Nat \ {0} /\ MaxOps \in Nat
    /\ Empty \subseteq 1 .. NC
    /\ Ops \subseteq OpName
    /\ None \notin Book \cup Task

VARIABLES
    session,     \* the fields of the controller
    owner,       \* the task whose generation is _generation
    configurer,  \* the task whose configuration is _configuration
    pc,          \* the await each task is at
    arg,         \* what the task keeps across that await
    utter,       \* the tasks the engine is speaking for
    saved,       \* the reading progress of each book
    ops,         \* operations used up
    wanted,      \* history: the book of the last request, when that was a start
    pauseAsked,  \* history: a pause was asked for, and nothing else since
    lapses,      \* history: what went past the generation counter, of Lapse
    reopened     \* history: the books whose reader has opened and saved its place
                 \* since the loop saved a place of them

vars == <<session, owner, configurer, pc, arg, utter, saved, ops, wanted, pauseAsked, lapses, reopened>>

\* overtaken: moveParagraph or configure went on after another request had come;
\* superseded: of two configurations, neither resumed the playback they paused;
\* dropped: a pause came while an operation was at an await, and did nothing.
Lapse == {"overtaken", "superseded", "dropped"}

Pc == {"idle", "startStop", "startFetch", "saveChapter", "take", "saveParagraph",
       "speak", "pauseStop", "resumeRead", "moveBack", "moveNext", "configureStop"}

Chapter == 1 .. NC
Content == Book \X Chapter
Position == (0 .. NC) \X (0 .. NP)
NoPosition == <<0, 0>>    \* no progress recorded

TypeOK ==
    /\ session \in [status : {"idle", "loading", "playing", "paused", "completed", "error"},
                    book : Book \cup {None}, chapter : 0 .. NC, par : 0 .. NP,
                    loaded : BOOLEAN, index : 1 .. NC + 1, at : 1 .. NP,
                    paras : Content \cup {None}, slot : Content \cup {None},
                    sleep : {"off", "armed", "due", "spent", "atEnd"}]
    /\ owner \in Task \cup {None} /\ configurer \in Task \cup {None}
    /\ pc \in [Task -> Pc]
    /\ arg \in [Task -> (Book \cup {None}) \X (0 .. NC) \X (0 .. NP)]
    /\ utter \subseteq {t \in Task : pc[t] = "speak"}
    /\ saved \in [Book -> Position]
    /\ ops \in 0 .. MaxOps
    /\ lapses \subseteq Lapse /\ reopened \subseteq Book

NoArg == <<None, 0, 0>>

Init ==
    /\ session = [status |-> "idle", book |-> None, chapter |-> 0, par |-> 0,
                  loaded |-> FALSE, index |-> 1, at |-> 1, paras |-> None,
                  slot |-> None, sleep |-> "off"]
    /\ owner = None /\ configurer = None
    /\ pc = [t \in Task |-> "idle"] /\ arg = [t \in Task |-> NoArg]
    /\ utter = {}
    /\ saved = [b \in Book |-> NoPosition]
    /\ ops = 0 /\ wanted = None /\ pauseAsked = FALSE /\ lapses = {} /\ reopened = {}

-----------------------------------------------------------------------------
(* Steps the operations are made of                                        *)

Active == session.status \in {"playing", "loading"}

Live(t) == owner = t

Await(t, at, a) == pc' = [pc EXCEPT ![t] = at] /\ arg' = [arg EXCEPT ![t] = a]

Ends(t) == Await(t, "idle", NoArg)

Own(t) == owner' = t

\* SpeechEngine.stop: what is being spoken falls silent at once; its speak()
\* returns later.
Silence == utter' = {}

\* _syncParagraphIndex: the paragraph of the id, or the first one.
Synced(par) == IF par = 0 THEN 1 ELSE par

\* _kickPrefetch: the slot is set to the chapter after this one.
Prefetched(s) ==
    IF s.index < NC THEN [s EXCEPT !.slot = <<s.book, s.index + 1>>] ELSE s

\* Mutant: progress is written before the paragraph is moved on.
SpeakParagraphLate(t, s) ==
    /\ session' = [s EXCEPT !.status = "playing", !.par = s.at]
    /\ saved' = [saved EXCEPT ![s.book] = <<s.chapter, s.par>>]
    /\ Await(t, "saveParagraph", NoArg)
    /\ Own(t) /\ UNCHANGED utter

\* The head of the inner loop: the paragraph becomes the progress.
SpeakParagraph(t, s) ==
    /\ session' = [s EXCEPT !.status = "playing", !.par = s.at]
    /\ saved' = [saved EXCEPT ![s.book] = <<s.chapter, s.at>>]
    /\ Await(t, "saveParagraph", NoArg)
    /\ Own(t) /\ UNCHANGED utter

\* _takeParagraphs: from the slot if it is this chapter's, else a fetch.
TakeParagraphs(t, s) ==
    LET content == IF s.slot # None /\ s.slot[2] = s.index THEN s.slot
                                                           ELSE <<s.book, s.index>>
    IN  /\ session' = [s EXCEPT !.slot = None]
        /\ Await(t, "take", <<content[1], content[2], 0>>)

\* The head of the outer loop, for a chapter that is not in memory.
LoadChapter(t, s) ==
    LET turned == s.index # s.chapter
        here   == [s EXCEPT !.chapter = s.index, !.par = IF turned THEN 0 ELSE s.par]
    IN  /\ Own(t) /\ UNCHANGED utter
        /\ IF here.par = 0
             THEN /\ session' = here
                  /\ saved' = [saved EXCEPT ![s.book] = <<here.chapter, 0>>]
                  /\ Await(t, "saveChapter", NoArg)
             ELSE TakeParagraphs(t, here) /\ UNCHANGED saved

\* pause() of an active session.  The new generation is this task's.
PauseFrom(t, s, next) ==
    /\ session' = [s EXCEPT !.status = "paused"]
    /\ Own(t) /\ Silence /\ UNCHANGED saved
    /\ Await(t, next, NoArg)

\* _run from the head of its outer loop, for a task that holds the generation.
Run(t, s) ==
    \/ /\ s.index > NC
       /\ session' = [s EXCEPT !.status = "completed"]
       /\ Own(t) /\ Ends(t) /\ UNCHANGED <<utter, saved>>
    \/ /\ s.index <= NC /\ s.sleep = "due"
       /\ PauseFrom(t, [s EXCEPT !.sleep = "spent"], "pauseStop")
    \/ /\ s.index <= NC /\ s.sleep # "due"
       /\ IF s.paras = None \/ s.index # s.chapter
            THEN LoadChapter(t, s)
            ELSE SpeakParagraph(t, Prefetched(s))

\* The chapter is finished: the next one, or a pause for the sleep timer.
EndChapter(t, s) ==
    LET after == [s EXCEPT !.index = s.index + 1, !.paras = None, !.at = 1]
    IN  IF after.sleep = "atEnd" /\ after.index <= NC
          THEN PauseFrom(t, [after EXCEPT !.sleep = "off"], "pauseStop")
          ELSE Run(t, after)

\* _fail: no generation is current any more.
Fail(t) ==
    /\ session' = [session EXCEPT !.status = "error"]
    /\ owner' = None /\ Silence
    /\ Ends(t) /\ UNCHANGED saved

\* A task that finds the generation taken from it returns.
GiveUp(t) == ~Live(t) /\ Ends(t) /\ UNCHANGED <<session, owner, utter, saved>>

-----------------------------------------------------------------------------
(* Operations                                                              *)

\* start, up to its first await.
Start(t, b, position) ==
    /\ Own(t) /\ Silence
    /\ Await(t, "startStop", <<b, position[1], position[2]>>)
    /\ UNCHANGED <<session, saved>>

\* Mutant: the status follows the engine instead of leading it.
PauseLate(t) ==
    IF Active THEN Own(t) /\ Silence /\ Await(t, "pauseStop", NoArg) /\ UNCHANGED <<session, saved>>
              ELSE UNCHANGED <<session, owner, utter, saved, pc, arg>>

\* pause() does nothing to a session that is not active.
Pause(t) ==
    IF Active THEN PauseFrom(t, session, "pauseStop")
              ELSE UNCHANGED <<session, owner, utter, saved, pc, arg>>

\* resume: from memory after one read of the progress, or from the start.
Resume(t) ==
    IF session.status = "paused" /\ session.loaded /\ session.chapter # 0
      THEN /\ Own(t) /\ Await(t, "resumeRead", NoArg)
           /\ UNCHANGED <<session, utter, saved>>
      ELSE Start(t, session.book, NoPosition)

Stop(t) ==
    /\ session' = [session EXCEPT !.status = "idle", !.sleep = "off", !.paras = None,
                                  !.loaded = FALSE, !.slot = None]
    /\ Own(t) /\ Silence /\ UNCHANGED saved
    /\ Await(t, "pauseStop", NoArg)

Clamped(i) == IF i < 1 THEN 1 ELSE IF i > NP THEN NP ELSE i

\* moveParagraph after its pause(): whoever holds the generation by now.
MoveNow(t, delta) ==
    IF session.paras = None
      THEN Ends(t) /\ UNCHANGED <<session, owner, utter, saved>>
      ELSE LET i == Clamped(session.at + delta)
           IN  Run(t, [session EXCEPT !.at = i, !.par = i, !.status = "loading"])

Move(t, delta) ==
    IF Active
      THEN PauseFrom(t, session, IF delta < 0 THEN "moveBack" ELSE "moveNext")
      ELSE MoveNow(t, delta)

\* configure: the new configuration outdates the pending ones, playing or not.
Configure(t) ==
    /\ configurer' = t
    /\ IF Active THEN PauseFrom(t, session, "configureStop")
                 ELSE UNCHANGED <<session, owner, utter, saved, pc, arg>>

-----------------------------------------------------------------------------
(* What follows each await                                                 *)

\* Mutant: the generation is not looked at again after the engine has stopped.
StartStoppedAnyway(t) ==
    /\ pc[t] = "startStop"
    /\ session' = [session EXCEPT !.book = arg[t][1], !.chapter = arg[t][2],
                                  !.par = arg[t][3], !.paras = None, !.loaded = FALSE,
                                  !.slot = None, !.status = "loading"]
    /\ Await(t, "startFetch", NoArg)
    /\ UNCHANGED <<owner, utter, saved>>

\* Mutant: a start leaves the prefetch slot as it is.
StartStoppedSlotKept(t) ==
    /\ pc[t] = "startStop"
    /\ \/ GiveUp(t)
       \/ /\ Live(t)
          /\ session' = [session EXCEPT !.book = arg[t][1], !.chapter = arg[t][2],
                                        !.par = arg[t][3], !.paras = None,
                                        !.loaded = FALSE, !.status = "loading"]
          /\ Await(t, "startFetch", NoArg)
          /\ UNCHANGED <<owner, utter, saved>>

StartStopped(t) ==
    /\ pc[t] = "startStop"
    /\ \/ GiveUp(t)
       \/ /\ Live(t)
          /\ session' = [session EXCEPT !.book = arg[t][1], !.chapter = arg[t][2],
                                        !.par = arg[t][3], !.paras = None,
                                        !.loaded = FALSE, !.slot = None,
                                        !.status = "loading"]
          /\ Await(t, "startFetch", NoArg)
          /\ UNCHANGED <<owner, utter, saved>>

\* The progress (asked for when no chapter was given) and the chapter list.
StartFetched(t) ==
    /\ pc[t] = "startFetch"
    /\ \/ GiveUp(t)
       \/ /\ Live(t)
          /\ LET from == IF session.chapter = 0 THEN saved[session.book]
                                                ELSE <<session.chapter, session.par>>
             IN  Run(t, [session EXCEPT
                           !.chapter = from[1], !.par = from[2], !.loaded = TRUE,
                           !.index = IF from[1] = 0 THEN 1 ELSE from[1]])

ChapterSaved(t) ==
    /\ pc[t] = "saveChapter"
    /\ \/ GiveUp(t)
       \/ Live(t) /\ TakeParagraphs(t, session) /\ UNCHANGED <<owner, utter, saved>>

Taken(t) ==
    /\ pc[t] = "take"
    /\ \/ GiveUp(t)
       \/ /\ Live(t)
          /\ LET s == [session EXCEPT !.at = Synced(session.par),
                                      !.paras = <<arg[t][1], arg[t][2]>>]
             IN  IF arg[t][2] \in Empty THEN EndChapter(t, Prefetched(s))
                                        ELSE SpeakParagraph(t, Prefetched(s))

\* Mutant: the generation is not looked at again before the first chunk.
ParagraphSavedAnyway(t) ==
    /\ pc[t] = "saveParagraph"
    /\ Await(t, "speak", NoArg)
    /\ utter' = utter \cup {t}
    /\ UNCHANGED <<session, owner, saved>>

ParagraphSaved(t) ==
    /\ pc[t] = "saveParagraph"
    /\ \/ GiveUp(t)
       \/ /\ Live(t)
          /\ Await(t, "speak", NoArg)
          /\ utter' = utter \cup {t}
          /\ UNCHANGED <<session, owner, saved>>

\* The utterance comes to its end (a silenced one already has).
UtteranceEnds(t) ==
    /\ t \in utter
    /\ utter' = utter \ {t}
    /\ UNCHANGED <<session, owner, configurer, pc, arg, saved, ops, wanted, pauseAsked, lapses, reopened>>

\* speak() has returned: the next paragraph, or the end of the chapter.
Spoken(t) ==
    /\ pc[t] = "speak" /\ t \notin utter
    /\ \/ GiveUp(t)
       \/ Live(t) /\ session.at < NP /\ SpeakParagraph(t, [session EXCEPT !.at = @ + 1])
       \/ Live(t) /\ session.at = NP /\ EndChapter(t, session)

PauseStopped(t) ==
    /\ pc[t] = "pauseStop"
    /\ Ends(t)
    /\ UNCHANGED <<session, owner, utter, saved>>

\* Mutant: the paragraph is looked up, the chapter is not.
ResumeReadParagraph(t) ==
    /\ pc[t] = "resumeRead"
    /\ \/ GiveUp(t)
       \/ /\ Live(t)
          /\ LET par == saved[session.book][2]
             IN  Run(t, [session EXCEPT !.par = par, !.at = Synced(par), !.status = "loading"])

\* The progress wins over the place in memory.
ResumeRead(t) ==
    /\ pc[t] = "resumeRead"
    /\ \/ GiveUp(t)
       \/ /\ Live(t)
          /\ LET progress == saved[session.book]
                 moved == progress # NoPosition /\ progress[1] # session.chapter
                 there == progress # NoPosition /\ progress[2] # session.par
                 s == IF moved THEN [session EXCEPT !.index = progress[1], !.paras = None,
                                                    !.chapter = progress[1], !.par = progress[2]]
                      ELSE IF there THEN [session EXCEPT !.par = progress[2],
                                                         !.at = Synced(progress[2])]
                      ELSE session
             IN  Run(t, [s EXCEPT !.status = "loading"])

MoveStopped(t) ==
    \/ pc[t] = "moveBack" /\ MoveNow(t, -1)
    \/ pc[t] = "moveNext" /\ MoveNow(t, 1)

\* configure after its pause(): only a later configure stops it from resuming.
ConfigureStopped(t) ==
    /\ pc[t] = "configureStop"
    /\ IF configurer = t /\ ~Active /\ session.book # None
         THEN Resume(t)
         ELSE Ends(t) /\ UNCHANGED <<session, owner, utter, saved>>

\* Mutant: an await that throws ends its task and nothing else.
ThrowSwallowed(t) ==
    /\ "throw" \in Ops
    /\ pc[t] \in Pc \ {"idle", "moveBack", "moveNext", "configureStop"}
    /\ Live(t)
    /\ Ends(t) /\ utter' = utter \ {t}
    /\ UNCHANGED <<session, owner, saved>>

\* An await throws, or a speak() times out.  The task fails the session if it is
\* still its own; if not, it returns as it would have anyway.  (pause() swallows
\* what engine.stop throws, and moveParagraph and configure go on after it.)
Throw(t) ==
    /\ "throw" \in Ops
    /\ pc[t] \in Pc \ {"idle", "moveBack", "moveNext", "configureStop"}
    /\ Live(t)
    /\ Fail(t)

-----------------------------------------------------------------------------
(* The specification                                                       *)

\* A pause that does nothing, while an operation that will play is at an await.
PauseDropped ==
    /\ ~Active
    /\ \E t \in Task : \/ Live(t) /\ pc[t] \in {"startStop", "resumeRead"}
                       \/ pc[t] \in {"moveBack", "moveNext", "configureStop"}

\* What the step of t passes by when it goes on after its pause().
Passes(t) ==
    {kind \in {"overtaken", "superseded"} :
       IF kind = "overtaken" THEN ~Live(t) /\ pc[t] \in {"moveBack", "moveNext", "configureStop"}
                             ELSE configurer # t /\ pc[t] = "configureStop"}

\* A request of the user, or of the system on the user's behalf.
Request(op, start, asksPause) ==
    /\ op \in Ops /\ ops < MaxOps
    /\ ops' = ops + 1
    /\ wanted' = start
    /\ pauseAsked' = asksPause
    /\ lapses' = IF op = "pause" /\ PauseDropped THEN lapses \cup {"dropped"} ELSE lapses

\* The saves of the loop are the steps that stop at the await of one.
Records(t) ==
    reopened' = IF pc'[t] \in {"saveChapter", "saveParagraph"} THEN reopened \ {session'.book}
                                                             ELSE reopened

Requests(t) ==
    /\ pc[t] = "idle"
    /\ \/ \E b \in Book : /\ Request("start", b, FALSE)
                          /\ Start(t, b, NoPosition)
                          /\ UNCHANGED configurer
       \/ \E b \in Book, c \in Chapter, p \in 0 .. NP :
             /\ Request("startHere", b, FALSE)
             /\ Start(t, b, <<c, p>>)
             /\ UNCHANGED configurer
       \/ Request("pause", None, TRUE) /\ Pause(t) /\ UNCHANGED configurer
       \/ /\ session.book # None /\ ~Active
          /\ Request("resume", None, FALSE) /\ Resume(t) /\ UNCHANGED configurer
       \/ Request("stop", None, FALSE) /\ Stop(t) /\ UNCHANGED configurer
       \/ /\ session.paras # None
          /\ Request("move", None, ~Active /\ session.sleep = "due")
          /\ \E delta \in {-1, 1} : Move(t, delta)
          /\ UNCHANGED configurer
       \/ Request("configure", IF Active THEN None ELSE wanted, pauseAsked) /\ Configure(t)
    /\ Records(t)

\* setSleepTimer: either a deadline or the end of the chapter.
SetSleepTimer ==
    /\ \E mode \in {<<"timer", "armed">>, <<"atEnd", "atEnd">>} :
          /\ Request(mode[1], wanted, pauseAsked)
          /\ session' = [session EXCEPT !.sleep = mode[2]]
    /\ UNCHANGED <<owner, configurer, pc, arg, utter, saved, reopened>>

DeadlinePasses ==
    /\ session.sleep = "armed"
    /\ session' = [session EXCEPT !.sleep = "due"]
    /\ UNCHANGED <<owner, configurer, pc, arg, utter, saved, ops, wanted, pauseAsked, lapses, reopened>>

\* The timer's callback clears the deadline and pauses.
TimerFires(t) ==
    /\ session.sleep \in {"due", "spent"} /\ pc[t] = "idle"
    /\ LET s == [session EXCEPT !.sleep = "off"]
       IN  IF Active THEN PauseFrom(t, s, "pauseStop")
                     ELSE session' = s /\ UNCHANGED <<owner, utter, saved, pc, arg>>
    /\ wanted' = None /\ pauseAsked' = TRUE
    /\ lapses' = IF PauseDropped THEN lapses \cup {"dropped"} ELSE lapses
    /\ UNCHANGED <<configurer, ops, reopened>>

\* Listening has shown the reader of b a paragraph: from then on what the views
\* report is not saved, and what was waiting to be saved is dropped.
Follows(b) == Active /\ session.book = b /\ ~(session.status = "loading" /\ session.par = 0)

\* Reading by hand records the progress of a book that is not being spoken.
ReadByHand ==
    /\ Request("read", wanted, pauseAsked)
    /\ \E b \in Book, c \in Chapter, p \in 1 .. NP :
          /\ ~Follows(b)
          /\ saved' = [saved EXCEPT ![b] = <<c, p>>]
    /\ UNCHANGED <<session, owner, configurer, pc, arg, utter, reopened>>

\* A reader that opens saves the place it opens at, whether or not its book is
\* being spoken: initialize reports it past the gate of the page, and the save
\* follows unless listening shows the page a paragraph before.
OpenReader ==
    /\ Request("open", wanted, pauseAsked)
    /\ \E b \in Book, c \in Chapter, p \in 0 .. NP :
          /\ saved' = [saved EXCEPT ![b] = <<c, p>>]
          /\ reopened' = reopened \cup {b}
    /\ UNCHANGED <<session, owner, configurer, pc, arg, utter>>

Answered(t) ==
    /\ \/ StartStopped(t) \/ StartFetched(t) \/ ChapterSaved(t) \/ Taken(t)
       \/ ParagraphSaved(t) \/ Spoken(t) \/ PauseStopped(t) \/ ResumeRead(t)
       \/ MoveStopped(t) \/ ConfigureStopped(t) \/ Throw(t)
    /\ wanted' = IF owner' = None THEN None ELSE wanted
    /\ pauseAsked' = (pauseAsked \/ session'.sleep # session.sleep)
    /\ lapses' = lapses \cup Passes(t)
    /\ Records(t)
    /\ UNCHANGED <<configurer, ops>>

Next ==
    \/ \E t \in Task : Requests(t) \/ Answered(t) \/ UtteranceEnds(t) \/ TimerFires(t)
    \/ SetSleepTimer \/ DeadlinePasses \/ ReadByHand \/ OpenReader

\* Every await is answered: platform and backend calls return or throw, and an
\* utterance ends or is timed out after three minutes.
Fairness == \A t \in Task : WF_vars(Answered(t)) /\ WF_vars(UtteranceEnds(t))

Spec == Init /\ [][Next]_vars /\ Fairness

-----------------------------------------------------------------------------
(* Properties                                                              *)

(* A session that shows itself as loading or playing is never left without *)
(* anything that drives it: the task of the current generation is at an    *)
(* await of start() or of the playback loop.                               *)
ActiveIsDriven ==
    Active => \E t \in Task :
                 /\ Live(t)
                 /\ pc[t] \in {"startStop", "startFetch", "saveChapter", "take",
                               "saveParagraph", "speak"}

(* While a paragraph is spoken, it is the progress on record: listening    *)
(* that is stopped anywhere is resumed at what was heard last, and what    *)
(* the views of a reader report never fights the loop over the record. A   *)
(* reader of the book that opens meanwhile does: the place it opens at is  *)
(* on record until the loop comes to the next paragraph.                   *)
SpokenIsRecorded ==
    \A t \in Task :
        Live(t) /\ t \in utter =>
            /\ session.par = session.at
            /\ saved[session.book] = <<session.chapter, session.par>> \/ session.book \in reopened

(* The paragraphs in memory are those of the chapter and book played, also *)
(* when they come from the prefetch slot, after restarts and jumps.        *)
ContentOfChapter ==
    session.paras # None => /\ session.paras = <<session.book, session.chapter>>
                            /\ session.index = session.chapter

(* The generation counter lets only one task speak at a time, unless a      *)
(* moveParagraph or configure went on although it had been overtaken: those *)
(* two take a new generation without asking for theirs.                    *)
OneVoice == "overtaken" \in lapses \/ Cardinality(utter) <= 1

(* Of the requests, the last one wins: a start that nothing came after is  *)
(* the book played, whatever the tasks that it overtook still do (with the *)
(* same exception).                                                        *)
LastStartWins ==
    wanted # None /\ (\A t \in Task : pc[t] # "startStop") /\ "overtaken" \notin lapses
        => session.book = wanted

(* One book is heard at a time, and it is the one asked for last.          *)
OneListening == OneVoice /\ LastStartWins

(* Playback that was asked to pause, by the user, the sleep timer or the   *)
(* system that hides the application, is silent until it is asked to play, *)
(* unless the pause was dropped or an overtaken operation went on.         *)
PauseHolds == pauseAsked /\ lapses \cap {"overtaken", "dropped"} = {} => utter = {}

(* The session only comes to rest paused when a pause was asked for, or of *)
(* two changes of the configuration neither resumed it.                    *)
PausedOnRequest ==
    session.status = "paused" /\ (\A t \in Task : pc[t] = "idle") /\ "superseded" \notin lapses
        => pauseAsked

(* A pause is asked for, and then it holds.                                *)
PauseIsKept == PauseHolds /\ PausedOnRequest

(* Resuming follows the reader: when the progress was moved while playback *)
(* was paused within a chapter, resume() goes on in the chapter of the     *)
(* progress.  (A pause between two chapters is told by the index, which is *)
(* a chapter ahead by then.)                                               *)
ResumesAtProgress ==
    [][\A t \in Task :
          LET progress == saved[session.book]
          IN  /\ ResumeRead(t) /\ Live(t)
              /\ session.index = session.chapter
              /\ progress \notin {NoPosition, <<session.chapter, session.par>>}
              => session'.chapter = progress[1]]_vars

(* Loading always ends: in speech, in an error, or because the user turned *)
(* to something else.                                                      *)
Settles == session.status = "loading" ~> session.status # "loading"

-----------------------------------------------------------------------------
(* What the documentation says, and the code does not do                   *)

(* docs/search-comments-listening.md: "Playback pauses when the            *)
(* application is hidden or backgrounded".                                 *)
HiddenIsSilent == pauseAsked => utter = {}
=============================================================================
