---------------------------- MODULE ListeningProofs ---------------------------
(* What holds of a listening session whatever operations interleave.         *)
EXTENDS Listening, TLAPS, FiniteSetTheorems

Sessions == [status : {"idle", "loading", "playing", "paused", "completed", "error"},
             book : Book \cup {None}, chapter : 0 .. NC, par : 0 .. NP,
             loaded : BOOLEAN, index : 1 .. NC + 1, at : 1 .. NP,
             paras : Content \cup {None}, slot : Content \cup {None},
             sleep : {"off", "armed", "due", "spent", "atEnd"}]
Args == (Book \cup {None}) \X (0 .. NC) \X (0 .. NP)

Playing == {"startFetch", "saveChapter", "take", "saveParagraph", "speak"}
Driven == Playing \cup {"startStop"}
Asking == {"moveBack", "moveNext", "configureStop"}

(* A session between two steps: what was fetched or prefetched is of its book. *)
Sound(s) ==
    /\ s \in Sessions
    /\ s.status \in {"playing", "loading", "paused", "completed"} => s.book \in Book
    /\ s.paras # None => s.paras = <<s.book, s.chapter>> /\ s.index = s.chapter
    /\ s.slot # None => s.slot[1] = s.book

Types ==
    /\ owner \in Task \cup {None} /\ configurer \in Task \cup {None}
    /\ pc \in [Task -> Pc] /\ arg \in [Task -> Args]
    /\ utter \subseteq {t \in Task : pc[t] = "speak"}
    /\ ops \in 0 .. MaxOps /\ lapses \subseteq Lapse
    /\ wanted \in Book \cup {None} /\ pauseAsked \in BOOLEAN

Recorded == /\ saved \in [Book -> Position]
            /\ \A b \in Book : saved[b] # NoPosition => saved[b][1] \in Chapter

\* What the task that holds the generation may rely on at its await.
Holds(t) ==
    /\ pc[t] \in Playing => Active
    /\ pc[t] = "startFetch" => session.paras = None
    /\ pc[t] \in Playing \ {"startFetch"} => session.index = session.chapter
    /\ pc[t] = "take" => arg[t] = <<session.book, session.chapter, 0>>
    /\ pc[t] \in {"saveParagraph", "speak"} =>
          /\ session.par = session.at
          /\ saved[session.book] = <<session.chapter, session.par>> \/ session.book \in reopened
    /\ pc[t] = "resumeRead" => session.status = "paused"
    /\ Active => pc[t] \in Driven

Starts(t) == pc[t] = "startStop" => arg[t][1] \in Book

CoreInv ==
    /\ Types /\ Sound(session) /\ Recorded
    /\ \A t \in Task : Starts(t) /\ (Live(t) => Holds(t))
    /\ Active => owner \in Task

-----------------------------------------------------------------------------
(* The kinds of step, as far as the session goes.                            *)
Slot(t) ==
    /\ pc' \in [Task -> Pc] /\ arg' \in [Task -> Args]
    /\ \A u \in Task \ {t} : pc'[u] = pc[u] /\ arg'[u] = arg[u]
    /\ utter' \subseteq {u \in Task : pc'[u] = "speak"}

\* The task takes the generation, or keeps it.
Takes(t) ==
    /\ Slot(t) /\ owner' = t
    /\ Sound(session') /\ Recorded' /\ Starts(t)' /\ Holds(t)'

\* The task is over and has changed nothing.
Returns(t) ==
    /\ Slot(t) /\ pc'[t] = "idle" /\ UNCHANGED <<session, owner, saved, utter>>
    /\ Live(t) => pc[t] \notin Driven \cup {"resumeRead"}
    /\ pc[t] \in {"moveBack", "moveNext"} => session.paras = None
    /\ pc[t] = "configureStop" => configurer # t \/ session.status # "paused"

Fails(t) ==
    /\ Slot(t) /\ pc'[t] = "idle" /\ owner' = None /\ UNCHANGED saved /\ utter' = {}
    /\ Sound(session') /\ session'.status = "error"

\* Nothing changes but the sleep timer.
Rests ==
    /\ UNCHANGED <<owner, pc, arg, utter, saved>>
    /\ \E sleep \in {"off", "armed", "due", "spent", "atEnd"} :
          session' = [session EXCEPT !.sleep = sleep]

\* The task has gone on with the loop: it plays on, or it pauses for the timer.
Plays(t) ==
    /\ session'.book = session.book /\ pc'[t] \notin Asking \cup {"startStop", "resumeRead"}
    /\ \/ /\ utter' \subseteq utter \cup {t}
          /\ session'.status # "paused" /\ session'.sleep = session.sleep
       \/ /\ utter' = {} /\ pc'[t] = "pauseStop"
          /\ session'.status = "paused" /\ session'.sleep # session.sleep

-----------------------------------------------------------------------------
(* The helpers.                                                              *)
LEMMA AwaitSlot ==
    ASSUME Types, NEW t \in Task, NEW at \in Pc, NEW a \in Args, Await(t, at, a),
           utter' \subseteq utter, t \notin utter'
    PROVE  Slot(t) /\ pc'[t] = at /\ arg'[t] = a
  BY DEF Types, Await, Slot

LEMMA NoArgIs == NoArg \in Args
  <1>1. 0 \in 0 .. NC /\ 0 \in 0 .. NP
    BY ListeningAssumption
  <1>2. QED
    BY <1>1 DEF NoArg, Args

LEMMA RecordedAt ==
    ASSUME Recorded, NEW b \in Book, NEW c \in Chapter, NEW p \in 0 .. NP,
           saved' = [saved EXCEPT ![b] = <<c, p>>]
    PROVE  Recorded' /\ saved'[b] = <<c, p>>
  <1>1. c \in 0 .. NC /\ <<c, p>> \in Position
    BY ListeningAssumption DEF Chapter, Position
  <1>2. saved' \in [Book -> Position] /\ saved'[b] = <<c, p>>
        /\ \A d \in Book \ {b} : saved'[d] = saved[d]
    BY <1>1 DEF Recorded
  <1>3. \A d \in Book : saved'[d] # NoPosition => saved'[d][1] \in Chapter
    BY <1>2 DEF Recorded
  <1>4. QED
    BY <1>2, <1>3 DEF Recorded

LEMMA SpeakParagraphPlays ==
    ASSUME CoreInv, NEW t \in Task, t \notin utter, NEW s, Sound(s), s.book \in Book,
           s.index = s.chapter, s.book = session.book, s.sleep = session.sleep,
           SpeakParagraph(t, s)
    PROVE  Takes(t) /\ Plays(t) /\ session'.chapter = s.chapter /\ session'.status = "playing"
  <1>0. s \in Sessions /\ Types /\ Recorded
    BY DEF Sound, CoreInv
  <1>1. session' = [s EXCEPT !.status = "playing", !.par = s.at] /\ owner' = t /\ utter' = utter
        /\ saved' = [saved EXCEPT ![s.book] = <<s.chapter, s.at>>]
    BY DEF SpeakParagraph, Own
  <1>2. Slot(t) /\ pc'[t] = "saveParagraph"
    BY <1>0, <1>1, AwaitSlot, NoArgIs DEF SpeakParagraph, Pc
  <1>3. /\ session' \in Sessions
        /\ session'.status = "playing" /\ session'.par = s.at /\ session'.at = s.at
        /\ session'.book = s.book /\ session'.chapter = s.chapter /\ session'.index = s.index
        /\ session'.paras = s.paras /\ session'.slot = s.slot /\ session'.sleep = s.sleep
    <2>1. s.at \in 0 .. NP
      BY <1>0, ListeningAssumption DEF Sessions
    <2>2. session' \in Sessions
      BY <1>0, <1>1, <2>1 DEF Sessions
    <2>3. QED
      BY <1>0, <1>1, <2>2 DEF Sessions
  <1>4. Sound(session')
    BY <1>3 DEF Sound
  <1>5. s.chapter \in Chapter /\ s.at \in 0 .. NP /\ s.chapter \in 0 .. NC
    BY <1>0, ListeningAssumption DEF Sessions, Chapter
  <1>6. Recorded' /\ saved'[s.book] = <<s.chapter, s.at>>
    BY <1>0, <1>1, <1>5, RecordedAt
  <1>7. Starts(t)' /\ Holds(t)'
    BY <1>2, <1>3, <1>6 DEF Starts, Holds, Playing, Driven, Active
  <1>8. QED
    BY <1>1, <1>2, <1>3, <1>4, <1>6, <1>7 DEF Takes, Plays, Asking

LEMMA PauseTakes ==
    ASSUME CoreInv, NEW t \in Task, NEW s, Sound(s), s.book \in Book,
           NEW next \in {"pauseStop", "moveBack", "moveNext", "configureStop"},
           PauseFrom(t, s, next)
    PROVE  /\ Takes(t) /\ utter' = {} /\ pc'[t] = next
           /\ session'.status = "paused" /\ session'.book = s.book /\ session'.paras = s.paras
           /\ session'.chapter = s.chapter /\ session'.sleep = s.sleep
  <1>0. s \in Sessions /\ Types /\ Recorded
    BY DEF Sound, CoreInv
  <1>1. session' = [s EXCEPT !.status = "paused"] /\ owner' = t /\ utter' = {} /\ saved' = saved
    BY DEF PauseFrom, Own, Silence
  <1>2. Slot(t) /\ pc'[t] = next
    BY <1>0, <1>1, AwaitSlot, NoArgIs DEF PauseFrom, Pc
  <1>3. session' \in Sessions
    BY <1>0, <1>1 DEF Sessions
  <1>4. /\ session'.status = "paused" /\ session'.book = s.book /\ session'.chapter = s.chapter
        /\ session'.index = s.index /\ session'.paras = s.paras /\ session'.slot = s.slot
        /\ session'.sleep = s.sleep
    BY <1>0, <1>1 DEF Sessions
  <1>5. Sound(session')
    BY <1>3, <1>4 DEF Sound
  <1>6. Recorded'
    BY <1>0, <1>1 DEF Recorded
  <1>7. Starts(t)' /\ Holds(t)'
    BY <1>2, <1>4 DEF Starts, Holds, Playing, Driven, Active
  <1>8. QED
    BY <1>1, <1>2, <1>4, <1>5, <1>6, <1>7 DEF Takes

LEMMA PrefetchedSound ==
    ASSUME NEW s, Sound(s), s.book \in Book
    PROVE  /\ Sound(Prefetched(s))
           /\ Prefetched(s).book = s.book /\ Prefetched(s).index = s.index
           /\ Prefetched(s).chapter = s.chapter /\ Prefetched(s).sleep = s.sleep
           /\ Prefetched(s).status = s.status
  <1>0. s \in Sessions
    BY DEF Sound
  <1>1. CASE s.index >= NC
    BY <1>0, <1>1, ListeningAssumption DEF Prefetched, Sessions
  <1>2. CASE s.index < NC
    <2> DEFINE next == <<s.book, s.index + 1>>
               p == [s EXCEPT !.slot = next]
    <2>1. next \in Content /\ next[1] = s.book
      BY <1>0, <1>2, ListeningAssumption DEF Content, Chapter, Sessions
    <2>2. p \in Sessions
      BY <1>0, <2>1 DEF Sessions
    <2>3. /\ p.slot = next /\ p.book = s.book /\ p.index = s.index /\ p.chapter = s.chapter
          /\ p.sleep = s.sleep /\ p.status = s.status /\ p.paras = s.paras
      BY <1>0 DEF Sessions
    <2>4. Prefetched(s) = p
      BY <1>2 DEF Prefetched
    <2>5. QED
      BY <2>1, <2>2, <2>3, <2>4 DEF Sound
  <1>3. QED
    BY <1>0, <1>1, <1>2, ListeningAssumption DEF Sessions

LEMMA TakeParagraphsTakes ==
    ASSUME CoreInv, NEW t \in Task, t \notin utter, NEW s, Sound(s), s.book \in Book,
           s.index = s.chapter, s.status \in {"playing", "loading"},
           TakeParagraphs(t, s), owner' = t, utter' = utter, saved' = saved
    PROVE  /\ Takes(t) /\ pc'[t] = "take"
           /\ session'.status = s.status /\ session'.book = s.book
           /\ session'.chapter = s.chapter /\ session'.sleep = s.sleep
  <1>0. s \in Sessions /\ Types /\ Recorded
    BY DEF Sound, CoreInv
  <1>1. s.slot \in Content \cup {None} /\ s.index \in 1 .. NC + 1 /\ s.chapter \in 0 .. NC
    BY <1>0 DEF Sessions
  <1>2. (IF s.slot # None /\ s.slot[2] = s.index THEN s.slot ELSE <<s.book, s.index>>)
        = <<s.book, s.chapter>>
    BY <1>1 DEF Sound, Content
  <1>3. session' = [s EXCEPT !.slot = None] /\ Await(t, "take", <<s.book, s.chapter, 0>>)
    BY <1>2 DEF TakeParagraphs
  <1>4. <<s.book, s.chapter, 0>> \in Args /\ "take" \in Pc
    BY <1>1, ListeningAssumption DEF Args, Pc
  <1>5. Slot(t) /\ pc'[t] = "take" /\ arg'[t] = <<s.book, s.chapter, 0>>
    BY <1>0, <1>3, <1>4, AwaitSlot
  <1>6. session' \in Sessions
    BY <1>0, <1>3 DEF Sessions
  <1>7. /\ session'.status = s.status /\ session'.book = s.book /\ session'.chapter = s.chapter
        /\ session'.index = s.index /\ session'.paras = s.paras /\ session'.slot = None
        /\ session'.sleep = s.sleep
    BY <1>0, <1>3 DEF Sessions
  <1>8. Sound(session') /\ Recorded'
    BY <1>0, <1>6, <1>7 DEF Sound, Recorded
  <1>9. Starts(t)' /\ Holds(t)'
    BY <1>5, <1>7 DEF Starts, Holds, Playing, Driven, Active
  <1>10. QED
    BY <1>5, <1>7, <1>8, <1>9 DEF Takes

LEMMA LoadChapterTakes ==
    ASSUME CoreInv, NEW t \in Task, t \notin utter, NEW s, Sound(s), s.book \in Book,
           s.index <= NC, s.paras = None \/ s.index # s.chapter,
           s.status \in {"playing", "loading"}, LoadChapter(t, s)
    PROVE  /\ Takes(t) /\ pc'[t] \in {"saveChapter", "take"} /\ utter' = utter
           /\ session'.status = s.status /\ session'.book = s.book
           /\ session'.chapter = s.index /\ session'.sleep = s.sleep
  <1>0. s \in Sessions /\ Types /\ Recorded
    BY DEF Sound, CoreInv
  <1> DEFINE here == [s EXCEPT !.chapter = s.index,
                               !.par = IF s.index # s.chapter THEN 0 ELSE s.par]
  <1>1. s.index \in Chapter /\ s.index \in 0 .. NC /\ 0 \in 0 .. NP
    BY <1>0, ListeningAssumption DEF Sessions, Chapter
  <1>2. here \in Sessions
    BY <1>0, <1>1 DEF Sessions
  <1>3. /\ here.status = s.status /\ here.book = s.book /\ here.chapter = s.index
        /\ here.index = s.index /\ here.paras = s.paras /\ here.slot = s.slot
        /\ here.sleep = s.sleep
    BY <1>0 DEF Sessions
  <1>4. Sound(here)
    BY <1>2, <1>3 DEF Sound
  <1>5. owner' = t /\ utter' = utter
    BY DEF LoadChapter, Own
  <1>6. CASE here.par = 0
    <2>1. session' = here /\ saved' = [saved EXCEPT ![s.book] = <<here.chapter, 0>>]
          /\ Await(t, "saveChapter", NoArg)
      BY <1>6 DEF LoadChapter
    <2>2. Slot(t) /\ pc'[t] = "saveChapter"
      BY <1>0, <1>5, <2>1, AwaitSlot, NoArgIs DEF Pc
    <2>3. Recorded'
      BY <1>0, <1>1, <1>3, <2>1, RecordedAt
    <2> HIDE DEF here
    <2>4. Starts(t)' /\ Holds(t)'
      BY <1>3, <2>1, <2>2 DEF Starts, Holds, Playing, Driven, Active
    <2>5. QED
      BY <1>3, <1>4, <1>5, <2>1, <2>2, <2>3, <2>4 DEF Takes
  <1>7. CASE here.par # 0
    <2>1. TakeParagraphs(t, here) /\ saved' = saved
      BY <1>7 DEF LoadChapter
    <2> HIDE DEF here
    <2>2. QED
      BY <1>3, <1>4, <1>5, <2>1, TakeParagraphsTakes
  <1>8. QED
    BY <1>6, <1>7

-----------------------------------------------------------------------------
(* The loop, from either of its heads.                                       *)
LEMMA RunPlays ==
    ASSUME CoreInv, NEW t \in Task, t \notin utter, NEW s, Sound(s), s.book \in Book,
           s.status \in {"playing", "loading"},
           s.book = session.book, s.sleep = session.sleep, Run(t, s)
    PROVE  /\ Takes(t) /\ Plays(t)
           /\ s.index = s.chapter => session'.chapter = s.chapter
           /\ s.index <= NC /\ s.sleep = "due" => pc'[t] = "pauseStop"
           /\ s.sleep # "due" => session'.status # "paused"
  <1>0. s \in Sessions /\ Types /\ Recorded
    BY DEF Sound, CoreInv
  <1>1. CASE s.index > NC
    <2>1. session' = [s EXCEPT !.status = "completed"] /\ owner' = t /\ saved' = saved
          /\ utter' = utter /\ Await(t, "idle", NoArg)
      BY <1>0, <1>1, ListeningAssumption DEF Run, Own, Ends, Sessions
    <2>2. Slot(t) /\ pc'[t] = "idle"
      BY <1>0, <2>1, AwaitSlot, NoArgIs DEF Pc
    <2>3. session' \in Sessions
      BY <1>0, <2>1 DEF Sessions
    <2>4. /\ session'.status = "completed" /\ session'.book = s.book /\ session'.chapter = s.chapter
          /\ session'.index = s.index /\ session'.paras = s.paras /\ session'.slot = s.slot
          /\ session'.sleep = s.sleep
      BY <1>0, <2>1 DEF Sessions
    <2>5. Sound(session') /\ Recorded'
      BY <1>0, <2>1, <2>3, <2>4 DEF Sound, Recorded
    <2>6. Starts(t)' /\ Holds(t)'
      BY <2>2, <2>4 DEF Starts, Holds, Playing, Driven, Active
    <2>7. ~(s.index <= NC)
      BY <1>0, <1>1, ListeningAssumption DEF Sessions
    <2>8. QED
      BY <2>1, <2>2, <2>4, <2>5, <2>6, <2>7 DEF Takes, Plays, Asking
  <1>2. CASE s.index <= NC /\ s.sleep = "due"
    <2> DEFINE r == [s EXCEPT !.sleep = "spent"]
    <2>1. PauseFrom(t, r, "pauseStop")
      BY <1>0, <1>2, ListeningAssumption DEF Run, Sessions
    <2>2. r \in Sessions
      BY <1>0 DEF Sessions
    <2>3. /\ r.status = s.status /\ r.book = s.book /\ r.chapter = s.chapter /\ r.index = s.index
          /\ r.paras = s.paras /\ r.slot = s.slot /\ r.sleep = "spent"
      BY <1>0 DEF Sessions
    <2>4. Sound(r)
      BY <2>2, <2>3 DEF Sound
    <2> HIDE DEF r
    <2>5. QED
      BY <1>2, <2>1, <2>3, <2>4, PauseTakes DEF Plays, Asking
  <1>3. CASE s.index <= NC /\ s.sleep # "due"
    <2>1. CASE s.paras = None \/ s.index # s.chapter
      <3>1. LoadChapter(t, s)
        BY <1>0, <1>3, <2>1, ListeningAssumption DEF Run, Sessions
      <3>2. QED
        BY <1>3, <2>1, <3>1, LoadChapterTakes DEF Plays, Asking
    <2>2. CASE s.paras # None /\ s.index = s.chapter
      <3>1. SpeakParagraph(t, Prefetched(s))
        BY <1>0, <1>3, <2>2, ListeningAssumption DEF Run, Sessions
      <3>2. QED
        BY <1>3, <2>2, <3>1, PrefetchedSound, SpeakParagraphPlays
    <2>3. QED
      BY <2>1, <2>2
  <1>4. QED
    BY <1>0, <1>1, <1>2, <1>3, ListeningAssumption DEF Sessions

LEMMA EndChapterPlays ==
    ASSUME CoreInv, NEW t \in Task, t \notin utter, NEW s, Sound(s), s.book \in Book,
           s.status \in {"playing", "loading"}, s.index = s.chapter,
           s.book = session.book, s.sleep = session.sleep, EndChapter(t, s)
    PROVE  Takes(t) /\ Plays(t)
  <1>0. s \in Sessions
    BY DEF Sound
  <1> DEFINE after == [s EXCEPT !.index = s.index + 1, !.paras = None, !.at = 1]
  <1>1. s.index + 1 \in 1 .. NC + 1 /\ 1 \in 1 .. NP
    BY <1>0, ListeningAssumption DEF Sessions
  <1>2. after \in Sessions
    BY <1>0, <1>1 DEF Sessions
  <1>3. /\ after.status = s.status /\ after.book = s.book /\ after.paras = None
        /\ after.slot = s.slot /\ after.sleep = s.sleep
    BY <1>0 DEF Sessions
  <1>4. Sound(after)
    BY <1>2, <1>3 DEF Sound
  <1>5. CASE after.sleep = "atEnd" /\ after.index <= NC
    <2> DEFINE r == [after EXCEPT !.sleep = "off"]
    <2>1. PauseFrom(t, r, "pauseStop")
      BY <1>5 DEF EndChapter
    <2> HIDE DEF after
    <2>2. r \in Sessions
      BY <1>2 DEF Sessions
    <2>3. /\ r.status = s.status /\ r.book = s.book /\ r.paras = None /\ r.slot = s.slot
          /\ r.sleep = "off"
      BY <1>2, <1>3 DEF Sessions
    <2>4. Sound(r)
      BY <1>4, <2>2, <2>3, <1>3 DEF Sound
    <2> HIDE DEF r
    <2>5. QED
      BY <1>3, <1>5, <2>1, <2>3, <2>4, PauseTakes DEF Plays, Asking
  <1>6. CASE ~(after.sleep = "atEnd" /\ after.index <= NC)
    <2>1. Run(t, after)
      BY <1>6 DEF EndChapter
    <2> HIDE DEF after
    <2>2. QED
      BY <1>3, <1>4, <2>1, RunPlays
  <1>7. QED
    BY <1>5, <1>6

-----------------------------------------------------------------------------
(* Requests.                                                                 *)
LEMMA StartTakes ==
    ASSUME CoreInv, NEW t \in Task, NEW b \in Book, NEW position \in Position,
           Start(t, b, position)
    PROVE  Takes(t) /\ UNCHANGED session /\ utter' = {} /\ pc'[t] = "startStop" /\ arg'[t][1] = b
  <1>0. Types /\ Recorded /\ Sound(session)
    BY DEF CoreInv
  <1>1. owner' = t /\ utter' = {} /\ session' = session /\ saved' = saved
        /\ Await(t, "startStop", <<b, position[1], position[2]>>)
    BY DEF Start, Own, Silence
  <1>2. <<b, position[1], position[2]>> \in Args
    BY DEF Args, Position
  <1>3. Slot(t) /\ pc'[t] = "startStop" /\ arg'[t] = <<b, position[1], position[2]>>
    BY <1>0, <1>1, <1>2, AwaitSlot DEF Pc
  <1>4. Sound(session') /\ Recorded'
    BY <1>0, <1>1 DEF Recorded
  <1>5. Starts(t)' /\ Holds(t)'
    BY <1>3 DEF Starts, Holds, Playing, Driven
  <1>6. QED
    BY <1>1, <1>3, <1>4, <1>5 DEF Takes

LEMMA ResumeTakes ==
    ASSUME CoreInv, NEW t \in Task, t \notin utter, session.book \in Book, Resume(t)
    PROVE  /\ Takes(t) /\ UNCHANGED session /\ utter' \subseteq utter
           /\ \/ pc'[t] = "startStop" /\ arg'[t][1] = session.book
              \/ pc'[t] = "resumeRead"
  <1>0. Types /\ Recorded /\ Sound(session)
    BY DEF CoreInv
  <1>1. CASE session.status = "paused" /\ session.loaded /\ session.chapter # 0
    <2>1. owner' = t /\ utter' = utter /\ session' = session /\ saved' = saved
          /\ Await(t, "resumeRead", NoArg)
      BY <1>1 DEF Resume, Own
    <2>2. Slot(t) /\ pc'[t] = "resumeRead"
      BY <1>0, <2>1, AwaitSlot, NoArgIs DEF Pc
    <2>3. Sound(session') /\ Recorded'
      BY <1>0, <2>1 DEF Recorded
    <2>4. Starts(t)' /\ Holds(t)'
      BY <1>1, <2>1, <2>2 DEF Starts, Holds, Playing, Driven, Active
    <2>5. QED
      BY <2>1, <2>2, <2>3, <2>4 DEF Takes
  <1>2. CASE ~(session.status = "paused" /\ session.loaded /\ session.chapter # 0)
    <2>1. Start(t, session.book, NoPosition)
      BY <1>2 DEF Resume
    <2>2. NoPosition \in Position
      BY ListeningAssumption DEF NoPosition, Position
    <2>3. QED
      BY <2>1, <2>2, StartTakes
  <1>3. QED
    BY <1>1, <1>2

LEMMA StopTakes ==
    ASSUME CoreInv, NEW t \in Task, Stop(t)
    PROVE  /\ Takes(t) /\ utter' = {} /\ pc'[t] = "pauseStop"
           /\ session'.status = "idle" /\ session'.book = session.book
  <1>0. Types /\ Recorded /\ session \in Sessions
    BY DEF CoreInv, Sound
  <1>1. /\ session' = [session EXCEPT !.status = "idle", !.sleep = "off", !.paras = None,
                                      !.loaded = FALSE, !.slot = None]
        /\ owner' = t /\ utter' = {} /\ saved' = saved /\ Await(t, "pauseStop", NoArg)
    BY DEF Stop, Own, Silence
  <1>2. Slot(t) /\ pc'[t] = "pauseStop"
    BY <1>0, <1>1, AwaitSlot, NoArgIs DEF Pc
  <1>3. session' \in Sessions
    BY <1>0, <1>1 DEF Sessions
  <1>4. session'.status = "idle" /\ session'.book = session.book /\ session'.paras = None
        /\ session'.slot = None
    BY <1>0, <1>1 DEF Sessions
  <1>5. Sound(session') /\ Recorded'
    BY <1>0, <1>1, <1>3, <1>4 DEF Sound, Recorded
  <1>6. Starts(t)' /\ Holds(t)'
    BY <1>2, <1>4 DEF Starts, Holds, Playing, Driven, Active
  <1>7. QED
    BY <1>1, <1>2, <1>4, <1>5, <1>6 DEF Takes

LEMMA MoveNowPlays ==
    ASSUME CoreInv, NEW t \in Task, t \notin utter, NEW delta \in {-1, 1},
           session.paras # None, MoveNow(t, delta)
    PROVE  /\ Takes(t) /\ Plays(t)
           /\ IF session.sleep = "due" THEN pc'[t] = "pauseStop" ELSE session'.status # "paused"
  <1>0. Sound(session) /\ session \in Sessions
    BY DEF CoreInv, Sound
  <1> DEFINE i == Clamped(session.at + delta)
             s == [session EXCEPT !.at = i, !.par = i, !.status = "loading"]
  <1>1. i \in 1 .. NP /\ i \in 0 .. NP
    BY <1>0, ListeningAssumption DEF Clamped, Sessions
  <1> HIDE DEF i
  <1>2. s \in Sessions
    BY <1>0, <1>1 DEF Sessions
  <1>3. /\ s.status = "loading" /\ s.book = session.book /\ s.chapter = session.chapter
        /\ s.index = session.index /\ s.paras = session.paras /\ s.slot = session.slot
        /\ s.sleep = session.sleep
    BY <1>0 DEF Sessions
  <1>4. session.book \in Book /\ session.index <= NC
    <2>1. session.paras \in Content /\ session.paras = <<session.book, session.chapter>>
          /\ session.index = session.chapter
      BY <1>0 DEF Sound, Sessions
    <2>2. session.chapter \in 0 .. NC
      BY <1>0 DEF Sessions
    <2>3. QED
      BY <2>1, <2>2, ListeningAssumption DEF Content
  <1>5. Sound(s)
    BY <1>0, <1>2, <1>3, <1>4 DEF Sound
  <1>6. Run(t, s)
    BY DEF MoveNow, i
  <1> HIDE DEF s
  <1>7. QED
    BY <1>3, <1>4, <1>5, <1>6, RunPlays

-----------------------------------------------------------------------------
(* What follows each await.                                                  *)
LEMMA EndsReturns ==
    ASSUME CoreInv, NEW t \in Task, t \notin utter, Ends(t),
           UNCHANGED <<session, owner, utter, saved>>,
           Live(t) => pc[t] \notin Driven \cup {"resumeRead"},
           pc[t] \in {"moveBack", "moveNext"} => session.paras = None,
           pc[t] = "configureStop" => configurer # t \/ session.status # "paused"
    PROVE  Returns(t)
  <1>1. Slot(t) /\ pc'[t] = "idle"
    BY AwaitSlot, NoArgIs DEF Ends, CoreInv, Pc
  <1>2. QED
    BY <1>1 DEF Returns

LEMMA GiveUpReturns ==
    ASSUME CoreInv, NEW t \in Task, t \notin utter, GiveUp(t), pc[t] \notin Asking
    PROVE  Returns(t)
  BY EndsReturns DEF GiveUp, Asking

LEMMA StartStoppedTakes ==
    ASSUME CoreInv, NEW t \in Task, StartStopped(t)
    PROVE  \/ Returns(t)
           \/ /\ Live(t) /\ Takes(t) /\ utter' = utter /\ pc'[t] = "startFetch"
              /\ session'.book = arg[t][1] /\ session'.status = "loading"
              /\ session'.sleep = session.sleep
  <1>0. Types /\ Recorded /\ session \in Sessions /\ pc[t] = "startStop" /\ t \notin utter
    BY DEF CoreInv, Sound, StartStopped, Types
  <1>1. CASE GiveUp(t)
    BY <1>0, <1>1, GiveUpReturns DEF Asking
  <1>2. CASE ~GiveUp(t)
    <2>1. /\ Live(t)
          /\ session' = [session EXCEPT !.book = arg[t][1], !.chapter = arg[t][2],
                                        !.par = arg[t][3], !.paras = None,
                                        !.loaded = FALSE, !.slot = None, !.status = "loading"]
          /\ Await(t, "startFetch", NoArg) /\ UNCHANGED <<owner, utter, saved>>
      BY <1>2 DEF StartStopped
    <2>2. Slot(t) /\ pc'[t] = "startFetch"
      BY <1>0, <2>1, AwaitSlot, NoArgIs DEF Pc
    <2>3. arg[t] \in Args /\ arg[t][1] \in Book
      BY <1>0 DEF Types, CoreInv, Starts
    <2>4. arg[t][2] \in 0 .. NC /\ arg[t][3] \in 0 .. NP
      BY <2>3 DEF Args
    <2>5. session' \in Sessions
      BY <1>0, <2>1, <2>3, <2>4 DEF Sessions
    <2>6. /\ session'.book = arg[t][1] /\ session'.status = "loading" /\ session'.paras = None
          /\ session'.slot = None /\ session'.sleep = session.sleep
      BY <1>0, <2>1 DEF Sessions
    <2>7. Sound(session') /\ Recorded'
      BY <1>0, <2>1, <2>3, <2>5, <2>6 DEF Sound, Recorded
    <2>8. Starts(t)' /\ Holds(t)'
      BY <2>2, <2>6 DEF Starts, Holds, Playing, Driven, Active
    <2>9. QED
      BY <2>1, <2>2, <2>6, <2>7, <2>8 DEF Takes, Live
  <1>3. QED
    BY <1>1, <1>2

Goes(t) == Live(t) /\ pc[t] \in Playing \cup {"resumeRead"} /\ Takes(t) /\ Plays(t)

LEMMA StartFetchedGoes ==
    ASSUME CoreInv, NEW t \in Task, StartFetched(t)
    PROVE  Returns(t) \/ Goes(t)
  <1>0. /\ Types /\ Recorded /\ Sound(session) /\ session \in Sessions
        /\ pc[t] = "startFetch" /\ t \notin utter
    BY DEF CoreInv, Sound, StartFetched, Types
  <1>1. CASE GiveUp(t)
    BY <1>0, <1>1, GiveUpReturns DEF Asking
  <1>2. CASE ~GiveUp(t)
    <2> DEFINE from == IF session.chapter = 0 THEN saved[session.book]
                                              ELSE <<session.chapter, session.par>>
               s == [session EXCEPT !.chapter = from[1], !.par = from[2], !.loaded = TRUE,
                                    !.index = IF from[1] = 0 THEN 1 ELSE from[1]]
    <2>1. Live(t) /\ Run(t, s)
      BY <1>2 DEF StartFetched
    <2>2. session.status \in {"playing", "loading"} /\ session.book \in Book /\ session.paras = None
      BY <1>0, <2>1 DEF CoreInv, Holds, Active, Playing, Sound
    <2>3. from \in Position
      BY <1>0, <2>2 DEF Recorded, Position, Sessions
    <2> HIDE DEF from
    <2>4. from[1] \in 0 .. NC /\ from[2] \in 0 .. NP
          /\ (IF from[1] = 0 THEN 1 ELSE from[1]) \in 1 .. NC + 1
      BY <2>3, ListeningAssumption DEF Position
    <2>5. s \in Sessions
      BY <1>0, <2>4 DEF Sessions
    <2>6. /\ s.status = session.status /\ s.book = session.book /\ s.paras = None
          /\ s.slot = session.slot /\ s.sleep = session.sleep
      BY <1>0, <2>2 DEF Sessions
    <2>7. Sound(s)
      BY <1>0, <2>5, <2>6 DEF Sound
    <2> HIDE DEF s
    <2>8. QED
      BY <1>0, <2>1, <2>2, <2>6, <2>7, RunPlays DEF Goes, Playing
  <1>3. QED
    BY <1>1, <1>2

LEMMA ChapterSavedGoes ==
    ASSUME CoreInv, NEW t \in Task, ChapterSaved(t)
    PROVE  Returns(t) \/ Goes(t)
  <1>0. Types /\ Sound(session) /\ pc[t] = "saveChapter" /\ t \notin utter
    BY DEF CoreInv, ChapterSaved, Types
  <1>1. CASE GiveUp(t)
    BY <1>0, <1>1, GiveUpReturns DEF Asking
  <1>2. CASE ~GiveUp(t)
    <2>1. Live(t) /\ TakeParagraphs(t, session) /\ UNCHANGED <<owner, utter, saved>>
      BY <1>2 DEF ChapterSaved
    <2>2. session.status \in {"playing", "loading"} /\ session.book \in Book
          /\ session.index = session.chapter
      BY <1>0, <2>1 DEF CoreInv, Holds, Active, Playing, Sound
    <2>3. QED
      BY <1>0, <2>1, <2>2, TakeParagraphsTakes DEF Goes, Plays, Live, Asking, Playing
  <1>3. QED
    BY <1>1, <1>2

LEMMA TakenGoes ==
    ASSUME CoreInv, NEW t \in Task, Taken(t)
    PROVE  Returns(t) \/ Goes(t)
  <1>0. Types /\ Sound(session) /\ session \in Sessions /\ pc[t] = "take" /\ t \notin utter
    BY DEF CoreInv, Sound, Taken, Types
  <1>1. CASE GiveUp(t)
    BY <1>0, <1>1, GiveUpReturns DEF Asking
  <1>2. CASE ~GiveUp(t)
    <2> DEFINE s == [session EXCEPT !.at = Synced(session.par), !.paras = <<arg[t][1], arg[t][2]>>]
    <2>1. Live(t) /\ IF arg[t][2] \in Empty THEN EndChapter(t, Prefetched(s))
                                            ELSE SpeakParagraph(t, Prefetched(s))
      BY <1>2 DEF Taken
    <2>2. session.status \in {"playing", "loading"} /\ session.book \in Book
          /\ session.index = session.chapter /\ arg[t] = <<session.book, session.chapter, 0>>
      BY <1>0, <2>1 DEF CoreInv, Holds, Active, Playing, Sound
    <2>3. session.chapter \in Chapter /\ Synced(session.par) \in 1 .. NP
      BY <1>0, <2>2, ListeningAssumption DEF Sessions, Chapter, Synced
    <2>4. s \in Sessions
      <3>1. <<arg[t][1], arg[t][2]>> \in Content
        BY <2>2, <2>3 DEF Content
      <3>2. QED
        BY <1>0, <2>3, <3>1 DEF Sessions
    <2>5. /\ s.status = session.status /\ s.book = session.book /\ s.index = session.index
          /\ s.chapter = session.chapter /\ s.paras = <<session.book, session.chapter>>
          /\ s.slot = session.slot /\ s.sleep = session.sleep
      BY <1>0, <2>2 DEF Sessions
    <2>6. Sound(s)
      BY <1>0, <2>2, <2>4, <2>5 DEF Sound
    <2> HIDE DEF s
    <2> DEFINE p == Prefetched(s)
    <2>7. Sound(p) /\ p.book = session.book /\ p.index = p.chapter /\ p.sleep = session.sleep
          /\ p.status = session.status
      BY <2>2, <2>5, <2>6, PrefetchedSound
    <2> HIDE DEF p
    <2>8. EndChapter(t, p) \/ SpeakParagraph(t, p)
      BY <2>1 DEF p
    <2>9. QED
      BY <1>0, <2>1, <2>2, <2>7, <2>8, EndChapterPlays, SpeakParagraphPlays DEF Goes, Playing
  <1>3. QED
    BY <1>1, <1>2

LEMMA ParagraphSavedGoes ==
    ASSUME CoreInv, NEW t \in Task, ParagraphSaved(t), Records(t)
    PROVE  Returns(t) \/ Goes(t)
  <1>0. Types /\ Recorded /\ Sound(session) /\ pc[t] = "saveParagraph" /\ t \notin utter
    BY DEF CoreInv, ParagraphSaved, Types
  <1>1. CASE GiveUp(t)
    BY <1>0, <1>1, GiveUpReturns DEF Asking
  <1>2. CASE ~GiveUp(t)
    <2>1. Live(t) /\ Await(t, "speak", NoArg) /\ utter' = utter \cup {t}
          /\ UNCHANGED <<session, owner, saved>>
      BY <1>2 DEF ParagraphSaved
    <2>2. Slot(t) /\ pc'[t] = "speak"
      BY <1>0, <2>1, NoArgIs DEF Types, Await, Slot, Pc
    <2>3. Holds(t) /\ reopened' = reopened
      BY <2>1, <2>2 DEF CoreInv, Records
    <2>4. Starts(t)' /\ Holds(t)'
      BY <1>0, <2>1, <2>2, <2>3 DEF Starts, Holds, Playing, Driven, Active
    <2>5. session.status # "paused"
      BY <1>0, <2>3 DEF Holds, Playing, Active
    <2>6. Sound(session') /\ Recorded'
      BY <1>0, <2>1 DEF Recorded
    <2>7. QED
      BY <1>0, <2>1, <2>2, <2>4, <2>5, <2>6 DEF Goes, Takes, Plays, Live, Asking, Playing
  <1>3. QED
    BY <1>1, <1>2

LEMMA SpokenGoes ==
    ASSUME CoreInv, NEW t \in Task, Spoken(t)
    PROVE  Returns(t) \/ Goes(t)
  <1>0. Types /\ Sound(session) /\ session \in Sessions /\ pc[t] = "speak" /\ t \notin utter
    BY DEF CoreInv, Sound, Spoken, Types
  <1>1. CASE GiveUp(t)
    BY <1>0, <1>1, GiveUpReturns DEF Asking
  <1>2. CASE ~GiveUp(t)
    <2>1. Live(t)
      BY <1>2 DEF Spoken
    <2>2. session.status \in {"playing", "loading"} /\ session.book \in Book
          /\ session.index = session.chapter
      BY <1>0, <2>1 DEF CoreInv, Holds, Active, Playing, Sound
    <2>3. CASE session.at < NP /\ SpeakParagraph(t, [session EXCEPT !.at = @ + 1])
      <3> DEFINE s == [session EXCEPT !.at = @ + 1]
      <3>1. session.at + 1 \in 1 .. NP
        BY <1>0, <2>3, ListeningAssumption DEF Sessions
      <3>2. s \in Sessions
        BY <1>0, <3>1 DEF Sessions
      <3>3. /\ s.status = session.status /\ s.book = session.book /\ s.index = session.index
            /\ s.chapter = session.chapter /\ s.paras = session.paras
            /\ s.slot = session.slot /\ s.sleep = session.sleep
        BY <1>0 DEF Sessions
      <3>4. Sound(s)
        BY <1>0, <3>2, <3>3 DEF Sound
      <3>5. SpeakParagraph(t, s)
        BY <2>3
      <3> HIDE DEF s
      <3>6. QED
        BY <1>0, <2>1, <2>2, <3>3, <3>4, <3>5, SpeakParagraphPlays DEF Goes, Playing
    <2>4. CASE EndChapter(t, session)
      BY <1>0, <2>1, <2>2, <2>4, EndChapterPlays DEF Goes, Playing
    <2>5. QED
      BY <1>2, <2>3, <2>4 DEF Spoken
  <1>3. QED
    BY <1>1, <1>2

LEMMA ResumeReadGoes ==
    ASSUME CoreInv, NEW t \in Task, ResumeRead(t)
    PROVE  /\ Returns(t) \/ Goes(t)
           /\ LET progress == saved[session.book]
              IN  Live(t) /\ session.index = session.chapter
                  /\ progress \notin {NoPosition, <<session.chapter, session.par>>}
                  => session'.chapter = progress[1]
  <1>0. /\ Types /\ Recorded /\ Sound(session) /\ session \in Sessions
        /\ pc[t] = "resumeRead" /\ t \notin utter
    BY DEF CoreInv, Sound, ResumeRead, Types
  <1>1. CASE GiveUp(t)
    BY <1>0, <1>1, GiveUpReturns DEF Asking, GiveUp
  <1>2. CASE ~GiveUp(t)
    <2> DEFINE progress == saved[session.book]
               moved == progress # NoPosition /\ progress[1] # session.chapter
               there == progress # NoPosition /\ progress[2] # session.par
               s == IF moved THEN [session EXCEPT !.index = progress[1], !.paras = None,
                                                  !.chapter = progress[1], !.par = progress[2]]
                    ELSE IF there THEN [session EXCEPT !.par = progress[2],
                                                       !.at = Synced(progress[2])]
                    ELSE session
               r == [s EXCEPT !.status = "loading"]
    <2>1. Live(t) /\ Run(t, r)
      BY <1>2 DEF ResumeRead
    <2>2. session.status = "paused" /\ session.book \in Book
      BY <1>0, <2>1 DEF CoreInv, Holds, Sound
    <2>3. progress \in Position /\ (progress # NoPosition => progress[1] \in Chapter)
      BY <1>0, <2>2 DEF Recorded
    <2> HIDE DEF progress
    <2>4. progress[1] \in 0 .. NC /\ progress[2] \in 0 .. NP /\ Synced(progress[2]) \in 1 .. NP
      BY <2>3, ListeningAssumption DEF Position, Synced
    <2>5. moved => progress[1] \in 1 .. NC + 1
      BY <2>3, ListeningAssumption DEF Chapter
    <2>6. s \in Sessions
      <3>1. CASE moved
        BY <1>0, <2>4, <2>5, <3>1 DEF Sessions
      <3>2. CASE ~moved /\ there
        BY <1>0, <2>4, <3>2 DEF Sessions
      <3>3. CASE ~moved /\ ~there
        BY <1>0, <3>3
      <3>4. QED
        BY <3>1, <3>2, <3>3
    <2>7. /\ s.book = session.book /\ s.slot = session.slot /\ s.sleep = session.sleep
          /\ moved => s.paras = None /\ s.chapter = progress[1] /\ s.index = progress[1]
          /\ ~moved => /\ s.paras = session.paras /\ s.chapter = session.chapter
                       /\ s.index = session.index
      <3>1. CASE moved
        BY <1>0, <3>1 DEF Sessions
      <3>2. CASE ~moved /\ there
        BY <1>0, <3>2 DEF Sessions
      <3>3. CASE ~moved /\ ~there
        BY <1>0, <3>3
      <3>4. QED
        BY <3>1, <3>2, <3>3
    <2> HIDE DEF s
    <2>8. r \in Sessions
      BY <2>6 DEF Sessions
    <2>9. /\ r.status = "loading" /\ r.book = s.book /\ r.slot = s.slot /\ r.sleep = s.sleep
          /\ r.paras = s.paras /\ r.chapter = s.chapter /\ r.index = s.index
      BY <2>6 DEF Sessions
    <2>10. Sound(r)
      BY <1>0, <2>2, <2>7, <2>8, <2>9 DEF Sound
    <2> HIDE DEF r
    <2>11. Goes(t) /\ (r.index = r.chapter => session'.chapter = r.chapter)
      BY <1>0, <2>1, <2>2, <2>7, <2>9, <2>10, RunPlays DEF Goes, Playing
    <2>12. progress # NoPosition /\ session.index = session.chapter => session'.chapter = progress[1]
      BY <2>7, <2>9, <2>11
    <2>13. QED
      BY <2>11, <2>12 DEF progress
  <1>3. QED
    BY <1>1, <1>2

LEMMA MoveStoppedGoes ==
    ASSUME CoreInv, NEW t \in Task, MoveStopped(t)
    PROVE  \/ Returns(t)
           \/ pc[t] \in {"moveBack", "moveNext"} /\ Takes(t) /\ Plays(t)
  <1>0. Types /\ pc[t] \in {"moveBack", "moveNext"} /\ t \notin utter
    BY DEF CoreInv, MoveStopped, Types
  <1>1. PICK delta \in {-1, 1} : MoveNow(t, delta)
    BY DEF MoveStopped
  <1>2. CASE session.paras = None
    BY <1>0, <1>1, <1>2, EndsReturns DEF MoveNow, Driven, Playing
  <1>3. CASE session.paras # None
    BY <1>0, <1>1, <1>3, MoveNowPlays
  <1>4. QED
    BY <1>2, <1>3

\* A configuration that is still the last one resumes what it has paused.
Reopens(t) ==
    /\ configurer = t /\ ~Active /\ Takes(t) /\ UNCHANGED session /\ utter' \subseteq utter
    /\ \/ pc'[t] = "startStop" /\ arg'[t][1] = session.book
       \/ pc'[t] = "resumeRead"

LEMMA ConfigureStoppedGoes ==
    ASSUME CoreInv, NEW t \in Task, ConfigureStopped(t)
    PROVE  Returns(t) \/ Reopens(t)
  <1>0. Types /\ Sound(session) /\ session \in Sessions /\ pc[t] = "configureStop" /\ t \notin utter
    BY DEF CoreInv, Sound, ConfigureStopped, Types
  <1>1. CASE configurer = t /\ ~Active /\ session.book # None
    BY <1>0, <1>1, ResumeTakes DEF ConfigureStopped, Reopens, Sessions
  <1>2. CASE ~(configurer = t /\ ~Active /\ session.book # None)
    <2>1. Ends(t) /\ UNCHANGED <<session, owner, utter, saved>>
      BY <1>2 DEF ConfigureStopped
    <2>2. configurer # t \/ session.status # "paused"
      BY <1>0, <1>2, ListeningAssumption DEF Active, Sound
    <2>3. QED
      BY <1>0, <2>1, <2>2, EndsReturns DEF Driven, Playing
  <1>3. QED
    BY <1>1, <1>2

LEMMA ThrowFails ==
    ASSUME CoreInv, NEW t \in Task, Throw(t)
    PROVE  Live(t) /\ Fails(t)
  <1>0. Types /\ Sound(session) /\ session \in Sessions
    BY DEF CoreInv, Sound
  <1>1. /\ session' = [session EXCEPT !.status = "error"] /\ owner' = None /\ utter' = {}
        /\ Await(t, "idle", NoArg) /\ saved' = saved /\ Live(t)
    BY DEF Throw, Fail, Silence, Ends
  <1>2. Slot(t) /\ pc'[t] = "idle"
    BY <1>0, <1>1, AwaitSlot, NoArgIs DEF Pc
  <1>3. session' \in Sessions
    BY <1>0, <1>1 DEF Sessions
  <1>4. /\ session'.status = "error" /\ session'.book = session.book
        /\ session'.chapter = session.chapter /\ session'.index = session.index
        /\ session'.paras = session.paras /\ session'.slot = session.slot
    BY <1>0, <1>1 DEF Sessions
  <1>5. QED
    BY <1>0, <1>1, <1>2, <1>3, <1>4 DEF Fails, Sound

\* What a task at an await may come to.
Opens(t) ==
    /\ Live(t) /\ Takes(t) /\ utter' = utter /\ pc[t] = "startStop" /\ pc'[t] = "startFetch"
    /\ session'.book = arg[t][1] /\ session'.status = "loading" /\ session'.sleep = session.sleep

LEMMA AnsweredKinds ==
    ASSUME CoreInv, NEW t \in Task, Answered(t)
    PROVE  \/ Returns(t)
           \/ Opens(t)
           \/ Goes(t)
           \/ pc[t] \in {"moveBack", "moveNext"} /\ Takes(t) /\ Plays(t)
           \/ pc[t] = "configureStop" /\ Reopens(t)
           \/ Live(t) /\ Fails(t)
  <1>0. Records(t)
    BY DEF Answered
  <1>1. CASE StartStopped(t)
    BY <1>1, StartStoppedTakes DEF Opens, StartStopped
  <1>2. CASE StartFetched(t) \/ ChapterSaved(t) \/ Taken(t)
    BY <1>2, StartFetchedGoes, ChapterSavedGoes, TakenGoes
  <1>3. CASE ParagraphSaved(t) \/ Spoken(t) \/ ResumeRead(t)
    BY <1>0, <1>3, ParagraphSavedGoes, SpokenGoes, ResumeReadGoes
  <1>4. CASE PauseStopped(t)
    <2>1. pc[t] = "pauseStop" /\ Ends(t) /\ UNCHANGED <<session, owner, utter, saved>>
      BY <1>4 DEF PauseStopped
    <2>2. t \notin utter
      BY <2>1 DEF CoreInv, Types
    <2>3. QED
      BY <2>1, <2>2, EndsReturns DEF Driven, Playing
  <1>5. CASE MoveStopped(t)
    BY <1>5, MoveStoppedGoes
  <1>6. CASE ConfigureStopped(t)
    BY <1>6, ConfigureStoppedGoes DEF ConfigureStopped
  <1>7. CASE Throw(t)
    BY <1>7, ThrowFails
  <1>8. QED
    BY <1>1, <1>2, <1>3, <1>4, <1>5, <1>6, <1>7 DEF Answered

-----------------------------------------------------------------------------
(* The invariant by the kind of step.                                        *)
LEMMA TakesCore ==
    ASSUME CoreInv, NEW t \in Task, Takes(t),
           configurer' \in Task \cup {None}, ops' \in 0 .. MaxOps, lapses' \subseteq Lapse,
           wanted' \in Book \cup {None}, pauseAsked' \in BOOLEAN
    PROVE  CoreInv'
  <1>1. Types'
    BY DEF Takes, Slot, Types
  <1>2. ASSUME NEW u \in Task PROVE Starts(u)' /\ (Live(u)' => Holds(u)')
    BY DEF CoreInv, Takes, Slot, Starts, Live
  <1>3. QED
    BY <1>1, <1>2 DEF CoreInv, Takes

LEMMA ReturnsCore ==
    ASSUME CoreInv, NEW t \in Task, Returns(t), Records(t),
           configurer' \in Task \cup {None}, ops' \in 0 .. MaxOps, lapses' \subseteq Lapse,
           wanted' \in Book \cup {None}, pauseAsked' \in BOOLEAN
    PROVE  CoreInv'
  <1>0. reopened' = reopened
    BY DEF Returns, Records
  <1>1. Types' /\ Sound(session') /\ Recorded' /\ (Active' => owner' \in Task)
    BY DEF Returns, Slot, CoreInv, Types, Recorded, Active
  <1>2. ASSUME NEW u \in Task PROVE Starts(u)' /\ (Live(u)' => Holds(u)')
    <2>1. CASE u = t
      BY <1>0, <2>1 DEF CoreInv, Returns, Slot, Starts, Live, Holds, Playing, Driven, Active
    <2>2. CASE u # t
      BY <1>0, <2>2 DEF CoreInv, Returns, Slot, Starts, Live, Holds, Active
    <2>3. QED
      BY <2>1, <2>2
  <1>3. QED
    BY <1>1, <1>2 DEF CoreInv

LEMMA FailsCore ==
    ASSUME CoreInv, NEW t \in Task, Fails(t),
           configurer' \in Task \cup {None}, ops' \in 0 .. MaxOps, lapses' \subseteq Lapse,
           wanted' \in Book \cup {None}, pauseAsked' \in BOOLEAN
    PROVE  CoreInv'
  <1>1. Types' /\ Sound(session') /\ Recorded' /\ ~Active'
    BY DEF Fails, Slot, CoreInv, Types, Recorded, Active
  <1>2. ASSUME NEW u \in Task PROVE Starts(u)' /\ ~Live(u)'
    BY ListeningAssumption DEF CoreInv, Fails, Slot, Starts, Live
  <1>3. QED
    BY <1>1, <1>2 DEF CoreInv

LEMMA RestsCore ==
    ASSUME CoreInv, Rests, reopened' = reopened,
           configurer' \in Task \cup {None}, ops' \in 0 .. MaxOps, lapses' \subseteq Lapse,
           wanted' \in Book \cup {None}, pauseAsked' \in BOOLEAN
    PROVE  CoreInv'
  <1>0. session \in Sessions
    BY DEF CoreInv, Sound
  <1>1. PICK sleep \in {"off", "armed", "due", "spent", "atEnd"} :
          session' = [session EXCEPT !.sleep = sleep]
    BY DEF Rests
  <1>2. session' \in Sessions
    BY <1>0, <1>1 DEF Sessions
  <1>3. /\ session'.status = session.status /\ session'.book = session.book
        /\ session'.chapter = session.chapter /\ session'.index = session.index
        /\ session'.paras = session.paras /\ session'.slot = session.slot
        /\ session'.par = session.par /\ session'.at = session.at
    BY <1>0, <1>1 DEF Sessions
  <1>4. Types' /\ Sound(session') /\ Recorded' /\ (Active' => owner' \in Task)
    BY <1>2, <1>3 DEF Rests, CoreInv, Types, Recorded, Active, Sound
  <1>5. ASSUME NEW u \in Task PROVE Starts(u)' /\ (Live(u)' => Holds(u)')
    BY <1>3 DEF CoreInv, Rests, Starts, Live, Holds, Active
  <1>6. QED
    BY <1>4, <1>5 DEF CoreInv

-----------------------------------------------------------------------------
(* The requests, with what they say of the history.                          *)
Same == UNCHANGED <<session, owner, utter, saved, pc, arg>>

\* Playback stops, and the task waits for the engine at the given await.
Halts(t, at) ==
    /\ Active /\ Takes(t) /\ utter' = {} /\ pc'[t] = at
    /\ session'.status = "paused" /\ session'.book = session.book /\ session'.paras = session.paras

AsksStart(t) ==
    /\ wanted' \in Book /\ ~pauseAsked' /\ lapses' = lapses
    /\ Takes(t) /\ UNCHANGED session /\ utter' = {}
    /\ pc'[t] = "startStop" /\ arg'[t][1] = wanted'
AsksPause(t) ==
    /\ wanted' = None /\ pauseAsked'
    /\ lapses' = IF PauseDropped THEN lapses \cup {"dropped"} ELSE lapses
    /\ Halts(t, "pauseStop") \/ (~Active /\ Rests)
AsksResume(t) ==
    /\ wanted' = None /\ ~pauseAsked' /\ lapses' = lapses /\ ~Active
    /\ Takes(t) /\ UNCHANGED session /\ utter' \subseteq utter
    /\ pc'[t] \in {"startStop", "resumeRead"}
AsksStop(t) ==
    /\ wanted' = None /\ ~pauseAsked' /\ lapses' = lapses
    /\ Takes(t) /\ utter' = {} /\ pc'[t] = "pauseStop" /\ session'.status = "idle"
AsksMove(t) ==
    /\ wanted' = None /\ lapses' = lapses /\ session.paras # None
    /\ \/ ~pauseAsked' /\ (Halts(t, "moveBack") \/ Halts(t, "moveNext"))
       \/ /\ ~Active /\ Takes(t) /\ Plays(t)
          /\ pauseAsked' <=> session.sleep = "due"
          /\ IF session.sleep = "due" THEN pc'[t] = "pauseStop" ELSE session'.status # "paused"
AsksConfigure(t) ==
    /\ pauseAsked' = pauseAsked /\ lapses' = lapses
    /\ \/ wanted' = None /\ Halts(t, "configureStop")
       \/ wanted' = wanted /\ ~Active /\ Rests

LEMMA SameRests == ASSUME CoreInv, Same PROVE Rests
  <1>1. session \in Sessions
    BY DEF CoreInv, Sound
  <1>2. session.sleep \in {"off", "armed", "due", "spent", "atEnd"}
        /\ session = [session EXCEPT !.sleep = session.sleep]
    BY <1>1 DEF Sessions
  <1>3. QED
    BY <1>2 DEF Rests, Same

\* An active session has a book, so it can be paused.
LEMMA PauseHalts ==
    ASSUME CoreInv, Active, NEW t \in Task,
           NEW next \in {"pauseStop", "moveBack", "moveNext", "configureStop"},
           PauseFrom(t, session, next)
    PROVE  Halts(t, next)
  BY PauseTakes DEF CoreInv, Sound, Active, Halts

LEMMA TimerHalts ==
    ASSUME CoreInv, Active, NEW t \in Task,
           PauseFrom(t, [session EXCEPT !.sleep = "off"], "pauseStop")
    PROVE  Halts(t, "pauseStop")
  <1> DEFINE s == [session EXCEPT !.sleep = "off"]
  <1>1. Sound(session) /\ session \in Sessions
    BY DEF CoreInv, Sound
  <1>2. s \in Sessions
    BY <1>1 DEF Sessions
  <1>3. /\ s.status = session.status /\ s.book = session.book /\ s.index = session.index
        /\ s.chapter = session.chapter /\ s.paras = session.paras /\ s.slot = session.slot
    BY <1>1 DEF Sessions
  <1>4. Sound(s) /\ s.book \in Book
    BY <1>1, <1>2, <1>3 DEF Sound, Active
  <1>5. PauseFrom(t, s, "pauseStop")
    OBVIOUS
  <1> HIDE DEF s
  <1>6. QED
    BY <1>3, <1>4, <1>5, PauseTakes DEF Halts

RequestKind(t) ==
    \/ AsksStart(t) \/ AsksPause(t) \/ AsksResume(t)
    \/ AsksStop(t) \/ AsksMove(t) \/ AsksConfigure(t)

LEMMA RequestsKinds ==
    ASSUME CoreInv, NEW t \in Task, Requests(t)
    PROVE  RequestKind(t) /\ configurer' \in {configurer, t}
  <1>0. Types /\ Sound(session) /\ session \in Sessions /\ pc[t] = "idle" /\ t \notin utter
    BY DEF CoreInv, Sound, Types, Requests
  <1>1. ASSUME NEW b \in Book, NEW op \in {"start", "startHere"}, Request(op, b, FALSE),
               NEW position \in Position, Start(t, b, position)
        PROVE  AsksStart(t)
    BY <1>1, StartTakes DEF Request, AsksStart
  <1>2. CASE \E b \in Book : Request("start", b, FALSE) /\ Start(t, b, NoPosition)
                             /\ UNCHANGED configurer
    <2>1. NoPosition \in Position
      BY ListeningAssumption DEF NoPosition, Position
    <2>2. QED
      BY <1>1, <1>2, <2>1 DEF RequestKind
  <1>3. CASE \E b \in Book, c \in Chapter, p \in 0 .. NP :
                Request("startHere", b, FALSE) /\ Start(t, b, <<c, p>>) /\ UNCHANGED configurer
    <2>1. \A c \in Chapter, p \in 0 .. NP : <<c, p>> \in Position
      BY ListeningAssumption DEF Chapter, Position
    <2>2. QED
      BY <1>1, <1>3, <2>1 DEF RequestKind
  <1>4. CASE Request("pause", None, TRUE) /\ Pause(t) /\ UNCHANGED configurer
    <2>1. wanted' = None /\ pauseAsked'
          /\ lapses' = IF PauseDropped THEN lapses \cup {"dropped"} ELSE lapses
      BY <1>4 DEF Request
    <2>2. CASE Active
      BY <1>4, <2>1, <2>2, PauseHalts DEF Pause, AsksPause, RequestKind
    <2>3. CASE ~Active
      BY <1>4, <2>1, <2>3, SameRests DEF Pause, Same, AsksPause, RequestKind
    <2>4. QED
      BY <1>4, <2>2, <2>3
  <1>5. CASE /\ session.book # None /\ ~Active
             /\ Request("resume", None, FALSE) /\ Resume(t) /\ UNCHANGED configurer
    <2>1. session.book \in Book
      BY <1>0, <1>5 DEF Sessions
    <2>2. QED
      BY <1>0, <1>5, <2>1, ResumeTakes DEF Request, AsksResume, RequestKind
  <1>6. CASE Request("stop", None, FALSE) /\ Stop(t) /\ UNCHANGED configurer
    BY <1>6, StopTakes DEF Request, AsksStop, RequestKind
  <1>7. CASE /\ session.paras # None
             /\ Request("move", None, ~Active /\ session.sleep = "due")
             /\ \E delta \in {-1, 1} : Move(t, delta)
             /\ UNCHANGED configurer
    <2>1. wanted' = None /\ lapses' = lapses /\ (pauseAsked' <=> ~Active /\ session.sleep = "due")
      BY <1>7 DEF Request
    <2>2. PICK delta \in {-1, 1} : Move(t, delta)
      BY <1>7
    <2>3. CASE Active
      <3>1. \E next \in {"moveBack", "moveNext"} : PauseFrom(t, session, next)
        BY <2>2, <2>3 DEF Move
      <3>2. QED
        BY <1>7, <2>1, <2>3, <3>1, PauseHalts DEF AsksMove, RequestKind
    <2>4. CASE ~Active
      BY <1>0, <1>7, <2>1, <2>2, <2>4, MoveNowPlays DEF Move, AsksMove, RequestKind
    <2>5. QED
      BY <2>3, <2>4
  <1>8. CASE Request("configure", IF Active THEN None ELSE wanted, pauseAsked) /\ Configure(t)
    <2>1. pauseAsked' = pauseAsked /\ lapses' = lapses /\ configurer' = t
          /\ wanted' = IF Active THEN None ELSE wanted
      BY <1>8 DEF Request, Configure
    <2>2. CASE Active
      BY <1>8, <2>1, <2>2, PauseHalts DEF Configure, AsksConfigure, RequestKind
    <2>3. CASE ~Active
      BY <1>8, <2>1, <2>3, SameRests DEF Configure, Same, AsksConfigure, RequestKind
    <2>4. QED
      BY <2>2, <2>3
  <1>9. QED
    BY <1>2, <1>3, <1>4, <1>5, <1>6, <1>7, <1>8 DEF Requests

LEMMA TimerKind ==
    ASSUME CoreInv, NEW t \in Task, TimerFires(t)
    PROVE  AsksPause(t) /\ UNCHANGED <<configurer, ops>>
  <1>1. wanted' = None /\ pauseAsked' /\ UNCHANGED <<configurer, ops>>
        /\ lapses' = IF PauseDropped THEN lapses \cup {"dropped"} ELSE lapses
    BY DEF TimerFires
  <1>2. CASE Active
    BY <1>1, <1>2, TimerHalts DEF TimerFires, AsksPause
  <1>3. CASE ~Active
    BY <1>1, <1>3 DEF TimerFires, AsksPause, Rests
  <1>4. QED
    BY <1>2, <1>3

\* What the reader saves: a place of a book listening does not follow, or the
\* place it opens at; and the end of an utterance.
LEMMA SavesCore ==
    ASSUME CoreInv, UNCHANGED <<session, owner, configurer, pc, arg, utter, wanted, pauseAsked, lapses>>,
           ops' \in 0 .. MaxOps, NEW b \in Book, NEW c \in Chapter, NEW p \in 0 .. NP,
           saved' = [saved EXCEPT ![b] = <<c, p>>], reopened \subseteq reopened',
           ~Follows(b) \/ b \in reopened'
    PROVE  CoreInv'
  <1>1. Types'
    BY DEF CoreInv, Types
  <1>2. Recorded' /\ \A d \in Book \ {b} : saved'[d] = saved[d]
    <2>1. saved \in [Book -> Position] /\ Recorded
      BY DEF CoreInv, Recorded
    <2>2. Recorded'
      BY <2>1, RecordedAt
    <2>3. QED
      BY <2>1, <2>2
  <1>3. ASSUME NEW u \in Task PROVE Starts(u)' /\ (Live(u)' => Holds(u)')
    <2>1. Starts(u) /\ (Live(u) => Holds(u))
      BY DEF CoreInv
    <2>2. CASE Live(u) /\ pc[u] \in {"saveParagraph", "speak"}
      <3>1. Holds(u) /\ Active /\ session.book \in Book /\ session \in Sessions
        BY <2>1, <2>2 DEF CoreInv, Holds, Playing, Active, Sound
      <3>2. session.par # 0
        BY <2>2, <3>1, ListeningAssumption DEF Holds, Sessions
      <3>3. session.book # b \/ b \in reopened'
        BY <3>1, <3>2 DEF Follows
      <3>4. QED
        BY <1>2, <2>1, <3>1, <3>3 DEF Starts, Live, Holds, Active
    <2>3. CASE ~(Live(u) /\ pc[u] \in {"saveParagraph", "speak"})
      BY <2>1, <2>3 DEF Starts, Live, Holds, Active
    <2>4. QED
      BY <2>2, <2>3
  <1>4. QED
    BY <1>1, <1>2, <1>3 DEF CoreInv, Active

LEMMA ReadCore ==
    ASSUME CoreInv, ReadByHand \/ OpenReader
    PROVE  CoreInv'
  <1>1. PICK b \in Book, c \in Chapter, p \in 0 .. NP :
           /\ saved' = [saved EXCEPT ![b] = <<c, p>>]
           /\ reopened \subseteq reopened' /\ (~Follows(b) \/ b \in reopened')
    BY ListeningAssumption DEF ReadByHand, OpenReader
  <1>2. /\ UNCHANGED <<session, owner, configurer, pc, arg, utter, wanted, pauseAsked, lapses>>
        /\ ops < MaxOps /\ ops' = ops + 1
    BY DEF ReadByHand, OpenReader, Request
  <1>3. ops' \in 0 .. MaxOps
    BY <1>2, ListeningAssumption DEF CoreInv, Types
  <1>4. QED
    BY <1>1, <1>2, <1>3, SavesCore

LEMMA QuietCore ==
    ASSUME CoreInv, UNCHANGED <<session, owner, configurer, pc, arg, saved, ops, wanted,
                                pauseAsked, lapses, reopened>>, utter' \subseteq utter
    PROVE  CoreInv'
  <1>1. Types' /\ Recorded' /\ Sound(session') /\ (Active' => owner' \in Task)
    BY DEF CoreInv, Types, Recorded, Active
  <1>2. ASSUME NEW u \in Task PROVE Starts(u)' /\ (Live(u)' => Holds(u)')
    BY DEF CoreInv, Starts, Live, Holds, Active
  <1>3. QED
    BY <1>1, <1>2 DEF CoreInv

-----------------------------------------------------------------------------
(* Every step.                                                               *)
LEMMA AnsweredHistory ==
    ASSUME CoreInv, NEW t \in Task, Answered(t)
    PROVE  /\ configurer' = configurer /\ ops' = ops
           /\ wanted' = IF owner' = None THEN None ELSE wanted
           /\ pauseAsked' \in BOOLEAN
           /\ pauseAsked' <=> pauseAsked \/ session'.sleep # session.sleep
           /\ lapses' = lapses \cup Passes(t) /\ lapses' \subseteq Lapse
           /\ wanted' \in Book \cup {None}
  <1>1. Passes(t) \subseteq Lapse
    BY DEF Passes, Lapse
  <1>2. QED
    BY <1>1 DEF Answered, CoreInv, Types

LEMMA AskedTypes ==
    ASSUME CoreInv, NEW t \in Task, RequestKind(t)
    PROVE  /\ wanted' \in Book \cup {None} /\ lapses' \subseteq Lapse
           /\ (Takes(t) \/ Rests)
  BY DEF RequestKind, AsksStart, AsksPause, AsksResume, AsksStop, AsksMove, AsksConfigure, Halts,
         CoreInv, Types, Lapse

LEMMA RequestsCount ==
    ASSUME CoreInv, NEW t \in Task, Requests(t)
    PROVE  ops' \in 0 .. MaxOps /\ pauseAsked' \in BOOLEAN
  <1>1. ops < MaxOps /\ ops' = ops + 1 /\ pauseAsked' \in BOOLEAN
    BY DEF Requests, Request, CoreInv, Types
  <1>2. QED
    BY <1>1, ListeningAssumption DEF CoreInv, Types

LEMMA CoreInit == ASSUME Init PROVE CoreInv
  <1>1. session \in Sessions /\ Sound(session)
    <2>1. 0 \in 0 .. NC /\ 0 \in 0 .. NP /\ 1 \in 1 .. NC + 1 /\ 1 \in 1 .. NP
      BY ListeningAssumption
    <2>2. session \in Sessions
      BY <2>1 DEF Init, Sessions
    <2>3. session.status = "idle" /\ session.paras = None /\ session.slot = None
      BY DEF Init
    <2>4. QED
      BY <2>2, <2>3 DEF Sound
  <1>2. Types
    <2>1. 0 \in 0 .. MaxOps
      BY ListeningAssumption
    <2>2. QED
      BY <2>1, NoArgIs DEF Init, Types, Pc
  <1>3. Recorded
    BY ListeningAssumption DEF Init, Recorded, NoPosition, Position
  <1>4. \A t \in Task : Starts(t) /\ ~Live(t)
    BY ListeningAssumption DEF Init, Starts, Live
  <1>5. ~Active
    BY DEF Init, Active
  <1>6. QED
    BY <1>1, <1>2, <1>3, <1>4, <1>5 DEF CoreInv

LEMMA CoreKept == ASSUME CoreInv, [Next]_vars PROVE CoreInv'
  <1>1. ASSUME NEW t \in Task, Requests(t) PROVE CoreInv'
    <2>1. RequestKind(t) /\ configurer' \in Task \cup {None}
      BY <1>1, RequestsKinds DEF CoreInv, Types
    <2>2. Rests => reopened' = reopened
      BY <1>1 DEF Requests, Records, Rests
    <2>3. QED
      BY <1>1, <2>1, <2>2, AskedTypes, RequestsCount, TakesCore, RestsCore
  <1>2. ASSUME NEW t \in Task, Answered(t) PROVE CoreInv'
    <2>1. configurer' \in Task \cup {None} /\ ops' \in 0 .. MaxOps
      BY <1>2, AnsweredHistory DEF CoreInv, Types
    <2>2. Returns(t) \/ Takes(t) \/ Fails(t)
      BY <1>2, AnsweredKinds DEF Opens, Goes, Reopens
    <2>3. QED
      BY <1>2, <2>1, <2>2, AnsweredHistory, TakesCore, ReturnsCore, FailsCore DEF Answered
  <1>3. ASSUME NEW t \in Task, UtteranceEnds(t) PROVE CoreInv'
    BY <1>3, QuietCore DEF UtteranceEnds
  <1>4. ASSUME NEW t \in Task, TimerFires(t) PROVE CoreInv'
    <2>1. AsksPause(t) /\ UNCHANGED <<configurer, ops, reopened>> /\ pauseAsked' = TRUE
      BY <1>4, TimerKind DEF TimerFires
    <2>2. QED
      BY <1>4, <2>1, AskedTypes, TakesCore, RestsCore DEF RequestKind, CoreInv, Types
  <1>5. ASSUME SetSleepTimer \/ DeadlinePasses PROVE CoreInv'
    <2>1. Rests
      BY <1>5 DEF SetSleepTimer, DeadlinePasses, Rests
    <2>2. configurer' = configurer /\ wanted' = wanted /\ pauseAsked' = pauseAsked /\ lapses' = lapses
          /\ ops' \in 0 .. MaxOps /\ reopened' = reopened
      BY <1>5, ListeningAssumption DEF SetSleepTimer, DeadlinePasses, Request, CoreInv, Types
    <2>3. QED
      BY <2>1, <2>2, RestsCore DEF CoreInv, Types
  <1>6. ASSUME ReadByHand \/ OpenReader PROVE CoreInv'
    BY <1>6, ReadCore
  <1>7. ASSUME UNCHANGED vars PROVE CoreInv'
    BY <1>7, QuietCore DEF vars
  <1>8. QED
    BY <1>1, <1>2, <1>3, <1>4, <1>5, <1>6, <1>7 DEF Next

-----------------------------------------------------------------------------
(* Steps that take nobody the generation and start nothing.                  *)
Still ==
    /\ UNCHANGED <<owner, pc, arg, wanted, pauseAsked, lapses, configurer>> /\ utter' \subseteq utter
    /\ session'.status = session.status /\ session'.book = session.book
    /\ session'.paras = session.paras

LEMMA StepKinds ==
    ASSUME CoreInv, [Next]_vars
    PROVE  \/ \E t \in Task : pc[t] = "idle" /\ RequestKind(t)
           \/ \E t \in Task : Answered(t)
           \/ Still
  <1>0. session \in Sessions
    BY DEF CoreInv, Sound
  <1>1. ASSUME NEW t \in Task, Requests(t) PROVE pc[t] = "idle" /\ RequestKind(t)
    BY <1>1, RequestsKinds DEF Requests
  <1>2. ASSUME NEW t \in Task, TimerFires(t) PROVE pc[t] = "idle" /\ RequestKind(t)
    BY <1>2, TimerKind DEF TimerFires, RequestKind
  <1>3. ASSUME \E t \in Task : UtteranceEnds(t) PROVE Still
    BY <1>3 DEF UtteranceEnds, Still
  <1>4. ASSUME SetSleepTimer \/ DeadlinePasses PROVE Still
    <2>1. \E sleep : session' = [session EXCEPT !.sleep = sleep]
      BY <1>4 DEF SetSleepTimer, DeadlinePasses
    <2>2. session'.status = session.status /\ session'.book = session.book
          /\ session'.paras = session.paras
      BY <1>0, <2>1 DEF Sessions
    <2>3. QED
      BY <1>4, <2>2 DEF SetSleepTimer, DeadlinePasses, Request, Still
  <1>5. ASSUME ReadByHand \/ OpenReader PROVE Still
    BY <1>5 DEF ReadByHand, OpenReader, Request, Still
  <1>6. ASSUME UNCHANGED vars PROVE Still
    BY <1>6 DEF vars, Still
  <1>7. QED
    BY <1>1, <1>2, <1>3, <1>4, <1>5, <1>6 DEF Next

-----------------------------------------------------------------------------
(* One voice, and one book.                                                  *)
Voice == "overtaken" \notin lapses => \A u \in utter : Live(u)

\* Whoever is spoken for, if it has not been overtaken, is in an active session.
LEMMA SilentAtRest ==
    ASSUME CoreInv, Voice, "overtaken" \notin lapses, ~Active
    PROVE  utter = {}
  BY DEF CoreInv, Types, Voice, Holds, Playing

LEMMA PassesOvertaken ==
    ASSUME NEW t \in Task, ~Live(t), pc[t] \in Asking
    PROVE  "overtaken" \in Passes(t)
  BY DEF Passes, Asking

\* An operation that goes on after its pause() and still has its generation
\* finds nobody speaking.
LEMMA SilentAtAsking ==
    ASSUME CoreInv, Voice, "overtaken" \notin lapses, NEW t \in Task, Live(t), pc[t] \in Asking
    PROVE  utter = {}
  <1>1. ~Active
    BY DEF CoreInv, Holds, Asking, Driven, Playing
  <1>2. QED
    BY <1>1, SilentAtRest

LEMMA VoiceKept == ASSUME CoreInv, Voice, [Next]_vars PROVE Voice'
  <1>0. SUFFICES ASSUME "overtaken" \notin lapses' PROVE \A u \in utter' : Live(u)'
    BY DEF Voice
  <1>1. ASSUME NEW t \in Task, pc[t] = "idle", RequestKind(t) PROVE \A u \in utter' : Live(u)'
    <2>1. "overtaken" \notin lapses
      BY <1>0, <1>1 DEF RequestKind, AsksStart, AsksPause, AsksResume, AsksStop, AsksMove, AsksConfigure
    <2>2. CASE ~Active
      <3>1. utter = {}
        BY <2>1, <2>2, SilentAtRest
      <3>2. (utter' \subseteq {t} /\ owner' = t) \/ utter' = {}
        BY <1>1, <3>1 DEF RequestKind, AsksStart, AsksPause, AsksResume, AsksStop, AsksMove,
                          AsksConfigure, Halts, Rests, Plays, Takes
      <3>3. QED
        BY <3>2 DEF Live
    <2>3. CASE Active
      BY <1>1, <2>3 DEF RequestKind, AsksStart, AsksPause, AsksResume, AsksStop, AsksMove,
                        AsksConfigure, Halts
    <2>4. QED
      BY <2>2, <2>3
  <1>2. ASSUME NEW t \in Task, Answered(t) PROVE \A u \in utter' : Live(u)'
    <2>1. lapses' = lapses \cup Passes(t) /\ "overtaken" \notin lapses /\ \A u \in utter : Live(u)
      BY <1>0, <1>2, AnsweredHistory DEF Voice
    <2>2. CASE Returns(t)
      BY <2>1, <2>2 DEF Returns, Live
    <2>3. CASE Opens(t) \/ Goes(t)
      BY <2>1, <2>3 DEF Opens, Goes, Takes, Plays, Live
    <2>4. CASE pc[t] \in Asking /\ Takes(t) /\ (Plays(t) \/ Reopens(t))
      <3>1. utter = {}
        BY <1>0, <2>1, <2>4, PassesOvertaken, SilentAtAsking
      <3>2. QED
        BY <2>4, <3>1 DEF Takes, Plays, Reopens, Live
    <2>5. CASE Fails(t)
      BY <2>5 DEF Fails
    <2>6. QED
      BY <1>2, <2>2, <2>3, <2>4, <2>5, AnsweredKinds DEF Asking, Reopens
  <1>3. ASSUME Still PROVE \A u \in utter' : Live(u)'
    BY <1>0, <1>3 DEF Still, Voice, Live
  <1>4. QED
    BY <1>1, <1>2, <1>3, StepKinds

\* The book of the last start is being played, or its start is under way.
Heard ==
    wanted # None /\ "overtaken" \notin lapses =>
       /\ session.book = wanted \/ \E t \in Task : Live(t) /\ pc[t] = "startStop"
       /\ \A t \in Task : Live(t) => /\ pc[t] = "startStop" => arg[t][1] = wanted
                                     /\ pc[t] \notin Asking

LEMMA HeardKept == ASSUME CoreInv, Heard, [Next]_vars PROVE Heard'
  <1>0. SUFFICES ASSUME wanted' # None, "overtaken" \notin lapses'
                 PROVE  /\ session'.book = wanted' \/ \E t \in Task : Live(t)' /\ pc'[t] = "startStop"
                        /\ \A t \in Task : Live(t)' =>
                              /\ pc'[t] = "startStop" => arg'[t][1] = wanted'
                              /\ pc'[t] \notin Asking
    BY DEF Heard
  <1> DEFINE Goal == /\ session'.book = wanted' \/ \E t \in Task : Live(t)' /\ pc'[t] = "startStop"
                     /\ \A t \in Task : Live(t)' =>
                           /\ pc'[t] = "startStop" => arg'[t][1] = wanted'
                           /\ pc'[t] \notin Asking
  <1>1. ASSUME NEW t \in Task, RequestKind(t) PROVE Goal
    <2>1. AsksStart(t) \/ AsksConfigure(t)
      BY <1>0, <1>1 DEF RequestKind, AsksPause, AsksResume, AsksStop, AsksMove
    <2>2. CASE AsksStart(t)
      BY <2>2 DEF AsksStart, Takes, Live, Asking
    <2>3. CASE AsksConfigure(t)
      <3>1. Rests /\ wanted' = wanted /\ lapses' = lapses
        BY <1>0, <2>3 DEF AsksConfigure
      <3>2. session'.book = session.book
        BY <3>1 DEF Rests, CoreInv, Sound, Sessions
      <3>3. QED
        BY <1>0, <3>1, <3>2 DEF Rests, Heard, Live
    <2>4. QED
      BY <2>1, <2>2, <2>3
  <1>2. ASSUME NEW t \in Task, Answered(t) PROVE Goal
    <2>1. /\ lapses' = lapses \cup Passes(t) /\ "overtaken" \notin lapses
          /\ wanted' = wanted /\ owner' # None
      BY <1>0, <1>2, AnsweredHistory
    <2>2. /\ session.book = wanted \/ \E u \in Task : Live(u) /\ pc[u] = "startStop"
          /\ \A u \in Task : Live(u) => /\ pc[u] = "startStop" => arg[u][1] = wanted
                                        /\ pc[u] \notin Asking
      BY <1>0, <2>1 DEF Heard
    <2>3. CASE Returns(t)
      <3>1. \A u \in Task : Live(u)' => Live(u) /\ (u # t => pc'[u] = pc[u] /\ arg'[u] = arg[u])
        BY <2>3 DEF Returns, Slot, Live
      <3>2. Live(t) => pc[t] # "startStop"
        BY <2>3 DEF Returns, Driven
      <3>3. owner' = owner /\ session' = session /\ pc'[t] = "idle"
            /\ \A u \in Task \ {t} : pc'[u] = pc[u] /\ arg'[u] = arg[u]
        BY <2>3 DEF Returns, Slot
      <3>4. QED
        BY <2>1, <2>2, <3>1, <3>2, <3>3 DEF Live, Asking
    <2>4. CASE Opens(t)
      BY <2>1, <2>2, <2>4 DEF Opens, Takes, Live, Asking
    <2>5. CASE Goes(t)
      BY <2>1, <2>2, <2>5 DEF Goes, Takes, Plays, Live, Asking, Playing
    <2>6. CASE pc[t] \in Asking
      BY <1>0, <2>1, <2>2, <2>6, PassesOvertaken
    <2>7. CASE Fails(t)
      BY <2>1, <2>7 DEF Fails
    <2>8. QED
      BY <1>2, <2>3, <2>4, <2>5, <2>6, <2>7, AnsweredKinds DEF Asking
  <1>3. ASSUME Still PROVE Goal
    BY <1>0, <1>3 DEF Still, Heard, Live
  <1>4. QED
    BY <1>1, <1>2, <1>3, StepKinds

-----------------------------------------------------------------------------
(* Pauses.                                                                   *)
Pausing ==
    pauseAsked /\ lapses \cap {"overtaken", "dropped"} = {} =>
       \A t \in Task : Live(t) => pc[t] \in {"idle", "pauseStop"}

\* A pause of an active session takes the generation; of any other session, it
\* is dropped when somebody who holds it is at an await that leads to playing.
LEMMA PauseReaches ==
    ASSUME CoreInv, NEW t \in Task, AsksPause(t), "dropped" \notin lapses', NEW u \in Task, Live(u)'
    PROVE  pc'[u] \in {"idle", "pauseStop"}
  <1>1. CASE Active
    BY <1>1 DEF AsksPause, Halts, Takes, Live
  <1>2. CASE ~Active
    <2>1. Live(u) /\ pc'[u] = pc[u] /\ ~PauseDropped
      BY <1>2 DEF AsksPause, Halts, Rests, Live
    <2>2. pc[u] \notin {"startStop", "resumeRead", "moveBack", "moveNext", "configureStop"}
      BY <1>2, <2>1 DEF PauseDropped
    <2>3. pc[u] \in Pc /\ pc[u] \notin Playing
      BY <1>2, <2>1 DEF CoreInv, Types, Holds
    <2>4. QED
      BY <2>1, <2>2, <2>3 DEF Pc, Playing
  <1>3. QED
    BY <1>1, <1>2

LEMMA PausingKept == ASSUME CoreInv, Pausing, [Next]_vars PROVE Pausing'
  <1>0. SUFFICES ASSUME pauseAsked', lapses' \cap {"overtaken", "dropped"} = {},
                        NEW u \in Task, Live(u)'
                 PROVE  pc'[u] \in {"idle", "pauseStop"}
    BY DEF Pausing
  <1>1. ASSUME NEW t \in Task, RequestKind(t) PROVE pc'[u] \in {"idle", "pauseStop"}
    <2>1. AsksPause(t) \/ AsksMove(t) \/ AsksConfigure(t)
      BY <1>0, <1>1 DEF RequestKind, AsksStart, AsksResume, AsksStop
    <2>2. CASE AsksPause(t)
      BY <1>0, <2>2, PauseReaches
    <2>3. CASE AsksMove(t)
      BY <1>0, <2>3 DEF AsksMove, Takes, Live
    <2>4. CASE AsksConfigure(t)
      <3>1. \A v \in Task : Live(v) => pc[v] \in {"idle", "pauseStop"}
        BY <1>0, <2>4 DEF AsksConfigure, Pausing
      <3>2. ~Active
        BY <3>1 DEF CoreInv, Live, Holds, Driven, Playing
      <3>3. QED
        BY <1>0, <2>4, <3>1, <3>2 DEF AsksConfigure, Halts, Rests, Live
    <2>5. QED
      BY <2>1, <2>2, <2>3, <2>4
  <1>2. ASSUME NEW t \in Task, Answered(t) PROVE pc'[u] \in {"idle", "pauseStop"}
    <2>1. /\ lapses' = lapses \cup Passes(t) /\ lapses \cap {"overtaken", "dropped"} = {}
          /\ pauseAsked \/ session'.sleep # session.sleep
      BY <1>0, <1>2, AnsweredHistory
    <2>2. CASE Takes(t) /\ Plays(t) /\ session'.sleep # session.sleep
      BY <1>0, <2>2 DEF Takes, Plays, Live
    <2>3. CASE pauseAsked /\ ~Returns(t) /\ ~Fails(t)
      <3>1. Live(t) => pc[t] \in {"idle", "pauseStop"}
        BY <2>1, <2>3 DEF Pausing
      <3>2. ~Opens(t) /\ ~Goes(t)
        BY <3>1 DEF Opens, Goes, Playing
      <3>3. pc[t] \in Asking /\ ~Live(t)
        BY <1>2, <2>3, <3>1, <3>2, AnsweredKinds DEF Asking
      <3>4. QED
        BY <1>0, <2>1, <3>3, PassesOvertaken
    <2>4. CASE Returns(t)
      <3>1. pauseAsked /\ Live(u)
        BY <1>0, <2>1, <2>4 DEF Returns, Live
      <3>2. pc[u] \in {"idle", "pauseStop"}
        BY <2>1, <3>1 DEF Pausing
      <3>3. QED
        BY <2>4, <3>2 DEF Returns, Slot
    <2>5. CASE Fails(t)
      BY <1>0, <2>5, ListeningAssumption DEF Fails, Live
    <2>6. ASSUME ~Returns(t), ~Fails(t), session'.sleep # session.sleep
          PROVE  Takes(t) /\ Plays(t)
      BY <1>2, <2>6, AnsweredKinds DEF Opens, Goes, Reopens
    <2>7. QED
      BY <2>1, <2>2, <2>3, <2>4, <2>5, <2>6
  <1>3. ASSUME Still PROVE pc'[u] \in {"idle", "pauseStop"}
    BY <1>0, <1>3 DEF Still, Pausing, Live
  <1>4. QED
    BY <1>1, <1>2, <1>3, StepKinds

\* A session that is paused unasked has somebody at an await who will play on.
Bridge(t) ==
    \/ pc[t] \in {"moveBack", "moveNext"} /\ session.paras # None
    \/ pc[t] = "configureStop"
    \/ Live(t) /\ pc[t] \in {"startStop", "resumeRead"}
Bridged ==
    session.status = "paused" /\ ~pauseAsked /\ "superseded" \notin lapses
       => \E t \in Task : Bridge(t)

LEMMA PassesSuperseded ==
    ASSUME NEW t \in Task, configurer # t, pc[t] = "configureStop"
    PROVE  "superseded" \in Passes(t)
  BY DEF Passes

LEMMA BridgedKept == ASSUME CoreInv, Bridged, [Next]_vars PROVE Bridged'
  <1>0. SUFFICES ASSUME session'.status = "paused", ~pauseAsked', "superseded" \notin lapses'
                 PROVE  \E u \in Task : Bridge(u)'
    BY DEF Bridged
  <1>1. ASSUME Rests, ~pauseAsked, "superseded" \notin lapses PROVE \E u \in Task : Bridge(u)'
    <2>1. session'.status = session.status /\ session'.paras = session.paras
      BY <1>1 DEF Rests, CoreInv, Sound, Sessions
    <2>2. PICK u \in Task : Bridge(u)
      BY <1>0, <1>1, <2>1 DEF Bridged
    <2>3. Bridge(u)'
      BY <1>1, <2>1, <2>2 DEF Rests, Bridge, Live
    <2>4. QED
      BY <2>3
  <1>2. ASSUME NEW t \in Task, RequestKind(t) PROVE \E u \in Task : Bridge(u)'
    <2>1. AsksStart(t) \/ AsksResume(t) \/ AsksMove(t) \/ AsksConfigure(t)
      BY <1>0, <1>2 DEF RequestKind, AsksPause, AsksStop
    <2>2. CASE AsksStart(t) \/ AsksResume(t)
      <3>1. Bridge(t)'
        BY <2>2 DEF AsksStart, AsksResume, Takes, Bridge, Live
      <3>2. QED
        BY <3>1
    <2>3. CASE AsksMove(t)
      <3>1. ASSUME Halts(t, "moveBack") \/ Halts(t, "moveNext") PROVE Bridge(t)'
        BY <2>3, <3>1 DEF AsksMove, Halts, Bridge
      <3>2. QED
        BY <1>0, <2>3, <3>1 DEF AsksMove
    <2>4. CASE AsksConfigure(t)
      <3>1. CASE Halts(t, "configureStop")
        <4>1. Bridge(t)'
          BY <3>1 DEF Halts, Bridge
        <4>2. QED
          BY <4>1
      <3>2. CASE Rests
        BY <1>0, <1>1, <2>4, <3>2 DEF AsksConfigure
      <3>3. QED
        BY <2>4, <3>1, <3>2 DEF AsksConfigure
    <2>5. QED
      BY <2>1, <2>2, <2>3, <2>4
  <1>3. ASSUME NEW t \in Task, Answered(t) PROVE \E u \in Task : Bridge(u)'
    <2>1. /\ lapses' = lapses \cup Passes(t) /\ "superseded" \notin lapses
          /\ ~pauseAsked /\ session'.sleep = session.sleep
      BY <1>0, <1>3, AnsweredHistory
    <2>2. CASE Returns(t)
      <3>1. PICK u \in Task : Bridge(u)
        BY <1>0, <2>1, <2>2 DEF Bridged, Returns
      <3>2. u # t
        <4>1. ASSUME u = t PROVE FALSE
          BY <1>0, <2>1, <2>2, <3>1, <4>1, PassesSuperseded DEF Bridge, Returns, Driven
        <4>2. QED
          BY <4>1
      <3>3. Bridge(u)'
        BY <2>2, <3>1, <3>2 DEF Bridge, Returns, Slot, Live
      <3>4. QED
        BY <3>3
    <2>3. CASE Plays(t) \/ Opens(t) \/ Fails(t)
      BY <1>0, <2>1, <2>3 DEF Plays, Opens, Fails
    <2>4. CASE Reopens(t)
      <3>1. Bridge(t)'
        BY <2>4 DEF Reopens, Bridge, Takes, Live
      <3>2. QED
        BY <3>1
    <2>5. QED
      BY <1>3, <2>2, <2>3, <2>4, AnsweredKinds DEF Goes
  <1>4. ASSUME Still PROVE \E u \in Task : Bridge(u)'
    <2>1. PICK u \in Task : Bridge(u)
      BY <1>0, <1>4 DEF Still, Bridged
    <2>2. Bridge(u)'
      BY <1>4, <2>1 DEF Still, Bridge, Live
    <2>3. QED
      BY <2>2
  <1>5. QED
    BY <1>2, <1>3, <1>4, StepKinds

-----------------------------------------------------------------------------
(* The theorems.                                                             *)
ListeningInv == CoreInv /\ Voice /\ Heard /\ Pausing /\ Bridged

LEMMA ListeningInit == ASSUME Init PROVE ListeningInv
  <1>1. CoreInv
    BY CoreInit
  <1>2. utter = {} /\ wanted = None /\ ~pauseAsked /\ session.status = "idle"
    BY DEF Init
  <1>3. QED
    BY <1>1, <1>2 DEF ListeningInv, Voice, Heard, Pausing, Bridged

LEMMA ListeningKept == ASSUME ListeningInv, [Next]_vars PROVE ListeningInv'
  BY CoreKept, VoiceKept, HeardKept, PausingKept, BridgedKept DEF ListeningInv

Reopened == reopened \subseteq Book

LEMMA ReopenedBooks == Spec => []Reopened
  <1>1. Init => Reopened
    BY DEF Init, Reopened
  <1>2. Reopened /\ [Next]_vars => Reopened'
    <2> SUFFICES ASSUME reopened \subseteq Book, [Next]_vars PROVE reopened' \subseteq Book
      BY DEF Reopened
    <2>1. CASE OpenReader
      BY <2>1 DEF OpenReader
    <2>2. CASE ~OpenReader
      <3>1. CASE \E t \in Task : Requests(t) \/ Answered(t)
        <4>1. PICK t \in Task : Records(t)
          BY <3>1 DEF Requests, Answered
        <4>2. QED
          BY <4>1 DEF Records
      <3>2. CASE ~\E t \in Task : Requests(t) \/ Answered(t)
        <4>1. CASE UNCHANGED vars
          BY <4>1 DEF vars
        <4>2. CASE Next
          <5>1. \/ \E t \in Task : UtteranceEnds(t) \/ TimerFires(t)
                \/ SetSleepTimer \/ DeadlinePasses \/ ReadByHand
            BY <2>2, <3>2, <4>2 DEF Next
          <5>2. QED
            BY <5>1 DEF UtteranceEnds, TimerFires, SetSleepTimer, DeadlinePasses, ReadByHand
        <4>3. QED
          BY <4>1, <4>2
      <3>3. QED
        BY <3>1, <3>2
    <2>3. QED
      BY <2>1, <2>2
  <1>3. QED
    BY <1>1, <1>2, PTL DEF Spec

LEMMA ListeningHolds == Spec => []ListeningInv
  BY ListeningInit, ListeningKept, PTL DEF Spec

\* The session, its tasks and the record of the progress have their types
\* whatever interleaves: no jump, move or resumed progress takes the chapter,
\* the index or the paragraph out of its range.
THEOREM ListeningTypes == Spec => []TypeOK
  <1>1. ListeningInv /\ Reopened => TypeOK
    BY DEF Reopened, ListeningInv, CoreInv, Types, Sound, Recorded, TypeOK, Sessions, Args
  <1>2. QED
    BY <1>1, ListeningHolds, ReopenedBooks, PTL

\* A session that shows itself as loading or playing is never left alone: the
\* task of the current generation is at an await that leads on.
THEOREM ListeningIsDriven == Spec => []ActiveIsDriven
  <1>1. ListeningInv => ActiveIsDriven
    <2> SUFFICES ASSUME ListeningInv, Active
                 PROVE  \E t \in Task : Live(t) /\ pc[t] \in {"startStop", "startFetch",
                                  "saveChapter", "take", "saveParagraph", "speak"}
      BY DEF ActiveIsDriven
    <2>1. QED
      BY DEF ListeningInv, CoreInv, Live, Holds, Driven, Playing
  <1>2. QED
    BY <1>1, ListeningHolds, PTL

\* While a paragraph is spoken, it is the progress on record, whatever the
\* views of a reader report meanwhile, until a reader of the book opens.
THEOREM SpokenAlwaysRecorded == Spec => []SpokenIsRecorded
  <1>1. ListeningInv => SpokenIsRecorded
    BY DEF ListeningInv, CoreInv, Types, Holds, SpokenIsRecorded
  <1>2. QED
    BY <1>1, ListeningHolds, PTL

\* The paragraphs in memory are those of the chapter and book played, whether
\* they were fetched or taken from the prefetch slot.
THEOREM ContentAlwaysOfChapter == Spec => []ContentOfChapter
  <1>1. ListeningInv => ContentOfChapter
    BY DEF ListeningInv, CoreInv, Sound, ContentOfChapter
  <1>2. QED
    BY <1>1, ListeningHolds, PTL

\* At most one task is spoken for and a start that nothing came after is the
\* book played, unless an overtaken operation went on, for any number of tasks.
THEOREM OneListeningAlways == Spec => []OneListening
  <1>1. ListeningInv => OneVoice
    <2> SUFFICES ASSUME ListeningInv, "overtaken" \notin lapses
                 PROVE  Cardinality(utter) <= 1
      BY DEF OneVoice
    <2>1. utter = {} \/ utter = {owner}
      BY DEF ListeningInv, Voice, Live
    <2>2. Cardinality({}) = 0 /\ Cardinality({owner}) = 1
      BY FS_EmptySet, FS_Singleton
    <2>3. QED
      BY <2>1, <2>2
  <1>2. ListeningInv => LastStartWins
    BY DEF ListeningInv, Heard, LastStartWins
  <1>3. QED
    BY <1>1, <1>2, ListeningHolds, PTL DEF OneListening

\* A pause that was asked for is silent until playing is asked for, and the
\* session does not come to rest paused unasked, with the named exceptions.
THEOREM PauseAlwaysKept == Spec => []PauseIsKept
  <1>1. ListeningInv => PauseHolds
    <2> SUFFICES ASSUME ListeningInv, pauseAsked, lapses \cap {"overtaken", "dropped"} = {}
                 PROVE  utter = {}
      BY DEF PauseHolds
    <2>1. \A u \in utter : Live(u) /\ pc[u] = "speak" /\ u \in Task
      BY DEF ListeningInv, CoreInv, Types, Voice
    <2>2. \A u \in Task : Live(u) => pc[u] \in {"idle", "pauseStop"}
      BY DEF ListeningInv, Pausing
    <2>3. QED
      BY <2>1, <2>2
  <1>2. ListeningInv => PausedOnRequest
    BY DEF ListeningInv, Bridged, Bridge, PausedOnRequest
  <1>3. QED
    BY <1>1, <1>2, ListeningHolds, PTL DEF PauseIsKept

\* resume() goes on in the chapter of the progress when that was moved while
\* playback was paused within a chapter: nothing between its read and the
\* loading of the chapter takes it back.
THEOREM ResumesThere == Spec => ResumesAtProgress
  <1>1. ListeningInv =>
          [\A t \in Task :
             LET progress == saved[session.book]
             IN  /\ ResumeRead(t) /\ Live(t)
                 /\ session.index = session.chapter
                 /\ progress \notin {NoPosition, <<session.chapter, session.par>>}
                 => session'.chapter = progress[1]]_vars
    BY ResumeReadGoes DEF ListeningInv
  <1>2. QED
    BY <1>1, ListeningHolds, PTL DEF ResumesAtProgress
=============================================================================
