-------------------------------- MODULE LoginProofs --------------------------------
(* A login over a feed whose operations interleave with it: prompts, locks   *)
(* and sessions, for any number of operations, instances and prompts.        *)
EXTENDS Login, TLAPS, FiniteSetTheorems

(* Prompts: an operation is parked on at most one prompt, and what leaves    *)
(* the reach of the pages is answered, being cancelled, or lost.             *)
Answers == {"snapshot", "refused", None}

PromptTypes ==
    /\ Ids \subseteq Id /\ \A i \in Ids : pending[i] \in Op \cup {None}
    /\ answer \in [Op -> Answers]
    /\ channel \in Seq(Id) /\ screen \in Screens \cup {None} /\ cancels \subseteq Id

PromptInv ==
    /\ PromptTypes
    /\ PromptsAccounted
    /\ \A i, j \in Ids : Waiting(i) /\ pending[i] = pending[j] => i = j
    /\ \A i \in Ids : Waiting(i) => At(pending[i], "parked") /\ answer[pending[i]] = None
    /\ \A o \in Op : answer[o] # None => At(o, "parked")
    /\ OnScreen("canceling") => screen.id \in cancels \/ ~Waiting(screen.id)

(* The cache: an operation that holds the lock is sending the request of a   *)
(* key that is not there, in the instance it runs on.                        *)
RuntimeTypes ==
    /\ RuntimeTypeOK
    /\ inst \in [Op -> Inst] /\ want \in [Op -> CacheKey \cup {None}] /\ sent \in [Op -> Auth \cup {None}]
    /\ seen \in Auth \cup {None} /\ heard \in {"nothing", "site", "cache"}
    /\ DOMAIN responses = Inst /\ holder \in [Inst -> Op \cup {None}]
    /\ \A i \in Inst : \A k \in DOMAIN responses[i] : responses[i][k] \in Auth \cup {None}

CacheInv ==
    /\ \A o \in Op : At(o, "lock") => want[o] # None
    /\ \A o \in Op : (At(o, "send") /\ want[o] # None) <=> holder[inst[o]] = o
    /\ \A i \in Inst : holder[i] # None => inst[holder[i]] = i
    /\ \A o \in Op : holder[inst[o]] = o => want[o] \notin DOMAIN responses[inst[o]]
    /\ \A i \in Inst : IsFiniteSet(DOMAIN responses[i]) /\ Cardinality(DOMAIN responses[i]) <= MaxCached

(* The session: while a login works on an instance, the one the registry     *)
(* answers with is that instance or has not been given any auth yet; and     *)
(* what the site tells login.status is about the candidate.                  *)
LoginPc == {"idle", "read", "start", "verify", "write", "check", "checking", "clear"}
Logins == [pc : LoginPc, inst : Inst \cup {None}, cand : Auth \cup {None}, saved : Auth \cup {None},
           trust : BOOLEAN]

SessionTypes ==
    /\ stored \in Auth \cup {None} /\ onTrust \in BOOLEAN /\ current \in Inst /\ hydrated \subseteq Inst
    /\ login \in Logins
    /\ ~Doing("idle") => login.inst \in Inst
    /\ login.pc \in {"read", "start", "verify", "write"} => login.cand \in Auth

SessionInv ==
    /\ SessionTypes
    /\ stored \in Valid \cup {None} \/ onTrust
    /\ Doing("idle") => (current \in hydrated => auth[current] = stored)
    /\ ~Doing("idle") /\ current # login.inst => current \notin hydrated
    /\ login.pc \in {"start", "verify", "write"} => auth[login.inst] = login.cand /\ login.saved = stored
    /\ login.pc \in {"check", "checking"} => auth[login.inst] = stored
    /\ Doing("clear") => stored = None
    /\ Doing("write") => login.cand \in Valid \/ login.trust
    /\ Doing("verify") => /\ inst[Verifier] = login.inst
                          /\ heard = "nothing" => seen = None
                          /\ heard = "site" => seen = login.cand
                          /\ pc[Verifier] \in {"lock", "send"} => sent[Verifier] = login.cand

LoginInv == PromptInv /\ RuntimeTypes /\ CacheInv /\ SessionInv

-----------------------------------------------------------------------------
(* The prompts.                                                              *)
LEMMA PromptSame ==
    ASSUME PromptInv, UNCHANGED prompts, \A o \in Op : At(o, "parked") => At(o, "parked")'
    PROVE  PromptInv'
  BY DEF PromptInv, PromptTypes, PromptsAccounted, prompts, Ids, Waiting, InReach, Top, Elements, OnScreen, At

\* Nobody is parked where there was nobody: what is left of pending is enough
\* to know that a step keeps the invariant.
Fewer == /\ DOMAIN pending' \subseteq Ids
         /\ \A i \in DOMAIN pending' : pending'[i] = pending[i] \/ pending'[i] = None

LEMMA FewerWaiting ==
    ASSUME PromptInv, Fewer
    PROVE  /\ Ids' \subseteq Id /\ \A i \in Ids' : pending'[i] \in Op \cup {None}
           /\ \A i : Waiting(i)' => Waiting(i) /\ i \in Ids /\ pending'[i] = pending[i]
           /\ \A i, j \in Ids' : Waiting(i)' /\ pending'[i] = pending'[j] => i = j
  BY DEF PromptInv, PromptTypes, Fewer, Waiting, Ids

LEMMA ChannelTail ==
    ASSUME NEW c \in Seq(Id), c # <<>>
    PROVE  Tail(c) \in Seq(Id) /\ Head(c) \in Id /\ Elements(c) = Elements(Tail(c)) \cup {Head(c)}
  <1>1. Tail(c) \in Seq(Id) /\ Head(c) \in Id /\ Len(c) \in Nat \ {0} /\ Len(Tail(c)) = Len(c) - 1
    OBVIOUS
  <1>2. \A i \in 1..Len(c) - 1 : Tail(c)[i] = c[i + 1]
    OBVIOUS
  <1>3. DOMAIN c = 1..Len(c) /\ DOMAIN Tail(c) = 1..Len(c) - 1 /\ c[1] = Head(c)
    BY <1>1
  <1>4. ASSUME NEW x \in Elements(c)
        PROVE  x \in Elements(Tail(c)) \cup {Head(c)}
    <2>1. PICK i \in 1..Len(c) : x = c[i]
      BY <1>3 DEF Elements
    <2>2. CASE i = 1
      BY <1>3, <2>1, <2>2
    <2>3. CASE i # 1
      <3>1. i - 1 \in 1..Len(c) - 1 /\ (i - 1) + 1 = i
        BY <1>1, <2>3
      <3>2. Tail(c)[i - 1] = x
        BY <1>2, <2>1, <3>1
      <3>3. QED
        BY <1>3, <3>1, <3>2 DEF Elements
    <2>4. QED
      BY <2>2, <2>3
  <1>5. ASSUME NEW x \in Elements(Tail(c)) \cup {Head(c)}
        PROVE  x \in Elements(c)
    <2>1. CASE x = Head(c)
      BY <1>1, <1>3, <2>1 DEF Elements
    <2>2. CASE x \in Elements(Tail(c))
      <3>1. PICK i \in 1..Len(c) - 1 : x = Tail(c)[i]
        BY <1>3, <2>2 DEF Elements
      <3>2. i + 1 \in 1..Len(c) /\ x = c[i + 1]
        BY <1>1, <1>2, <3>1
      <3>3. QED
        BY <1>3, <3>2 DEF Elements
    <2>3. QED
      BY <1>5, <2>1, <2>2
  <1>6. QED
    BY <1>1, <1>4, <1>5

LEMMA ChannelAppend ==
    ASSUME NEW c \in Seq(Id), NEW id \in Id
    PROVE  Append(c, id) \in Seq(Id) /\ Elements(Append(c, id)) = Elements(c) \cup {id}
  <1>1. /\ Append(c, id) \in Seq(Id) /\ Len(c) \in Nat
        /\ DOMAIN c = 1..Len(c) /\ DOMAIN Append(c, id) = 1..Len(c) + 1
        /\ Append(c, id)[Len(c) + 1] = id /\ \A i \in 1..Len(c) : Append(c, id)[i] = c[i]
    OBVIOUS
  <1>2. Elements(Append(c, id)) \subseteq Elements(c) \cup {id}
    BY <1>1 DEF Elements
  <1>3. Elements(c) \cup {id} \subseteq Elements(Append(c, id))
    BY <1>1 DEF Elements
  <1>4. QED
    BY <1>1, <1>2, <1>3

LEMMA Subscribes ==
    ASSUME PromptInv, Subscribe, UNCHANGED pc
    PROVE  PromptInv'
  BY DEF Subscribe, PromptInv, PromptTypes, PromptsAccounted, Ids, Waiting, InReach, Top, Elements, OnScreen, At

LEMMA EngineGoes ==
    ASSUME PromptInv, EngineGone, UNCHANGED pc
    PROVE  PromptInv'
  <1> DEFINE gone == (Elements(channel) \cup Top) \ cancels
  <1>1. /\ lost' = lost \cup Left(gone) /\ pending' = Kept(gone) /\ channel' = <<>> /\ screen' = None
        /\ UNCHANGED <<answer, cancels, blind, pc>>
    BY DEF EngineGone
  <1>2. Fewer
    BY <1>1 DEF Fewer, Kept, Unparked, Ids
  <1>3. \A i : Waiting(i)' => Waiting(i) /\ i \in Ids /\ pending'[i] = pending[i]
    BY <1>2, FewerWaiting
  <1>4. PromptsAccounted'
    <2>1. ASSUME NEW i \in Ids', Waiting(i)'
          PROVE  i \in (InReach \cup lost \cup blind)'
      <3>1. i \in InReach \cup lost \cup blind /\ Waiting(i)
        BY <1>3, <2>1 DEF PromptInv, PromptsAccounted
      <3>2. i \in gone \/ i \in cancels \cup lost \cup blind
        BY <3>1 DEF InReach
      <3>3. i \in gone => i \in lost'
        BY <1>1, <3>1 DEF Left
      <3>4. QED
        BY <1>1, <3>2, <3>3 DEF InReach
    <2>2. QED
      BY <2>1 DEF PromptsAccounted
  <1>5. PromptTypes'
    <2>1. Ids' \subseteq Id /\ \A i \in Ids' : pending'[i] \in Op \cup {None}
      BY <1>2, FewerWaiting
    <2>2. channel' \in Seq(Id) /\ UNCHANGED <<answer, cancels>> /\ screen' = None
      BY <1>1
    <2>3. PromptTypes
      BY DEF PromptInv
    <2>4. QED
      BY <2>1, <2>2, <2>3 DEF PromptTypes
  <1>6. QED
    BY <1>1, <1>2, <1>3, <1>4, <1>5, FewerWaiting DEF PromptInv, At, OnScreen

LEMMA Presents ==
    ASSUME PromptInv, Present, UNCHANGED pc
    PROVE  PromptInv'
  <1>1. /\ Tail(channel) \in Seq(Id) /\ Head(channel) \in Id
        /\ Elements(channel) = Elements(Tail(channel)) \cup {Head(channel)}
    BY ChannelTail DEF PromptInv, PromptTypes, Present
  <1>2. channel' = Tail(channel) /\ UNCHANGED <<pending, answer, listener, stray, lost, blind, pc>>
        /\ Top = {} /\ Elements(channel') = Elements(Tail(channel))
    BY DEF Present, Top
  <1>3. \/ screen' = [id |-> Head(channel), phase |-> "open"] /\ cancels' = cancels
        \/ cancels' = cancels \cup {Head(channel)} /\ screen' = None
    BY DEF Present
  <1>4. screen' \in Screens \cup {None} /\ cancels' \subseteq Id /\ InReach' = InReach /\ ~OnScreen("canceling")'
    <2>1. CASE screen' = [id |-> Head(channel), phase |-> "open"] /\ cancels' = cancels
      <3>1. screen' \in Screens /\ screen' # None
        BY <1>1, <2>1, NoneIsNoOne DEF Screens
      <3>2. QED
        BY <1>1, <1>2, <2>1, <3>1 DEF PromptInv, PromptTypes, InReach, Top, OnScreen
    <2>2. CASE cancels' = cancels \cup {Head(channel)} /\ screen' = None
      BY <1>1, <1>2, <2>2 DEF PromptInv, PromptTypes, InReach, Top, OnScreen
    <2>3. QED
      BY <1>3, <2>1, <2>2
  <1>5. QED
    BY <1>1, <1>2, <1>4 DEF PromptInv, PromptTypes, PromptsAccounted, Ids, Waiting, At

\* The page on top changes its phase.
LEMMA ScreenPhase ==
    ASSUME PromptTypes, NEW phase \in {"open", "submitting", "canceling"}, screen # None,
           screen' = [screen EXCEPT !.phase = phase]
    PROVE  screen' \in Screens /\ screen' # None /\ screen'.id = screen.id /\ screen'.phase = phase /\ Top' = Top
  BY NoneIsNoOne DEF PromptTypes, Screens, Top

\* The prompt of id c is answered and forgotten.
LEMMA AnswerArrives ==
    ASSUME PromptInv, NEW c, NEW a \in {"snapshot", "refused"},
           answer' = Answered(c, a), pending' = Unparked({c}),
           cancels' \subseteq cancels, cancels \ {c} \subseteq cancels',
           screen' = screen \/ (screen' = None /\ Top \subseteq {c}),
           UNCHANGED <<channel, lost, blind, pc>>
    PROVE  PromptInv'
  <1>1. Fewer /\ c \notin Ids'
    BY DEF Fewer, Unparked, Ids
  <1>2. \A i : Waiting(i)' => Waiting(i) /\ i \in Ids /\ pending'[i] = pending[i] /\ i # c
    BY <1>1, FewerWaiting DEF Waiting
  <1>3. PromptsAccounted'
    BY <1>2 DEF PromptInv, PromptsAccounted, InReach, Top, Elements
  <1>4. /\ answer' \in [Op -> Answers]
        /\ \A o \in Op : answer'[o] # answer[o] => Waiting(c) /\ c \in Ids /\ o = pending[c]
    BY DEF PromptInv, PromptTypes, Answered, Answers, Waiting
  <1>5. PromptTypes'
    <2>1. Ids' \subseteq Id /\ \A i \in Ids' : pending'[i] \in Op \cup {None}
      BY <1>1, FewerWaiting
    <2>2. PromptTypes
      BY DEF PromptInv
    <2>3. QED
      BY <1>4, <2>1, <2>2 DEF PromptTypes
  <1>6. \A i, j \in Ids : Waiting(i) /\ pending[i] = pending[j] => i = j
    BY DEF PromptInv
  <1>7. ASSUME NEW i \in Ids', Waiting(i)'
        PROVE  At(pending[i], "parked")' /\ answer'[pending'[i]] = None
    <2>1. Waiting(i) /\ i \in Ids /\ pending'[i] = pending[i] /\ i # c
      BY <1>2, <1>7
    <2>2. At(pending[i], "parked") /\ answer[pending[i]] = None /\ pending[i] \in Op
      BY <2>1 DEF PromptInv, PromptTypes, Waiting
    <2>3. answer'[pending[i]] = answer[pending[i]]
      <3>1. pending[i] = pending[c] /\ c \in Ids => i = c
        BY <1>6, <2>1
      <3>2. QED
        BY <1>4, <2>1, <2>2, <3>1
    <2>4. QED
      BY <2>1, <2>2, <2>3 DEF At
  <1>8. ASSUME NEW o \in Op, answer'[o] # None
        PROVE  At(o, "parked")'
    <2>1. CASE answer'[o] = answer[o]
      BY <1>8, <2>1 DEF PromptInv, At
    <2>2. CASE answer'[o] # answer[o]
      BY <1>4, <2>2 DEF PromptInv, At
    <2>3. QED
      BY <2>1, <2>2
  <1>9. (OnScreen("canceling") => screen.id \in cancels \/ ~Waiting(screen.id))'
    <2>1. OnScreen("canceling")' => OnScreen("canceling") /\ screen' = screen
      BY DEF OnScreen
    <2>3. OnScreen("canceling") => screen.id \in cancels \/ ~Waiting(screen.id)
      BY DEF PromptInv
    <2>4. CASE OnScreen("canceling")'
      <3>1. screen' = screen
        BY <2>1, <2>4
      <3>2. ASSUME Waiting(screen.id)'
            PROVE  screen.id \in cancels'
        BY <1>2, <2>1, <2>3, <2>4, <3>1, <3>2 DEF Waiting
      <3>3. QED
        BY <3>1, <3>2
    <2>5. QED
      BY <2>4
  <1>10. \A i, j \in Ids' : Waiting(i)' /\ pending'[i] = pending'[j] => i = j
    BY <1>1, FewerWaiting
  <1>11. (\A i \in Ids : Waiting(i) => At(pending[i], "parked") /\ answer[pending[i]] = None)'
    BY <1>7
  <1>12. QED
    BY <1>3, <1>5, <1>8, <1>9, <1>10, <1>11 DEF PromptInv

LEMMA PageSteps ==
    ASSUME PromptInv, PageStep, UNCHANGED pc
    PROVE  PromptInv'
  <1>0. PromptTypes /\ \A i \in Ids : Waiting(i) => i \in Id
    BY DEF PromptInv, PromptTypes
  <1>1. CASE Submit \/ SubmitFails
    <2>1. PICK phase \in {"open", "submitting"} :
             /\ screen # None /\ screen' = [screen EXCEPT !.phase = phase]
             /\ UNCHANGED <<pending, answer, listener, channel, cancels, stray, lost, blind>>
      BY <1>1 DEF Submit, SubmitFails, OnScreen
    <2>2. screen' \in Screens /\ screen'.phase = phase /\ Top' = Top
      BY <1>0, <2>1, ScreenPhase
    <2>3. QED
      BY <2>1, <2>2 DEF PromptInv, PromptTypes, PromptsAccounted, Ids, Waiting, InReach, Elements, OnScreen, At
  <1>2. CASE Back
    <2>1. /\ screen # None /\ screen' = [screen EXCEPT !.phase = "canceling"]
          /\ cancels' = cancels \cup {screen.id}
          /\ UNCHANGED <<pending, answer, listener, channel, stray, lost, blind>>
      BY <1>2 DEF Back, OnScreen
    <2>2. screen' \in Screens /\ screen'.id = screen.id /\ Top' = Top /\ screen.id \in Id
      BY <1>0, <2>1, ScreenPhase DEF PromptTypes, Screens
    <2>3. QED
      BY <2>1, <2>2 DEF PromptInv, PromptTypes, PromptsAccounted, Ids, Waiting, InReach, Elements, OnScreen, At
  <1>3. CASE PopCanceled \/ BackAgain
    <2>1. /\ OnScreen("canceling") /\ screen' = None
          /\ UNCHANGED <<pending, answer, listener, channel, cancels, lost, blind>>
      BY <1>3 DEF PopCanceled, BackAgain
    <2>2. screen.id \in cancels \/ ~Waiting(screen.id)
      BY <2>1 DEF PromptInv
    <2>3. \A i : Waiting(i) /\ i \in InReach => i \in InReach'
      BY <2>1, <2>2 DEF InReach, Top, Elements
    <2>4. QED
      BY <2>1, <2>3 DEF PromptInv, PromptTypes, PromptsAccounted, Ids, Waiting, OnScreen, At
  <1>4. CASE Complete
    <2>1. /\ screen # None /\ screen' = None /\ pending' = Unparked({screen.id})
          /\ answer' = Answered(screen.id, "snapshot")
          /\ UNCHANGED <<listener, channel, cancels, stray, lost, blind, pc>>
      BY <1>4 DEF Complete, OnScreen
    <2>2. Top = {screen.id}
      BY <2>1 DEF Top
    <2>3. QED
      BY <2>1, <2>2, AnswerArrives
  <1>5. CASE StrayPop
    <2>1. UNCHANGED <<answer, listener, channel, cancels, lost, pc>>
      BY <1>5 DEF StrayPop
    <2>2. CASE UNCHANGED <<screen, blind, pending>>
      BY <2>1, <2>2 DEF PromptInv, PromptTypes, PromptsAccounted, Ids, Waiting, InReach, Top, Elements, OnScreen, At
    <2>3. CASE /\ screen' = None
               /\ blind' = blind \cup Left(Top \ cancels) /\ pending' = Kept(Top \ cancels)
      <3>1. Fewer
        BY <2>3 DEF Fewer, Kept, Unparked, Ids
      <3>2. \A i : Waiting(i)' => Waiting(i) /\ i \in Ids /\ pending'[i] = pending[i]
        BY <3>1, FewerWaiting
      <3>3. PromptsAccounted'
        <4>1. ASSUME NEW i \in Ids', Waiting(i)'
              PROVE  i \in (InReach \cup lost \cup blind)'
          <5>1. i \in InReach \cup lost \cup blind /\ Waiting(i)
            BY <3>2, <4>1 DEF PromptInv, PromptsAccounted
          <5>2. i \in Top \ cancels => i \in blind'
            BY <2>3, <5>1 DEF Left
          <5>3. QED
            BY <2>1, <2>3, <5>1, <5>2 DEF InReach, Elements
        <4>2. QED
          BY <4>1 DEF PromptsAccounted
      <3>4. PromptTypes'
        BY <1>0, <2>1, <2>3, <3>1, FewerWaiting DEF PromptTypes, Fewer, Ids
      <3>5. QED
        BY <2>1, <2>3, <3>1, <3>2, <3>3, <3>4, FewerWaiting DEF PromptInv, At, OnScreen
    <2>4. QED
      BY <1>5, <2>2, <2>3 DEF StrayPop
  <1>6. QED
    BY <1>1, <1>2, <1>3, <1>4, <1>5 DEF PageStep

LEMMA CancelArrives ==
    ASSUME PromptInv, NEW c, CancelWebview(c), UNCHANGED pc
    PROVE  PromptInv'
  <1>1. /\ cancels' = cancels \ {c} /\ pending' = Unparked({c}) /\ answer' = Answered(c, "refused")
        /\ UNCHANGED <<listener, channel, screen, stray, lost, blind, pc>>
    BY DEF CancelWebview
  <1>2. QED
    BY <1>1, AnswerArrives

\* An operation that opens a page is parked on it, or is told at once that
\* nobody listens.
LEMMA Asks ==
    ASSUME PromptInv, RuntimeTypeOK, NEW o \in Op, Ask(o)
    PROVE  PromptInv'
  <1>1. /\ pc[o] = "webview" /\ pc' = [pc EXCEPT ![o] = "parked"] /\ pc'[o] = "parked"
        /\ \A p \in Op : At(p, "parked") => At(p, "parked")'
    BY DEF Ask, At, Goto, RuntimeTypeOK
  <1>2. answer[o] = None /\ \A i \in Ids : pending[i] # o
    BY <1>1, NoneIsNoOne DEF PromptInv, At, Waiting
  <1>3. PromptTypes
    BY DEF PromptInv
  <1>4. CASE Refuse(o)
    <2>1. /\ answer' = [answer EXCEPT ![o] = "refused"] /\ UNCHANGED <<pending, app>>
          /\ answer'[o] = "refused" /\ \A p \in Op : p # o => answer'[p] = answer[p]
      BY <1>3, <1>4 DEF Refuse, PromptTypes
    <2>2. PromptTypes'
      <3>1. answer' \in [Op -> Answers]
        BY <1>3, <2>1 DEF PromptTypes, Answers
      <3>2. QED
        BY <1>3, <2>1, <3>1 DEF PromptTypes, app, Ids
    <2>3. PromptsAccounted' /\ (\A i, j \in Ids : Waiting(i) /\ pending[i] = pending[j] => i = j)'
      BY <2>1 DEF PromptInv, PromptsAccounted, app, Ids, Waiting, InReach, Top, Elements
    <2>4. (\A i \in Ids : Waiting(i) => At(pending[i], "parked") /\ answer[pending[i]] = None)'
      BY <1>1, <1>2, <1>3, <2>1 DEF PromptInv, PromptTypes, app, Ids, Waiting, At
    <2>5. (\A p \in Op : answer[p] # None => At(p, "parked"))'
      BY <1>1, <2>1 DEF PromptInv, At
    <2>6. (OnScreen("canceling") => screen.id \in cancels \/ ~Waiting(screen.id))'
      BY <2>1 DEF PromptInv, app, OnScreen, Waiting, Ids
    <2>7. QED
      BY <2>2, <2>3, <2>4, <2>5, <2>6 DEF PromptInv
  <1>5. CASE Prompt(o)
    <2>1. PICK id \in Id \ Named :
            /\ pending' = [i \in Ids \cup {id} |-> IF i = id THEN o ELSE pending[i]]
            /\ IF listener = "live" THEN channel' = Append(channel, id) /\ UNCHANGED lost
                                    ELSE lost' = lost \cup {id} /\ UNCHANGED channel
            /\ UNCHANGED <<answer, listener, screen, cancels, stray, blind>>
      BY <1>5 DEF Prompt
    <2>2. id \notin Ids \cup Top
      BY <2>1 DEF Named
    <2>3. /\ Ids' = Ids \cup {id} /\ pending'[id] = o
          /\ \A i \in Ids : i # id /\ pending'[i] = pending[i]
      BY <2>1, <2>2 DEF Ids
    <2>4. /\ channel' \in Seq(Id) /\ Elements(channel) \subseteq Elements(channel')
          /\ lost \subseteq lost' /\ (id \in Elements(channel') \/ id \in lost')
      <3>1. CASE listener = "live"
        BY <1>3, <2>1, <3>1, ChannelAppend DEF PromptTypes
      <3>2. CASE listener # "live"
        BY <1>3, <2>1, <3>2 DEF PromptTypes
      <3>3. QED
        BY <3>1, <3>2
    <2>5. PromptTypes'
      BY <1>3, <2>1, <2>3, <2>4 DEF PromptTypes, Ids
    <2>6. PromptsAccounted'
      <3>1. ASSUME NEW i \in Ids', Waiting(i)'
            PROVE  i \in (InReach \cup lost \cup blind)'
        <4>1. CASE i = id
          BY <2>4, <4>1 DEF InReach
        <4>2. CASE i # id
          <5>1. i \in Ids /\ Waiting(i)
            BY <2>3, <3>1, <4>2 DEF Waiting
          <5>2. i \in InReach \cup lost \cup blind
            BY <5>1 DEF PromptInv, PromptsAccounted
          <5>3. QED
            BY <2>1, <2>4, <5>2 DEF InReach, Top
        <4>3. QED
          BY <4>1, <4>2
      <3>2. QED
        BY <3>1 DEF PromptsAccounted
    <2>7. (\A i, j \in Ids : Waiting(i) /\ pending[i] = pending[j] => i = j)'
      BY <1>2, <2>3 DEF PromptInv, Waiting
    <2>8. (\A i \in Ids : Waiting(i) => At(pending[i], "parked") /\ answer[pending[i]] = None)'
      <3>1. ASSUME NEW i \in Ids', Waiting(i)'
            PROVE  At(pending[i], "parked")' /\ answer'[pending'[i]] = None
        <4>1. CASE i = id
          BY <1>1, <1>2, <2>1, <2>3, <4>1 DEF At
        <4>2. CASE i # id
          <5>1. i \in Ids /\ Waiting(i) /\ pending'[i] = pending[i] /\ pending[i] \in Op
            BY <1>3, <2>3, <3>1, <4>2 DEF Waiting, PromptTypes
          <5>2. At(pending[i], "parked") /\ answer[pending[i]] = None
            BY <5>1 DEF PromptInv
          <5>3. QED
            BY <1>1, <2>1, <5>1, <5>2 DEF At
        <4>3. QED
          BY <4>1, <4>2
      <3>2. QED
        BY <3>1
    <2>9. (\A p \in Op : answer[p] # None => At(p, "parked"))'
      BY <1>1, <2>1 DEF PromptInv
    <2>10. (OnScreen("canceling") => screen.id \in cancels \/ ~Waiting(screen.id))'
      <3>1. ASSUME OnScreen("canceling")'
            PROVE  screen' = screen /\ OnScreen("canceling") /\ screen.id # id
        BY <2>1, <2>2, <3>1 DEF OnScreen, Top
      <3>2. QED
        BY <2>1, <2>3, <3>1 DEF PromptInv, OnScreen, Waiting
    <2>11. QED
      BY <2>5, <2>6, <2>7, <2>8, <2>9, <2>10 DEF PromptInv
  <1>6. QED
    BY <1>4, <1>5 DEF Ask, OpenWebview

\* The answer is taken by the only one who waited for it.
LEMMA Unparks ==
    ASSUME PromptInv, RuntimeTypeOK, NEW o \in Op, Unpark(o)
    PROVE  PromptInv'
  <1>1. /\ answer[o] # None /\ answer' = [answer EXCEPT ![o] = None] /\ UNCHANGED <<pending, app>>
        /\ \A p \in Op : p # o => pc'[p] = pc[p]
    BY DEF Unpark, Goto, RuntimeTypeOK
  <1>2. PromptTypes
    BY DEF PromptInv
  <1>3. \A i \in Ids : Waiting(i) => pending[i] # o
    BY <1>1 DEF PromptInv
  <1>4. answer'[o] = None /\ \A p \in Op : p # o => answer'[p] = answer[p]
    BY <1>1, <1>2 DEF PromptTypes
  <1>5. PromptTypes'
    <2>1. answer' \in [Op -> Answers]
      BY <1>1, <1>2 DEF PromptTypes, Answers
    <2>2. QED
      BY <1>1, <1>2, <2>1 DEF PromptTypes, app, Ids
  <1>6. PromptsAccounted' /\ (\A i, j \in Ids : Waiting(i) /\ pending[i] = pending[j] => i = j)'
    BY <1>1 DEF PromptInv, PromptsAccounted, app, Ids, Waiting, InReach, Top, Elements
  <1>7. (\A i \in Ids : Waiting(i) => At(pending[i], "parked") /\ answer[pending[i]] = None)'
    BY <1>1, <1>2, <1>3, <1>4 DEF PromptInv, PromptTypes, Ids, Waiting, At
  <1>8. (\A p \in Op : answer[p] # None => At(p, "parked"))'
    BY <1>1, <1>4 DEF PromptInv, At
  <1>9. (OnScreen("canceling") => screen.id \in cancels \/ ~Waiting(screen.id))'
    BY <1>1 DEF PromptInv, app, OnScreen, Waiting, Ids
  <1>10. QED
    BY <1>5, <1>6, <1>7, <1>8, <1>9 DEF PromptInv

\* A dropped operation waits for nothing.
LEMMA Drops ==
    ASSUME PromptInv, RuntimeTypeOK, NEW o \in Op, Drop(o)
    PROVE  PromptInv'
  <1> DEFINE mine == {i \in Ids : pending[i] = o}
             gone == mine \cap (lost \cup blind)
  <1>1. /\ pending' = [i \in Ids \ gone |-> IF i \in mine THEN None ELSE pending[i]]
        /\ lost' = lost \ mine /\ blind' = blind \ mine
        /\ answer' = [answer EXCEPT ![o] = None]
        /\ UNCHANGED <<listener, channel, screen, cancels, stray>>
        /\ \A p \in Op : p # o => pc'[p] = pc[p]
    BY DEF Drop, DropReceiver, Goto, RuntimeTypeOK
  <1>2. PromptTypes
    BY DEF PromptInv
  <1>3. Fewer /\ \A i : Waiting(i)' => i \notin mine
    BY <1>1 DEF Fewer, Ids, Waiting
  <1>4. \A i : Waiting(i)' => Waiting(i) /\ i \in Ids /\ pending'[i] = pending[i] /\ pending[i] # o
    BY <1>3, FewerWaiting
  <1> HIDE DEF mine, gone
  <1>5. answer' \in [Op -> Answers] /\ answer'[o] = None /\ \A p \in Op : p # o => answer'[p] = answer[p]
    BY <1>1, <1>2 DEF PromptTypes, Answers
  <1>6. PromptTypes'
    <2>1. Ids' \subseteq Id /\ \A i \in Ids' : pending'[i] \in Op \cup {None}
      BY <1>3, FewerWaiting
    <2>2. QED
      BY <1>1, <1>2, <1>5, <2>1 DEF PromptTypes
  <1>7. PromptsAccounted'
    <2>1. ASSUME NEW i \in Ids', Waiting(i)'
          PROVE  i \in (InReach \cup lost \cup blind)'
      <3>1. i \in InReach \cup lost \cup blind /\ i \notin mine
        BY <1>3, <1>4, <2>1 DEF PromptInv, PromptsAccounted
      <3>2. QED
        BY <1>1, <3>1 DEF InReach, Top, Elements
    <2>2. QED
      BY <2>1 DEF PromptsAccounted
  <1>8. (\A i, j \in Ids : Waiting(i) /\ pending[i] = pending[j] => i = j)'
    BY <1>3, FewerWaiting
  <1>9. (\A i \in Ids : Waiting(i) => At(pending[i], "parked") /\ answer[pending[i]] = None)'
    <2>1. ASSUME NEW i \in Ids', Waiting(i)'
          PROVE  At(pending[i], "parked")' /\ answer'[pending'[i]] = None
      <3>1. Waiting(i) /\ i \in Ids /\ pending'[i] = pending[i] /\ pending[i] # o
        BY <1>4, <2>1
      <3>2. At(pending[i], "parked") /\ answer[pending[i]] = None /\ pending[i] \in Op
        BY <1>2, <3>1 DEF PromptInv, PromptTypes, Waiting
      <3>3. QED
        BY <1>1, <1>5, <3>1, <3>2 DEF At
    <2>2. QED
      BY <2>1
  <1>10. (\A p \in Op : answer[p] # None => At(p, "parked"))'
    BY <1>1, <1>5 DEF PromptInv, At
  <1>11. (OnScreen("canceling") => screen.id \in cancels \/ ~Waiting(screen.id))'
    BY <1>1, <1>4 DEF PromptInv, OnScreen
  <1>12. QED
    BY <1>6, <1>7, <1>8, <1>9, <1>10, <1>11 DEF PromptInv

LEMMA AppPrompts ==
    ASSUME PromptInv, App
    PROVE  PromptInv'
  BY Subscribes, EngineGoes, Presents, PageSteps, CancelArrives DEF App, PromptsNext, runtime, ops

LEMMA ProceedPrompts ==
    ASSUME PromptInv, RuntimeTypeOK, NEW o \in Op, Proceed(o)
    PROVE  PromptInv'
  <1>1. CASE Invoke(o) \/ Patch(o) \/ Lock(o) \/ Network(o)
    <2>1. UNCHANGED prompts
      BY <1>1 DEF Invoke, Request, Compute, Webview, Finish, Patch, Lock, Hit, Miss, Network, Respond, Retry, HttpFails
    <2>2. \A p \in Op : At(p, "parked") => At(p, "parked")'
      BY <1>1 DEF Invoke, Request, Compute, Webview, Finish, Patch, Lock, Hit, Miss, Network, Respond, Retry,
                  HttpFails, Spend, Goto, At, RuntimeTypeOK
    <2>3. QED
      BY <2>1, <2>2, PromptSame
  <1>2. QED
    BY <1>1, Asks, Unparks DEF Proceed

-----------------------------------------------------------------------------
(* The runtime and its response cache.                                       *)
Places == {"idle", "invoke", "patch", "lock", "send", "webview", "parked", "done", "failed"}

LEMMA PlacesHold == RuntimeTypes => pc \in [Op -> Places]
  BY DEF RuntimeTypes, RuntimeTypeOK, Places

LEMMA Spends ==
    ASSUME RuntimeTypes, NEW o \in Op, NEW l \in Places, Spend(o, l)
    PROVE  pc' \in [Op -> Places] /\ left' \in [Op -> 0..MaxSteps]
  <1>1. /\ pc \in [Op -> Places] /\ left \in [Op -> 0..MaxSteps] /\ left[o] \in 0..MaxSteps
        /\ MaxSteps \in Nat /\ "failed" \in Places
    BY RuntimeBounds DEF RuntimeTypes, RuntimeTypeOK, Places
  <1>2. CASE left[o] = 0
    BY <1>1, <1>2 DEF Spend, Goto
  <1>3. CASE left[o] # 0
    <2>1. left[o] - 1 \in 0..MaxSteps
      BY <1>1, <1>3
    <2>2. QED
      BY <1>1, <1>3, <2>1 DEF Spend, Goto
  <1>4. QED
    BY <1>2, <1>3

LEMMA ProceedTypes ==
    ASSUME RuntimeTypes, NEW o \in Op, Proceed(o)
    PROVE  RuntimeTypes'
  <1>1. /\ pc \in [Op -> Places] /\ left \in [Op -> 0..MaxSteps] /\ tries \in [Op -> 0..MaxRetries]
        /\ auth \in [Inst -> Auth \cup {None}] /\ inst \in [Op -> Inst]
        /\ want \in [Op -> CacheKey \cup {None}] /\ sent \in [Op -> Auth \cup {None}]
        /\ seen \in Auth \cup {None} /\ holder \in [Inst -> Op \cup {None}]
        /\ heard \in {"nothing", "site", "cache"}
        /\ DOMAIN responses = Inst /\ \A i \in Inst : DOMAIN responses[i] \subseteq CacheKey
        /\ \A i \in Inst : \A k \in DOMAIN responses[i] : responses[i][k] \in Auth \cup {None}
        /\ MaxRetries \in Nat
    BY PlacesHold, RuntimeBounds DEF RuntimeTypes, RuntimeTypeOK
  <1>2. Proceed(o) => UNCHANGED <<inst, auth>>
    BY DEF Proceed, Invoke, Request, Compute, Webview, Finish, Patch, Lock, Hit, Miss, Network, Respond, Retry, HttpFails, Ask, Unpark
  <1>3. pc' \in [Op -> Places] /\ left' \in [Op -> 0..MaxSteps]
    <2>1. CASE Invoke(o)
      <3>1. CASE Finish(o)
        <4>1. UNCHANGED left /\ \E l \in Places : Goto(o, l)
          BY <3>1 DEF Finish, Places
        <4>2. QED
          BY <1>1, <4>1 DEF Goto
      <3>2. CASE \E l \in {"patch", "invoke", "webview"} : Spend(o, l)
        BY <3>2, Spends DEF Places
      <3>3. QED
        BY <2>1, <3>1, <3>2 DEF Invoke, Request, Compute, Webview
    <2>2. CASE ~Invoke(o)
      <3>1. UNCHANGED left
        BY <2>2 DEF Proceed, Patch, Lock, Hit, Miss, Network, Respond, Retry, HttpFails, Ask, Unpark
      <3>2. pc' = pc \/ \E l \in Places : Goto(o, l)
        BY <2>2 DEF Proceed, Patch, Lock, Hit, Miss, Network, Respond, Retry, HttpFails, Ask, Unpark, Places
      <3>3. QED
        BY <1>1, <3>1, <3>2 DEF Goto
    <2>3. QED
      BY <2>1, <2>2
  <1>4. tries' \in [Op -> 0..MaxRetries]
    <2>1. CASE Retry(o)
      <3>1. tries[o] + 1 \in 0..MaxRetries
        BY <1>1, <2>1 DEF Retry
      <3>2. QED
        BY <1>1, <2>1, <3>1 DEF Retry
    <2>2. CASE UNCHANGED tries \/ tries' = [tries EXCEPT ![o] = 0]
      BY <1>1, <2>2
    <2>3. QED
      BY <2>1, <2>2 DEF Proceed, Invoke, Request, Compute, Webview, Finish, Patch, Lock, Hit, Miss, Network, Respond, HttpFails, Ask, Unpark, NoRequest
  <1>5. want' \in [Op -> CacheKey \cup {None}]
    <2>1. want' = want \/ \E k \in CacheKey \cup {None} : want' = [want EXCEPT ![o] = k]
      BY DEF Proceed, Invoke, Request, Keys, Compute, Webview, Finish, Patch, Lock, Hit, Miss, Network, Respond, Retry, HttpFails, Ask, Unpark, NoRequest
    <2>2. QED
      BY <1>1, <2>1
  <1>6. sent' \in [Op -> Auth \cup {None}] /\ seen' \in Auth \cup {None} /\ heard' \in {"nothing", "site", "cache"}
    <2>1. sent' = sent \/ \E a \in Auth \cup {None} : sent' = [sent EXCEPT ![o] = a]
      BY <1>1 DEF Proceed, Invoke, Request, Compute, Webview, Finish, Patch, Lock, Hit, Miss, Network, Respond, Retry, HttpFails, Ask, Unpark, NoRequest
    <2>2. CASE Hit(o)
      <3>1. responses[inst[o]][want[o]] \in Auth \cup {None}
        BY <1>1, <2>2 DEF Hit
      <3>2. QED
        BY <1>1, <2>1, <2>2, <3>1 DEF Hit, Hears
    <2>3. CASE ~Hit(o)
      <3>1. seen' \in {seen, sent[o]} /\ heard' \in {heard, "site"}
        BY <2>3 DEF Proceed, Invoke, Request, Compute, Webview, Finish, Patch, Lock, Miss, Network, Respond, Hears, Retry,
                    HttpFails, Ask, Unpark
      <3>2. QED
        BY <1>1, <2>1, <3>1
    <2>4. QED
      BY <2>2, <2>3
  <1>7. holder' \in [Inst -> Op \cup {None}]
    <2>1. holder' = holder \/ holder' = [holder EXCEPT ![inst[o]] = o] \/ holder' = Freed(o)
      BY DEF Proceed, Invoke, Request, Compute, Webview, Finish, Patch, Lock, Hit, Miss, Network, Respond, Retry, HttpFails, Ask, Unpark, caches
    <2>2. Freed(o) \in [Inst -> Op \cup {None}]
      BY <1>1 DEF Freed
    <2>3. QED
      BY <1>1, <2>1, <2>2
  <1>8. /\ DOMAIN responses' = Inst /\ \A i \in Inst : DOMAIN responses'[i] \subseteq CacheKey
        /\ \A i \in Inst : \A k \in DOMAIN responses'[i] : responses'[i][k] \in Auth \cup {None}
    <2>1. \/ UNCHANGED responses
          \/ want[o] # None /\ responses' = [responses EXCEPT ![inst[o]] = Cached(o)]
      BY DEF Proceed, Invoke, Request, Compute, Webview, Finish, Patch, Lock, Hit, Miss, Network, Respond, Retry, HttpFails, Ask, Unpark, caches
    <2>2. want[o] # None => /\ DOMAIN Cached(o) \subseteq CacheKey
                            /\ \A k \in DOMAIN Cached(o) : Cached(o)[k] \in Auth \cup {None}
      BY <1>1 DEF Cached
    <2>3. QED
      BY <1>1, <2>1, <2>2
  <1>9. QED
    BY <1>1, <1>2, <1>3, <1>4, <1>5, <1>6, <1>7, <1>8 DEF RuntimeTypes, RuntimeTypeOK, Places

\* The operation the step is of, and nothing held by it afterwards.
Alone(o) == \A p \in Op \ {o} : pc'[p] = pc[p] /\ want'[p] = want[p] /\ inst'[p] = inst[p]

LEMMA NotHolding ==
    ASSUME RuntimeTypes, CacheInv, NEW o \in Op, ~At(o, "send") \/ want[o] = None
    PROVE  Freed(o) = holder
  <1>1. holder[inst[o]] # o
    BY DEF CacheInv
  <1>2. QED
    BY <1>1 DEF Freed, RuntimeTypes

LEMMA FreeOp ==
    ASSUME RuntimeTypes, CacheInv, NEW o \in Op, Alone(o), inst' \in [Op -> Inst],
           holder' = Freed(o), UNCHANGED responses,
           ~(pc'[o] = "send" /\ want'[o] # None), pc'[o] = "lock" => want'[o] # None
    PROVE  CacheInv'
  <1>0. inst \in [Op -> Inst] /\ holder \in [Inst -> Op \cup {None}] /\ None \notin Op
    BY NoneIsNoOne DEF RuntimeTypes
  <1>1. \A i \in Inst : holder'[i] # o /\ (holder'[i] = holder[i] \/ (holder[i] = o /\ holder'[i] = None))
    BY <1>0 DEF Freed, CacheInv
  <1>2. (\A p \in Op : At(p, "lock") => want[p] # None)'
    BY DEF Alone, CacheInv, At
  <1>3. (\A p \in Op : (At(p, "send") /\ want[p] # None) <=> holder[inst[p]] = p)'
    <2>1. ASSUME NEW p \in Op, p # o
          PROVE  (pc'[p] = "send" /\ want'[p] # None) <=> holder'[inst'[p]] = p
      <3>1. (At(p, "send") /\ want[p] # None) <=> holder[inst[p]] = p
        BY DEF CacheInv
      <3>2. holder'[inst[p]] = p <=> holder[inst[p]] = p
        BY <1>0, <1>1, <2>1
      <3>3. QED
        BY <2>1, <3>1, <3>2 DEF Alone, At
    <2>2. holder'[inst'[o]] # o
      BY <1>1
    <2>3. QED
      BY <2>1, <2>2 DEF At
  <1>4. \A i \in Inst : holder'[i] # None => inst'[holder'[i]] = i
    BY <1>0, <1>1 DEF CacheInv, Alone
  <1>5. \A p \in Op : holder'[inst'[p]] = p => want'[p] \notin DOMAIN responses'[inst'[p]]
    BY <1>0, <1>1 DEF CacheInv, Alone
  <1>6. QED
    BY <1>2, <1>3, <1>4, <1>5 DEF CacheInv

LEMMA MissTakesLock ==
    ASSUME RuntimeTypes, CacheInv, NEW o \in Op, Miss(o)
    PROVE  CacheInv'
  <1>1. /\ pc \in [Op -> Places] /\ inst \in [Op -> Inst] /\ holder \in [Inst -> Op \cup {None}] /\ None \notin Op
        /\ pc[o] = "lock" /\ holder[inst[o]] = None /\ want[o] \notin DOMAIN responses[inst[o]]
        /\ pc' = [pc EXCEPT ![o] = "send"] /\ holder' = [holder EXCEPT ![inst[o]] = o]
        /\ UNCHANGED <<inst, want, responses>>
    BY NoneIsNoOne, PlacesHold DEF Miss, At, Goto, RuntimeTypes
  <1>2. /\ \A p \in Op : At(p, "lock") => want[p] # None
        /\ \A p \in Op : (At(p, "send") /\ want[p] # None) <=> holder[inst[p]] = p
        /\ \A i \in Inst : holder[i] # None => inst[holder[i]] = i
        /\ \A p \in Op : holder[inst[p]] = p => want[p] \notin DOMAIN responses[inst[p]]
        /\ \A i \in Inst : IsFiniteSet(DOMAIN responses[i]) /\ Cardinality(DOMAIN responses[i]) <= MaxCached
    BY DEF CacheInv
  <1>3. want[o] # None
    BY <1>1, <1>2 DEF At
  <1>4. \A i \in Inst : holder'[i] = IF i = inst[o] THEN o ELSE holder[i]
    BY <1>1
  <1>5. \A p \in Op : pc'[p] = IF p = o THEN "send" ELSE pc[p]
    BY <1>1
  <1>6. (\A p \in Op : (At(p, "send") /\ want[p] # None) <=> holder[inst[p]] = p)'
    <2>1. ASSUME NEW p \in Op, p # o
          PROVE  (pc'[p] = "send" /\ want'[p] # None) <=> holder'[inst'[p]] = p
      <3>1. (At(p, "send") /\ want[p] # None) <=> holder[inst[p]] = p
        BY <1>2
      <3>2. holder'[inst[p]] = p <=> holder[inst[p]] = p
        BY <1>1, <1>4, <2>1
      <3>3. QED
        BY <1>1, <1>5, <2>1, <3>1, <3>2 DEF At
    <2>2. pc'[o] = "send" /\ want'[o] # None /\ holder'[inst'[o]] = o
      BY <1>1, <1>3, <1>4, <1>5
    <2>3. QED
      BY <2>1, <2>2 DEF At
  <1>7. (\A p \in Op : At(p, "lock") => want[p] # None)'
    BY <1>1, <1>2, <1>5 DEF At
  <1>8. \A i \in Inst : holder'[i] # None => inst'[holder'[i]] = i
    BY <1>1, <1>2, <1>4
  <1>9. \A p \in Op : holder'[inst'[p]] = p => want'[p] \notin DOMAIN responses'[inst'[p]]
    BY <1>1, <1>2, <1>4
  <1>10. QED
    BY <1>1, <1>2, <1>6, <1>7, <1>8, <1>9 DEF CacheInv

LEMMA RespondFills ==
    ASSUME RuntimeTypes, CacheInv, NEW o \in Op, Respond(o), responses' # responses
    PROVE  CacheInv'
  <1>1. /\ pc \in [Op -> Places] /\ inst \in [Op -> Inst] /\ holder \in [Inst -> Op \cup {None}] /\ None \notin Op
        /\ pc[o] = "send" /\ want[o] # None /\ Cardinality(DOMAIN responses[inst[o]]) < MaxCached
        /\ pc' = [pc EXCEPT ![o] = "invoke"] /\ holder' = Freed(o)
        /\ responses' = [responses EXCEPT ![inst[o]] = Cached(o)]
        /\ inst' = inst /\ want' = [want EXCEPT ![o] = None] /\ DOMAIN responses = Inst
        /\ want \in [Op -> CacheKey \cup {None}] /\ MaxCached \in Nat
    BY NoneIsNoOne, PlacesHold, RuntimeBounds DEF Respond, NoRequest, At, Goto, RuntimeTypes
  <1>2. /\ \A p \in Op : At(p, "lock") => want[p] # None
        /\ \A p \in Op : (At(p, "send") /\ want[p] # None) <=> holder[inst[p]] = p
        /\ \A i \in Inst : holder[i] # None => inst[holder[i]] = i
        /\ \A p \in Op : holder[inst[p]] = p => want[p] \notin DOMAIN responses[inst[p]]
        /\ \A i \in Inst : IsFiniteSet(DOMAIN responses[i]) /\ Cardinality(DOMAIN responses[i]) <= MaxCached
    BY DEF CacheInv
  <1>3. holder[inst[o]] = o /\ \A i \in Inst : holder'[i] = IF i = inst[o] THEN None ELSE holder[i]
    BY <1>1, <1>2 DEF At, Freed
  <1>4. \A i \in Inst : holder'[i] # o
    BY <1>1, <1>2, <1>3
  <1>5. \A p \in Op \ {o} : pc'[p] = pc[p] /\ want'[p] = want[p]
    BY <1>1
  <1>6. pc'[o] = "invoke" /\ want'[o] = None
    BY <1>1
  <1>7. (\A p \in Op : (At(p, "send") /\ want[p] # None) <=> holder[inst[p]] = p)'
    <2>1. ASSUME NEW p \in Op, p # o
          PROVE  (pc'[p] = "send" /\ want'[p] # None) <=> holder'[inst'[p]] = p
      <3>1. (At(p, "send") /\ want[p] # None) <=> holder[inst[p]] = p
        BY <1>2
      <3>2. holder'[inst[p]] = p <=> holder[inst[p]] = p
        BY <1>1, <1>3, <2>1
      <3>3. QED
        BY <1>1, <1>5, <2>1, <3>1, <3>2 DEF At
    <2>2. QED
      BY <1>1, <1>4, <1>6, <2>1 DEF At
  <1>8. (\A p \in Op : At(p, "lock") => want[p] # None)'
    BY <1>2, <1>5, <1>6 DEF At
  <1>9. \A i \in Inst : holder'[i] # None => inst'[holder'[i]] = i
    BY <1>1, <1>2, <1>3
  <1>10. \A p \in Op : holder'[inst'[p]] = p => want'[p] \notin DOMAIN responses'[inst'[p]]
    <2>1. ASSUME NEW p \in Op, holder'[inst'[p]] = p
          PROVE  want'[p] \notin DOMAIN responses'[inst'[p]]
      <3>1. inst[p] # inst[o] /\ p # o /\ holder[inst[p]] = p
        BY <1>1, <1>3, <2>1
      <3>2. responses'[inst[p]] = responses[inst[p]]
        BY <1>1, <3>1
      <3>3. QED
        BY <1>1, <1>2, <1>5, <3>1, <3>2
    <2>2. QED
      BY <2>1
  <1>11. \A i \in Inst : IsFiniteSet(DOMAIN responses'[i]) /\ Cardinality(DOMAIN responses'[i]) <= MaxCached
    <2>1. ASSUME NEW i \in Inst, i # inst[o]
          PROVE  IsFiniteSet(DOMAIN responses'[i]) /\ Cardinality(DOMAIN responses'[i]) <= MaxCached
      <3>1. responses'[i] = responses[i]
        BY <1>1, <2>1
      <3>2. QED
        BY <1>2, <3>1
    <2>2. IsFiniteSet(DOMAIN responses'[inst[o]]) /\ Cardinality(DOMAIN responses'[inst[o]]) <= MaxCached
      <3> DEFINE keys == DOMAIN responses[inst[o]]
      <3>1. DOMAIN responses'[inst[o]] = keys \cup {want[o]}
        BY <1>1 DEF Cached
      <3>2. IsFiniteSet(keys) /\ Cardinality(keys) < MaxCached /\ Cardinality(keys) \in Nat
        BY <1>1, <1>2, FS_CardinalityType
      <3> HIDE DEF keys
      <3>3. IsFiniteSet(keys \cup {want[o]}) /\ Cardinality(keys \cup {want[o]}) <= Cardinality(keys) + 1
        BY <3>2, FS_AddElement
      <3>4. Cardinality(keys \cup {want[o]}) \in Nat
        BY <3>3, FS_CardinalityType
      <3>5. QED
        BY <1>1, <3>1, <3>2, <3>3, <3>4
    <2>3. QED
      BY <2>1, <2>2
  <1>12. QED
    BY <1>7, <1>8, <1>9, <1>10, <1>11 DEF CacheInv

LEMMA CacheSame ==
    ASSUME CacheInv, UNCHANGED <<pc, want, inst, caches>>
    PROVE  CacheInv'
  BY DEF CacheInv, At, caches

LEMMA ProceedCache ==
    ASSUME RuntimeTypes, CacheInv, NEW o \in Op, Proceed(o)
    PROVE  CacheInv'
  <1>1. /\ pc \in [Op -> Places] /\ want \in [Op -> CacheKey \cup {None}] /\ inst \in [Op -> Inst] 
    BY PlacesHold DEF RuntimeTypes
  <1>2. CASE Invoke(o)
    <2>1. /\ pc[o] = "invoke" /\ UNCHANGED <<inst, caches>> /\ pc'[o] \notin {"send", "lock"}
      BY <1>1, <1>2 DEF Invoke, Request, Compute, Webview, Finish, Spend, Goto, At
    <2>2. Alone(o)
      BY <1>1, <1>2 DEF Invoke, Request, Compute, Webview, Finish, Spend, Goto, Alone
    <2>3. Freed(o) = holder
      BY <2>1, NotHolding DEF At
    <2>4. QED
      BY <1>1, <2>1, <2>2, <2>3, FreeOp DEF caches
  <1>3. CASE Patch(o)
    <2>1. /\ pc[o] = "patch" /\ UNCHANGED <<inst, want, caches>> /\ pc'[o] = IF want[o] = None THEN "send" ELSE "lock"
      BY <1>1, <1>3 DEF Patch, Goto, At
    <2>2. Alone(o)
      BY <1>1, <1>3 DEF Patch, Goto, Alone
    <2>3. Freed(o) = holder
      BY <2>1, NotHolding DEF At
    <2>4. QED
      BY <1>1, <2>1, <2>2, <2>3, FreeOp DEF caches
  <1>4. CASE Hit(o)
    <2>1. /\ pc[o] = "lock" /\ UNCHANGED <<inst, caches>> /\ pc'[o] = "invoke"
      BY <1>1, <1>4 DEF Hit, Goto, At
    <2>2. Alone(o)
      BY <1>1, <1>4 DEF Hit, NoRequest, Goto, Alone
    <2>3. Freed(o) = holder
      BY <2>1, NotHolding DEF At
    <2>4. QED
      BY <1>1, <2>1, <2>2, <2>3, FreeOp DEF caches
  <1>5. CASE HttpFails(o) \/ (Respond(o) /\ UNCHANGED responses)
    <2>1. /\ UNCHANGED <<inst, responses>> /\ holder' = Freed(o) /\ pc'[o] \in {"failed", "invoke"}
      BY <1>1, <1>5 DEF HttpFails, Respond, Goto
    <2>2. Alone(o)
      BY <1>1, <1>5 DEF HttpFails, Respond, NoRequest, Goto, Alone
    <2>3. QED
      BY <1>1, <2>1, <2>2, FreeOp
  <1>6. CASE Ask(o) \/ Unpark(o)
    <2>1. /\ pc[o] \in {"webview", "parked"} /\ UNCHANGED <<inst, want, caches>> /\ pc'[o] \notin {"send", "lock"}
      BY <1>1, <1>6 DEF Ask, Unpark, Goto, At
    <2>2. Alone(o)
      BY <1>1, <1>6 DEF Ask, Unpark, Goto, Alone
    <2>3. Freed(o) = holder
      BY <2>1, NotHolding DEF At
    <2>4. QED
      BY <1>1, <2>1, <2>2, <2>3, FreeOp DEF caches
  <1>7. CASE Retry(o)
    BY <1>7, CacheSame DEF Retry
  <1>8. QED
    BY <1>2, <1>3, <1>4, <1>5, <1>6, <1>7, MissTakesLock, RespondFills DEF Proceed, Lock, Network

\* The steps of an operation that the actor or the app takes.
LEMMA DrivenRuntime ==
    ASSUME RuntimeTypes, CacheInv, NEW o \in Op, NEW i \in Inst, Begin(o, i) \/ Settle(o) \/ Drop(o)
    PROVE  RuntimeTypes' /\ CacheInv'
  <1>1. /\ pc \in [Op -> Places] /\ want \in [Op -> CacheKey \cup {None}] /\ inst \in [Op -> Inst]
        /\ {"idle", "invoke"} \subseteq Places /\ MaxSteps \in Nat /\ MaxRetries \in Nat
    BY PlacesHold, RuntimeBounds DEF RuntimeTypes, Places
  <1>2. /\ inst' \in [Op -> Inst] /\ pc' \in [Op -> Places] /\ pc'[o] \in {"idle", "invoke"} /\ Alone(o) /\ UNCHANGED responses
    BY <1>1 DEF Begin, Settle, Drop, NoRequest, Goto, Alone, caches
  <1>3. holder' = Freed(o)
    <2>1. CASE Drop(o)
      BY <2>1 DEF Drop
    <2>2. CASE Begin(o, i) \/ Settle(o)
      BY <2>2, NotHolding DEF Begin, Settle, At, caches
    <2>3. QED
      BY <2>1, <2>2
  <1>4. CacheInv'
    BY <1>2, <1>3, FreeOp
  <1>5. RuntimeTypes'
    <2>1. /\ left' \in [Op -> 0..MaxSteps] /\ tries' \in [Op -> 0..MaxRetries]
          /\ want' \in [Op -> CacheKey \cup {None}] /\ sent' \in [Op -> Auth \cup {None}]
          /\ seen' \in Auth \cup {None} /\ heard' \in {"nothing", "site", "cache"} /\ UNCHANGED auth
      BY <1>1 DEF Begin, Settle, Drop, NoRequest, Hears, RuntimeTypes, RuntimeTypeOK
    <2>2. holder' \in [Inst -> Op \cup {None}]
      BY <1>3 DEF Freed, RuntimeTypes
    <2>3. QED
      BY <1>2, <2>1, <2>2 DEF RuntimeTypes, RuntimeTypeOK, Places
  <1>6. QED
    BY <1>4, <1>5

-----------------------------------------------------------------------------
(* The session.                                                              *)
LEMMA LoginFields ==
    ASSUME SessionTypes, NEW l \in LoginPc
    PROVE  /\ [login EXCEPT !.pc = l] \in Logins
           /\ [login EXCEPT !.pc = l].pc = l /\ [login EXCEPT !.pc = l].inst = login.inst
           /\ [login EXCEPT !.pc = l].cand = login.cand /\ [login EXCEPT !.pc = l].saved = login.saved
           /\ [login EXCEPT !.pc = l].trust = login.trust
  BY DEF SessionTypes, Logins

LEMMA IdleLogin ==
    /\ NoLogin \in Logins
    /\ NoLogin.pc = "idle"
  BY DEF NoLogin, LoginPc, Logins

LEMMA SetAuthIs ==
    ASSUME RuntimeTypes, NEW i \in Inst, NEW a, SetAuth(i, a)
    PROVE  /\ auth'[i] = a /\ \A j \in Inst : j # i => auth'[j] = auth[j]
           /\ hydrated' = hydrated \cup {i}
           /\ a \in Auth \cup {None} => auth' \in [Inst -> Auth \cup {None}]
  BY DEF SetAuth, RuntimeTypes, RuntimeTypeOK

\* A login that ends leaves the instance it worked on with what is stored.
LEMMA LoginDone ==
    ASSUME SessionInv, ~Doing("idle"), login' = NoLogin, UNCHANGED current, hydrated \subseteq hydrated',
           hydrated' \subseteq hydrated \cup {login.inst}, stored' \in Auth \cup {None}, onTrust' \in BOOLEAN,
           stored' \in Valid \cup {None} \/ onTrust', auth'[login.inst] = stored'
    PROVE  SessionInv'
  <1>1. login'.pc = "idle" /\ SessionTypes'
    BY IdleLogin DEF SessionInv, SessionTypes, Logins, Doing
  <1>2. current \in hydrated' => current = login.inst
    BY DEF SessionInv
  <1>3. QED
    BY <1>1, <1>2 DEF SessionInv, Doing

LEMMA SubmitPages ==
    ASSUME RuntimeTypes, SessionInv, NEW c \in Auth, SubmitPage(c)
    PROVE  SessionInv'
  <1>1. /\ login' = [NoLogin EXCEPT !.pc = "read", !.inst = current, !.cand = c]
        /\ UNCHANGED <<auth, stored, onTrust, current, hydrated>>
    BY DEF SubmitPage
  <1>2. /\ login' \in Logins
        /\ login'.pc = "read" /\ login'.inst = current /\ login'.cand = c
    BY <1>1 DEF NoLogin, SessionInv, SessionTypes, LoginPc, Logins
  <1>3. SessionTypes'
    BY <1>1, <1>2 DEF SessionInv, SessionTypes, Logins, Doing
  <1>4. QED
    BY <1>1, <1>2, <1>3 DEF SessionInv, Doing

LEMMA TriesCandidate ==
    ASSUME RuntimeTypes, SessionInv, TryCandidate
    PROVE  SessionInv'
  <1>1. /\ login.pc = "read" /\ login.inst \in Inst /\ login.cand \in Auth /\ stored \in Auth \cup {None}
        /\ login' = [login EXCEPT !.pc = "start", !.saved = stored]
        /\ SetAuth(login.inst, login.cand) /\ UNCHANGED <<stored, onTrust, current>>
    BY VerifierIsOp DEF TryCandidate, SessionInv, SessionTypes, Logins, Doing
  <1>2. /\ login' \in Logins
        /\ login'.pc = "start" /\ login'.inst = login.inst /\ login'.cand = login.cand /\ login'.saved = stored
    BY <1>1 DEF SessionInv, SessionTypes, LoginPc, Logins
  <1>3. auth'[login.inst] = login.cand /\ hydrated' = hydrated \cup {login.inst}
    BY <1>1, SetAuthIs
  <1>4. SessionTypes'
    BY <1>1, <1>2, <1>3 DEF SessionInv, SessionTypes, Logins, Doing
  <1>5. QED
    BY <1>1, <1>2, <1>3, <1>4 DEF SessionInv, Doing

LEMMA StartsVerify ==
    ASSUME RuntimeTypes, SessionInv, StartVerify
    PROVE  SessionInv'
  <1>1. /\ login.pc \in {"start", "check"} /\ Begin(Verifier, login.inst)
        /\ UNCHANGED <<stored, onTrust, current, hydrated, auth>>
        /\ login' = [login EXCEPT !.pc = IF @ = "start" THEN "verify" ELSE "checking"]
        /\ login.inst \in Inst
    BY DEF StartVerify, Begin, SessionInv, SessionTypes, Logins, Doing
  <1>2. PICK l \in {"verify", "checking"} : l = (IF login.pc = "start" THEN "verify" ELSE "checking")
    OBVIOUS
  <1>3. login' = [login EXCEPT !.pc = l] /\ l \in LoginPc
    BY <1>1, <1>2 DEF LoginPc, Logins
  <1>4. /\ login' \in Logins
        /\ login'.pc = l /\ login'.inst = login.inst /\ login'.cand = login.cand /\ login'.saved = login.saved
    BY <1>3, LoginFields DEF SessionInv
  <1>5. inst'[Verifier] = login.inst /\ seen' = None /\ heard' = "nothing" /\ pc'[Verifier] = "invoke"
    BY <1>1, PlacesHold, VerifierIsOp DEF Begin, Hears, Goto, RuntimeTypes
  <1>6. SessionTypes'
    BY <1>1, <1>2, <1>4 DEF SessionInv, SessionTypes, Logins, Doing
  <1>7. QED
    BY <1>1, <1>2, <1>4, <1>5, <1>6 DEF SessionInv, Doing

LEMMA TakesOnTrust ==
    ASSUME RuntimeTypes, SessionInv, TakenOnTrust
    PROVE  SessionInv'
  <1>1. /\ login.pc = "start" /\ UNCHANGED <<stored, onTrust, current, hydrated, auth>>
        /\ login' = [login EXCEPT !.pc = "write", !.trust = TRUE]
    BY DEF TakenOnTrust, Doing
  <1>2. /\ login' \in Logins /\ login'.trust
        /\ login'.pc = "write" /\ login'.inst = login.inst /\ login'.cand = login.cand /\ login'.saved = login.saved
    BY <1>1 DEF SessionInv, SessionTypes, LoginPc, Logins
  <1>3. SessionTypes'
    BY <1>1, <1>2 DEF SessionInv, SessionTypes, Logins, Doing
  <1>4. QED
    BY <1>1, <1>2, <1>3 DEF SessionInv, Doing

\* What the site was asked about is the candidate, and it is accepted only if
\* the site accepts it.
LEMMA Accepts ==
    ASSUME RuntimeTypes, SessionInv, Accepted
    PROVE  SessionInv'
  <1>1. /\ login.pc = "verify" /\ TRUE \in Verdicts /\ UNCHANGED <<stored, onTrust, current, hydrated, auth>>
        /\ login' = [login EXCEPT !.pc = "write", !.trust = Unasked]
    BY DEF Accepted, Settle, Doing
  <1>2. Unasked \in BOOLEAN
    BY DEF Unasked
  <1>3. /\ login' \in Logins /\ login'.trust = Unasked
        /\ login'.pc = "write" /\ login'.inst = login.inst /\ login'.cand = login.cand /\ login'.saved = login.saved
    BY <1>1, <1>2 DEF SessionInv, SessionTypes, LoginPc, Logins
  <1>4. login.cand \in Auth /\ (heard = "nothing" => seen = None) /\ (heard = "site" => seen = login.cand)
    BY <1>1 DEF SessionInv, SessionTypes, Doing
  <1>5. Unasked \/ login.cand \in Valid
    <2>1. SUFFICES ASSUME ~Unasked PROVE login.cand \in Valid
      OBVIOUS
    <2>2. seen = login.cand /\ heard # "nothing"
      BY <1>4, <2>1, NoneIsNoAuth DEF Unasked
    <2>3. QED
      BY <1>1, <2>2 DEF Verdicts
  <1>6. SessionTypes'
    BY <1>1, <1>3 DEF SessionInv, SessionTypes, Logins, Doing
  <1>7. QED
    BY <1>1, <1>3, <1>5, <1>6 DEF SessionInv, Doing

\* Verification or the write fails: the payload of before comes back.
LEMMA RollsBack ==
    ASSUME RuntimeTypes, SessionInv, login.pc \in {"verify", "write"}, Rollback, UNCHANGED <<stored, onTrust, current>>
    PROVE  SessionInv'
  <1>1. /\ login.inst \in Inst /\ login.saved = stored /\ stored \in Auth \cup {None} /\ ~Doing("idle")
        /\ onTrust \in BOOLEAN /\ (stored \in Valid \cup {None} \/ onTrust)
    BY DEF SessionInv, SessionTypes, Logins, Doing
  <1>2. auth'[login.inst] = stored /\ hydrated' = hydrated \cup {login.inst} /\ login' = NoLogin
    BY <1>1, SetAuthIs DEF Rollback
  <1>3. QED
    BY <1>1, <1>2, LoginDone

LEMMA Stores ==
    ASSUME RuntimeTypes, SessionInv, StoreAuth
    PROVE  SessionInv'
  <1>1. /\ login.pc = "write" /\ stored' = login.cand /\ onTrust' = login.trust /\ login' = NoLogin
        /\ UNCHANGED <<auth, current, hydrated>> /\ ~Doing("idle")
    BY DEF StoreAuth, Doing
  <1>2. /\ login.cand \in Valid \/ login.trust
        /\ auth[login.inst] = login.cand /\ login.cand \in Auth /\ login.trust \in BOOLEAN
    BY <1>1 DEF SessionInv, SessionTypes, Logins, Doing
  <1>3. QED
    BY <1>1, <1>2, LoginDone

LEMMA Statuses ==
    ASSUME RuntimeTypes, SessionInv, AuthStatus
    PROVE  SessionInv'
  <1>1. /\ SetAuth(current, stored) /\ UNCHANGED <<stored, onTrust, current>> /\ current \in Inst
        /\ login' = NoLogin \/ login' = [NoLogin EXCEPT !.pc = "check", !.inst = current]
    BY DEF AuthStatus, SessionInv, SessionTypes, Logins
  <1>2. auth'[current] = stored /\ hydrated' = hydrated \cup {current}
    BY <1>1, SetAuthIs
  <1>3. login' \in Logins /\ (login'.pc = "idle" \/ (login'.pc = "check" /\ login'.inst = current))
    <2>1. CASE login' = NoLogin
      BY <2>1, IdleLogin
    <2>2. CASE login' = [NoLogin EXCEPT !.pc = "check", !.inst = current]
      BY <1>1, <2>2 DEF NoLogin, LoginPc, Logins
    <2>3. QED
      BY <1>1, <2>1, <2>2
  <1>4. SessionTypes'
    BY <1>1, <1>2, <1>3 DEF SessionInv, SessionTypes, Logins, Doing
  <1>5. QED
    BY <1>1, <1>2, <1>3, <1>4 DEF SessionInv, Doing

LEMMA Clears ==
    ASSUME RuntimeTypes, SessionInv, ClearAuth
    PROVE  SessionInv'
  <1>1. /\ stored' = None /\ onTrust' = FALSE /\ login' = [NoLogin EXCEPT !.pc = "clear", !.inst = current] /\ current \in Inst
        /\ UNCHANGED <<auth, current, hydrated>>
    BY DEF ClearAuth, SessionInv, SessionTypes, Logins
  <1>2. /\ login' \in Logins
        /\ login'.pc = "clear" /\ login'.inst = current
    BY <1>1 DEF NoLogin, LoginPc, Logins
  <1>3. SessionTypes'
    BY <1>1, <1>2 DEF SessionInv, SessionTypes, Logins, Doing
  <1>4. QED
    BY <1>1, <1>2, <1>3 DEF SessionInv, Doing

LEMMA ClearsMemory ==
    ASSUME RuntimeTypes, SessionInv, ClearMemory
    PROVE  SessionInv'
  <1>1. /\ SetAuth(login.inst, None) /\ login' = NoLogin /\ UNCHANGED <<stored, onTrust, current>>
        /\ login.inst \in Inst /\ stored = None /\ onTrust \in BOOLEAN /\ ~Doing("idle")
    BY DEF ClearMemory, SessionInv, SessionTypes, Logins, Doing
  <1>2. auth'[login.inst] = None /\ hydrated' = hydrated \cup {login.inst}
    BY <1>1, SetAuthIs
  <1>3. QED
    BY <1>1, <1>2, LoginDone

LEMMA StatusEnds ==
    ASSUME SessionInv, StatusKnown
    PROVE  SessionInv'
  <1>1. /\ login.pc = "checking" /\ login' = NoLogin /\ UNCHANGED <<stored, onTrust, current, hydrated, auth>>
        /\ ~Doing("idle")
    BY DEF StatusKnown, Settle, Doing
  <1>2. /\ auth[login.inst] = stored /\ stored \in Auth \cup {None}
        /\ onTrust \in BOOLEAN /\ (stored \in Valid \cup {None} \/ onTrust)
    BY <1>1 DEF SessionInv, SessionTypes, Logins
  <1>3. QED
    BY <1>1, <1>2, LoginDone

LEMMA Upgrades ==
    ASSUME SessionInv, Upgrade
    PROVE  SessionInv'
  <1>1. current' \in Inst /\ current' \notin hydrated
        /\ UNCHANGED <<auth, stored, onTrust, login, hydrated, pc, inst, sent, seen, heard>>
    BY DEF Upgrade, Others, ops
  <1>2. QED
    BY <1>1 DEF SessionInv, SessionTypes, Logins, Doing

\* The operations of a feed do not touch its session; the one that verifies
\* reports on the candidate.
LEMMA SessionOps ==
    ASSUME SessionInv, UNCHANGED <<auth, loginVars>>,
           Doing("verify") => /\ inst'[Verifier] = inst[Verifier]
                              /\ heard' = "nothing" => seen' = None
                              /\ heard' = "site" => seen' = login.cand
                              /\ pc'[Verifier] \in {"lock", "send"} => sent'[Verifier] = login.cand
    PROVE  SessionInv'
  BY DEF SessionInv, SessionTypes, Logins, Doing, loginVars

LEMMA Operations ==
    ASSUME RuntimeTypes, SessionInv, NEW o \in Op, Operation(o)
    PROVE  SessionInv'
  <1>1. /\ pc \in [Op -> Places] /\ inst \in [Op -> Inst] /\ sent \in [Op -> Auth \cup {None}] /\ Verifier \in Op
        /\ Kind[Verifier] = "status"
    BY PlacesHold, VerifierIsOp DEF RuntimeTypes
  <1>2. UNCHANGED <<auth, loginVars>>
    BY DEF Operation, Proceed, Invoke, Request, Compute, Webview, Finish, Patch, Lock, Hit, Miss, Network, Respond,
           Retry, HttpFails, Ask, Unpark, Settle, Drop, Begin
  <1>3. CASE o # Verifier
    <2>1. Kind[o] # "status"
      BY <1>3, StatusByActor
    <2>2. seen' = seen /\ heard' = heard
      BY <2>1 DEF Operation, Proceed, Invoke, Request, Compute, Webview, Finish, Patch, Lock, Hit, Miss, Network, Respond,
           Hears, Retry, HttpFails, Ask, Unpark, Settle, Drop, Begin
    <2>3. pc'[Verifier] = pc[Verifier]
      BY <1>1, <1>3 DEF Operation, Proceed, Invoke, Request, Compute, Webview, Finish, Patch, Lock, Hit, Miss, Network, Respond,
           Retry, HttpFails, Ask, Unpark, Settle, Drop, Begin, Spend, Goto
    <2>4. inst'[Verifier] = inst[Verifier] /\ sent'[Verifier] = sent[Verifier]
      BY <1>1, <1>3 DEF Operation, Proceed, Invoke, Request, Compute, Webview, Finish, Patch, Lock, Hit, Miss, Network, Respond,
           Retry, HttpFails, Ask, Unpark, Settle, Drop, Begin, NoRequest
    <2>5. QED
      BY <1>2, <2>2, <2>3, <2>4, SessionOps DEF SessionInv
  <1>4. CASE o = Verifier /\ Doing("verify")
    <2>1. Proceed(o) /\ inst[o] = login.inst
          /\ (heard = "nothing" => seen = None) /\ (heard = "site" => seen = login.cand)
          /\ (pc[o] \in {"lock", "send"} => sent[o] = login.cand) /\ auth[login.inst] = login.cand
      BY <1>4 DEF Operation, SessionInv, Doing
    <2>2. UNCHANGED inst
      BY <2>1 DEF Proceed, Invoke, Request, Compute, Webview, Finish, Patch, Lock, Hit, Miss, Network, Respond, Retry, HttpFails, Ask, Unpark
    <2>3. (heard' = "nothing" => seen' = None) /\ (heard' = "site" => seen' = login.cand)
      <3>1. CASE Respond(o) \/ Hit(o)
        BY <1>1, <1>4, <2>1, <3>1 DEF Respond, Hit, Hears, At
      <3>2. CASE ~Respond(o) /\ ~Hit(o)
        <4>1. UNCHANGED <<seen, heard>>
          BY <2>1, <3>2 DEF Proceed, Invoke, Request, Compute, Webview, Finish, Patch, Lock, Miss, Network, Retry, HttpFails, Ask, Unpark
        <4>2. QED
          BY <2>1, <4>1
      <3>3. QED
        BY <3>1, <3>2
    <2>4. pc'[o] \in {"lock", "send"} => sent'[o] = login.cand
      <3>1. CASE Patch(o)
        BY <1>1, <2>1, <3>1 DEF Patch
      <3>2. CASE Miss(o) \/ Retry(o)
        BY <1>1, <2>1, <3>2 DEF Miss, Retry, At
      <3>3. CASE Invoke(o)
        <4>1. pc'[o] \notin {"lock", "send"}
          BY <1>1, <3>3 DEF Invoke, Request, Compute, Webview, Finish, Spend, Goto
        <4>2. QED
          BY <4>1
      <3>4. CASE Hit(o) \/ Respond(o) \/ HttpFails(o) \/ Ask(o) \/ Unpark(o)
        <4>1. pc'[o] \notin {"lock", "send"}
          BY <1>1, <3>4 DEF Hit, Respond, HttpFails, Ask, Unpark, Goto
        <4>2. QED
          BY <4>1
      <3>5. QED
        BY <2>1, <3>1, <3>2, <3>3, <3>4 DEF Proceed, Lock, Network
    <2>5. QED
      BY <1>2, <1>4, <2>2, <2>3, <2>4, SessionOps
  <1>5. CASE ~Doing("verify")
    BY <1>2, <1>5, SessionOps
  <1>6. QED
    BY <1>3, <1>4, <1>5

-----------------------------------------------------------------------------
(* The whole.                                                                *)
LEMMA LoginInit == Init => LoginInv
  <1> SUFFICES ASSUME Init PROVE LoginInv
    OBVIOUS
  <1>1. PromptInv
    BY NoneIsNoOne DEF Init, PromptsInit, PromptInv, PromptTypes, PromptsAccounted, Ids, Waiting, OnScreen, Answers
  <1>2. (CHOOSE i \in Inst : TRUE) \in Inst
    BY RuntimeLoaded
  <1>3. RuntimeTypes
    BY <1>2, RuntimeBounds DEF Init, RuntimeInit, RuntimeTypes, RuntimeTypeOK
  <1>4. CacheInv
    <2>1. \A i \in Inst : DOMAIN responses[i] = {} /\ holder[i] = None
      BY DEF Init, RuntimeInit
    <2>2. IsFiniteSet({}) /\ Cardinality({}) = 0 /\ MaxCached \in Nat
      BY FS_EmptySet, RuntimeBounds
    <2>3. \A o \in Op : pc[o] = "idle" /\ inst[o] \in Inst
      BY <1>2 DEF Init, RuntimeInit
    <2>4. \A i \in Inst : IsFiniteSet(DOMAIN responses[i]) /\ Cardinality(DOMAIN responses[i]) <= MaxCached
      <3>1. ASSUME NEW i \in Inst
            PROVE  IsFiniteSet(DOMAIN responses[i]) /\ Cardinality(DOMAIN responses[i]) = 0
        BY <2>1, FS_EmptySet, Zenon
      <3>2. QED
        BY <2>2, <3>1
    <2>5. \A i \in Inst : holder[i] = None
      BY <2>1
    <2>6. QED
      BY <2>3, <2>4, <2>5, NoneIsNoOne DEF CacheInv, At
  <1>5. SessionInv
    <2>1. /\ stored \in Valid \cup {None} /\ onTrust = FALSE /\ hydrated = {} /\ current \in Inst
          /\ login \in Logins /\ login.pc = "idle"
      BY <1>2, IdleLogin DEF Init
    <2>2. stored \in Auth \cup {None} /\ onTrust \in BOOLEAN
      BY <2>1, VerifierIsOp
    <2>3. SessionTypes
      BY <2>1, <2>2 DEF SessionTypes, Doing
    <2>4. QED
      BY <2>1, <2>3 DEF SessionInv, Doing
  <1>6. QED
    BY <1>1, <1>3, <1>4, <1>5 DEF LoginInv

\* The actor writes the auth of an instance and touches nothing else of the
\* runtime.
LEMMA AuthWritten ==
    ASSUME PromptInv, RuntimeTypes, CacheInv, NEW i \in Inst, NEW a \in Auth \cup {None}, SetAuth(i, a), UNCHANGED Others
    PROVE  PromptInv' /\ RuntimeTypes' /\ CacheInv'
  <1>1. auth' \in [Inst -> Auth \cup {None}] /\ UNCHANGED <<prompts, pc, inst, left, tries, want, sent, seen, heard, responses, holder>>
    BY SetAuthIs DEF Others, ops, caches
  <1>2. PromptInv'
    BY <1>1, PromptSame DEF At
  <1>3. RuntimeTypes'
    BY <1>1 DEF RuntimeTypes, RuntimeTypeOK
  <1>4. CacheInv'
    BY <1>1, CacheSame DEF caches
  <1>5. QED
    BY <1>2, <1>3, <1>4

LEMMA RuntimeSame ==
    ASSUME PromptInv, RuntimeTypes, CacheInv, UNCHANGED <<prompts, runtime>>
    PROVE  PromptInv' /\ RuntimeTypes' /\ CacheInv'
  <1>1. UNCHANGED <<prompts, pc, inst, left, tries, want, sent, seen, heard, auth, responses, holder>>
    BY DEF runtime, ops, caches
  <1>2. QED
    BY <1>1, PromptSame, CacheSame DEF At, caches, RuntimeTypes, RuntimeTypeOK

LEMMA BeginsSettles ==
    ASSUME PromptInv, RuntimeTypes, CacheInv, NEW o \in Op, NEW i \in Inst, Begin(o, i) \/ Settle(o) \/ Drop(o)
    PROVE  PromptInv' /\ RuntimeTypes' /\ CacheInv'
  <1>1. pc \in [Op -> Places] /\ RuntimeTypeOK
    BY PlacesHold DEF RuntimeTypes
  <1>2. CASE Begin(o, i) \/ Settle(o)
    <2>1. UNCHANGED prompts
      BY <1>2 DEF Begin, Settle
    <2>2. \A p \in Op : At(p, "parked") => At(p, "parked")'
      BY <1>1, <1>2 DEF Begin, Settle, Goto, At
    <2>3. QED
      BY <1>2, <2>1, <2>2, PromptSame, DrivenRuntime
  <1>3. CASE Drop(o)
    BY <1>1, <1>3, Drops, DrivenRuntime
  <1>4. QED
    BY <1>2, <1>3

LEMMA RejectedRuntime ==
    ASSUME PromptInv, RuntimeTypes, CacheInv, SessionInv, Rejected
    PROVE  PromptInv' /\ RuntimeTypes' /\ CacheInv'
  <1>1. /\ pc[Verifier] \in {"done", "failed"} /\ pc' = [pc EXCEPT ![Verifier] = "idle"]
        /\ left' = [left EXCEPT ![Verifier] = 0]
        /\ UNCHANGED <<prompts, inst, tries, want, sent, responses, holder>>
        /\ seen' \in {seen, None} /\ heard' \in {heard, "nothing"}
        /\ Verifier \in Op /\ pc \in [Op -> Places] /\ "idle" \in Places
    BY VerifierIsOp, PlacesHold DEF Rejected, Hears, At, caches, Places
  <1>2. auth' \in [Inst -> Auth \cup {None}]
    <2>1. login.inst \in Inst /\ login.saved \in Auth \cup {None}
      BY DEF Rejected, SessionInv, SessionTypes, Logins, Doing
    <2>2. QED
      BY <2>1, SetAuthIs DEF Rejected, Rollback
  <1>3. pc' \in [Op -> Places] /\ left' \in [Op -> 0..MaxSteps]
    BY <1>1, RuntimeBounds DEF RuntimeTypes, RuntimeTypeOK
  <1>4. RuntimeTypes'
    BY <1>1, <1>2, <1>3 DEF RuntimeTypes, RuntimeTypeOK, Places
  <1>5. PromptInv'
    BY <1>1, PromptSame DEF At
  <1>6. CacheInv'
    <2>1. Alone(Verifier) /\ pc'[Verifier] = "idle"
      BY <1>1 DEF Alone
    <2>2. Freed(Verifier) = holder
      BY <1>1, NotHolding DEF At
    <2>3. QED
      BY <1>1, <2>1, <2>2, FreeOp DEF RuntimeTypes
  <1>7. QED
    BY <1>4, <1>5, <1>6

LEMMA LoginStepHolds ==
    ASSUME LoginInv, LoginStep \/ LoginRequest
    PROVE  LoginInv'
  <1>0. /\ PromptInv /\ RuntimeTypes /\ CacheInv /\ SessionInv /\ Verifier \in Op /\ current \in Inst
        /\ stored \in Auth \cup {None} /\ (~Doing("idle") => login.inst \in Inst)
        /\ login.cand \in Auth \cup {None} /\ login.saved \in Auth \cup {None}
    BY VerifierIsOp DEF LoginInv, SessionInv, SessionTypes, Logins
  <1>1. SessionInv'
    BY <1>0, SubmitPages, TriesCandidate, StartsVerify, TakesOnTrust, Accepts, RollsBack, Stores, Statuses, Clears, ClearsMemory,
       StatusEnds, Upgrades DEF LoginStep, LoginRequest, Rejected, StoreFails, Doing
  <1>2. CASE TryCandidate \/ StoreFails \/ AuthStatus \/ ClearMemory
    <2>1. UNCHANGED Others /\ \E i \in Inst, a \in Auth \cup {None} : SetAuth(i, a)
      BY <1>0, <1>2 DEF TryCandidate, StoreFails, Rollback, AuthStatus, ClearMemory, Doing
    <2>2. QED
      BY <1>0, <1>1, <2>1, AuthWritten DEF LoginInv
  <1>3. CASE StartVerify \/ Accepted \/ StatusKnown
    <2>1. (Begin(Verifier, login.inst) /\ login.inst \in Inst) \/ Settle(Verifier)
      BY <1>0, <1>3 DEF StartVerify, Accepted, StatusKnown, Doing
    <2>2. QED
      BY <1>0, <1>1, <2>1, BeginsSettles DEF LoginInv
  <1>4. CASE Rejected
    BY <1>0, <1>1, <1>4, RejectedRuntime DEF LoginInv
  <1>5. CASE TakenOnTrust \/ StoreAuth \/ ClearAuth \/ Upgrade \/ \E c \in Auth : SubmitPage(c)
    <2>1. UNCHANGED <<prompts, runtime>>
      BY <1>5 DEF TakenOnTrust, StoreAuth, ClearAuth, Upgrade, SubmitPage, Others, runtime
    <2>2. QED
      BY <1>0, <1>1, <2>1, RuntimeSame DEF LoginInv
  <1>6. QED
    BY <1>2, <1>3, <1>4, <1>5 DEF LoginStep, LoginRequest

LEMMA OperationHolds ==
    ASSUME LoginInv, NEW o \in Op, Operation(o)
    PROVE  LoginInv'
  <1>0. PromptInv /\ RuntimeTypes /\ CacheInv /\ SessionInv /\ RuntimeTypeOK /\ current \in Inst
    BY DEF LoginInv, RuntimeTypes, SessionInv, SessionTypes, Logins
  <1>1. SessionInv'
    BY <1>0, Operations
  <1>2. CASE Proceed(o)
    BY <1>0, <1>1, <1>2, ProceedPrompts, ProceedTypes, ProceedCache DEF LoginInv
  <1>3. CASE Settle(o) \/ Drop(o) \/ Begin(o, current)
    BY <1>0, <1>1, <1>3, BeginsSettles DEF LoginInv
  <1>4. QED
    BY <1>2, <1>3 DEF Operation

LEMMA LoginNext == LoginInv /\ [Next]_vars => LoginInv'
  <1> SUFFICES ASSUME LoginInv, [Next]_vars PROVE LoginInv'
    OBVIOUS
  <1>0. PromptInv /\ RuntimeTypes /\ CacheInv /\ SessionInv
    BY DEF LoginInv
  <1>1. CASE App
    <2>1. UNCHANGED <<pc, inst, left, tries, want, sent, seen, heard, auth, responses, holder, loginVars>>
      BY <1>1 DEF App, runtime, ops, caches
    <2>2. PromptInv' /\ CacheInv' /\ RuntimeTypes'
      BY <1>0, <1>1, <2>1, AppPrompts, CacheSame DEF caches, RuntimeTypes, RuntimeTypeOK
    <2>3. SessionInv'
      BY <1>0, <2>1 DEF SessionInv, SessionTypes, Logins, Doing, loginVars
    <2>4. QED
      BY <2>2, <2>3 DEF LoginInv
  <1>2. CASE LoginStep \/ LoginRequest
    BY <1>2, LoginStepHolds
  <1>3. CASE \E o \in Op : Operation(o)
    BY <1>3, OperationHolds
  <1>4. CASE UNCHANGED vars
    <2>1. UNCHANGED <<prompts, runtime, loginVars>>
      BY <1>4 DEF vars
    <2>2. SessionInv'
      BY <1>0, <2>1 DEF SessionInv, SessionTypes, Logins, Doing, loginVars, runtime, ops
    <2>3. QED
      BY <1>0, <2>1, <2>2, RuntimeSame DEF LoginInv
  <1>5. QED
    BY <1>1, <1>2, <1>3, <1>4 DEF Next

LEMMA LoginHolds == Spec => []LoginInv
  BY LoginInit, LoginNext, PTL DEF Spec

\* The state of a feed's operations, their prompts and its session has its
\* types whatever interleaves: no step takes a counter below zero or beyond
\* its bound, and no key gets into the response cache that is not one.
THEOREM LoginTypes == Spec => []TypeOK
  <1>1. LoginInv => TypeOK
    BY VerifierIsOp DEF LoginInv, RuntimeTypes, SessionInv, SessionTypes, Logins, TypeOK
  <1>2. QED
    BY <1>1, LoginHolds, PTL

\* Every prompt can still be answered, and is answered once: an operation
\* parked on a page has it queued, on screen or being cancelled, unless the
\* page or the engine is gone, and the answer it gets is of that page, for any
\* number of operations, of prompts and of pages left twice.
THEOREM PromptsAlwaysAnswered == Spec => []PromptsAnswered
  <1>1. PromptInv => OneAnswer
    <2> SUFFICES ASSUME PromptInv, NEW o \in Op, answer[o] # None, NEW i \in Ids, pending[i] = o PROVE FALSE
      BY DEF OneAnswer
    <2>1. Waiting(i)
      BY NoneIsNoOne DEF Waiting
    <2>2. QED
      BY <2>1 DEF PromptInv
  <1>2. LoginInv => PromptsAnswered
    BY <1>1 DEF LoginInv, PromptInv, PromptsAnswered
  <1>3. QED
    BY <1>2, LoginHolds, PTL

\* A key is fetched once: the lock of an instance's response cache is held by
\* the operation that fetches a key which is not there, and by nobody else
\* whatever fails, is dropped or is answered from the cache; and the cache
\* stays within its bound.
THEOREM KeysFetchedOnce == Spec => []CachedOnce
  <1>1. LoginInv => CachedOnce
    BY DEF LoginInv, CacheInv, CachedOnce, OneFetchPerKey
  <1>2. QED
    BY <1>1, LoginHolds, PTL

\* A failed login never replaces a valid session, in memory or on disk: every
\* way out of a handler leaves the instance with what is stored; and whenever
\* login.status had an answer of the site, that answer was about the
\* candidate, so that what is stored was accepted, or nobody asked the site.
THEOREM SessionSurvives == Spec => []SessionKept
  <1>1. LoginInv => SessionKept
    BY DEF LoginInv, SessionInv, SessionTypes, Logins, SessionKept
  <1>2. QED
    BY <1>1, LoginHolds, PTL
=============================================================================
