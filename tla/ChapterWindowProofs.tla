--------------------------- MODULE ChapterWindowProofs ---------------------------
(* The reader's window, for any chapter list, any bounds and any number of   *)
(* fetches: what it shows, what trimming takes away, and what is stale.      *)
EXTENDS ChapterWindow, TLAPS, WellFoundedInduction

States == {"absent", "loading", "error", "loaded"}

\* The types, without the order of the cache: SelectSeq is opaque to the
\* provers, and nothing below depends on it.
WindowTypes ==
    /\ chapters \in Lists /\ {lo, hi, anchor} \subseteq DOMAIN chapters
    /\ record \in [ChapterId -> [state : States, shows : Version]]
    /\ DOMAIN cache \subseteq ChapterId /\ \A c \in DOMAIN cache : cache[c] \in Version
    /\ inFlight \subseteq ChapterId
    /\ running \in [ChapterId -> [Version -> 0 .. MaxSame]]
    /\ active \in ChapterId /\ version \in [ChapterId -> Version] /\ missed \subseteq ChapterId

\* What is cached, what is shown and what a running fetch will answer: all of
\* the current version, unless the chapter's last change was missed.
Fresh ==
    /\ \A c \in DOMAIN cache \ missed : cache[c] = version[c]
    /\ \A c \in ChapterId \ missed : record[c].state = "loaded" => record[c].shows = version[c]
    /\ \A c \in ChapterId \ missed, v \in Version : running[c][v] > 0 => v = version[c]

WindowInv == WindowTypes /\ WindowCovered /\ Fresh

-----------------------------------------------------------------------------
(* Lists, loads and resets.                                                  *)
LEMMA ListFacts ==
    ASSUME NEW list \in Lists
    PROVE  /\ Len(list) \in Nat \ {0} /\ DOMAIN list = 1 .. Len(list)
           /\ \A i \in DOMAIN list : list[i] \in ChapterId
           /\ \A i, j \in DOMAIN list : list[i] = list[j] => i = j
  <1>1. list \in Seq(ChapterId) /\ list # <<>>
    BY WindowAssumption
  <1>2. QED
    BY <1>1, WindowAssumption

LEMMA Bounds == /\ MaxVersion \in Nat /\ MaxSame \in Nat \ {0} /\ MaxWindow \in Nat \ {0}
                /\ KeepAdjacent \in Nat /\ ReanchorDistance \in Nat /\ 0 \in Version
  BY WindowAssumption DEF Version

\* The position of a chapter of the list.
LEMMA IndexIs ==
    ASSUME NEW list \in Lists, NEW j \in DOMAIN list
    PROVE  Index(list, list[j]) = j
  BY ListFacts DEF Index

LEMMA IndexIn ==
    ASSUME NEW list \in Lists, NEW c \in ListIds(list, 1, Len(list))
    PROVE  Index(list, c) \in DOMAIN list /\ list[Index(list, c)] = c
  BY ListFacts DEF Index, ListIds

\* Only what was running is running, and fetches of the versions ver.
Runs(ver) == \A c \in ChapterId, v \in Version : running'[c][v] > 0 => running[c][v] > 0 \/ v = ver[c]

\* A load adds fetches of the versions it asks for, and no other.
LEMMA LoadsOf ==
    ASSUME WindowTypes, NEW S \in SUBSET ChapterId, NEW joined \in SUBSET ChapterId, NEW cch,
           NEW ver \in [ChapterId -> Version], LoadAll(S, cch, joined, ver)
    PROVE  /\ inFlight' \subseteq ChapterId
           /\ running' \in [ChapterId -> [Version -> 0 .. MaxSame]]
           /\ Runs(ver)
  <1> DEFINE fetched == {c \in S : c \notin joined /\ ~InCache(cch, c)}
  <1>1. /\ \A c \in fetched : running[c][ver[c]] < MaxSame
        /\ running' = [c \in ChapterId |->
                         IF c \in fetched THEN [running[c] EXCEPT ![ver[c]] = @ + 1] ELSE running[c]]
        /\ inFlight' = joined \cup fetched
    BY DEF LoadAll
  <1>2. fetched \subseteq ChapterId
    OBVIOUS
  <1> HIDE DEF fetched
  <1>3. ASSUME NEW c \in ChapterId
        PROVE  /\ running'[c] \in [Version -> 0 .. MaxSame]
               /\ \A v \in Version : running'[c][v] > 0 => running[c][v] > 0 \/ v = ver[c]
    <2>1. running[c] \in [Version -> 0 .. MaxSame] /\ ver[c] \in Version
      BY DEF WindowTypes
    <2>2. CASE c \in fetched
      <3>1. running[c][ver[c]] + 1 \in 0 .. MaxSame
        BY <1>1, <2>1, <2>2, Bounds
      <3>2. running'[c] = [running[c] EXCEPT ![ver[c]] = running[c][ver[c]] + 1]
        BY <1>1, <2>2
      <3>3. QED
        BY <2>1, <3>1, <3>2
    <2>3. CASE c \notin fetched
      BY <1>1, <2>1, <2>3
    <2>4. QED
      BY <2>2, <2>3
  <1>4. QED
    BY <1>1, <1>2, <1>3 DEF Runs

LEMMA CacheShown ==
    ASSUME NEW cch, NEW c, InCache(cch, c) => cch[c] \in Version
    PROVE  /\ FromCache(cch, c) \in [state : States, shows : Version]
           /\ FromCache(cch, c).state # "absent"
           /\ FromCache(cch, c).state = "loaded" => InCache(cch, c) /\ FromCache(cch, c).shows = cch[c]
  BY Bounds DEF FromCache, Loading, Rec, States

\* A reset covers the anchor and its neighbours, and shows what the cache has.
LEMMA Resets ==
    ASSUME WindowTypes, NEW list \in Lists, NEW a \in DOMAIN list, NEW cch, DOMAIN cch \subseteq ChapterId,
           \A c \in DOMAIN cch : cch[c] \in Version, NEW joined \in SUBSET ChapterId,
           NEW ver \in [ChapterId -> Version], ResetAround(list, a, cch, joined, ver),
           active' \in ChapterId, version' \in [ChapterId -> Version], missed' \subseteq ChapterId
    PROVE  /\ WindowTypes' /\ WindowCovered' /\ cache' = cch
           /\ \A c \in ChapterId : record'[c].state = "loaded" => c \in DOMAIN cch /\ record'[c].shows = cch[c]
           /\ Runs(ver)
  <1>1. PICK l, h : /\ l = (IF a > 1 THEN a - 1 ELSE a) /\ h = (IF a < Len(list) THEN a + 1 ELSE a)
    OBVIOUS
  <1>2. l \in DOMAIN list /\ h \in DOMAIN list /\ l <= a /\ a <= h /\ Len(list) \in Nat
    BY <1>1, ListFacts
  <1> DEFINE members == ListIds(list, l, h)
  <1>3. /\ lo' = l /\ hi' = h /\ anchor' = a /\ chapters' = list /\ cache' = cch
        /\ record' = [c \in ChapterId |-> IF c \in members THEN FromCache(cch, c) ELSE Absent]
        /\ LoadAll(members, cch, joined, ver)
    BY <1>1 DEF ResetAround, CacheIs
  <1>4. \A i \in l .. h : i \in DOMAIN list
    BY <1>2, ListFacts
  <1>5. members \in SUBSET ChapterId
    BY <1>4, ListFacts DEF ListIds
  <1>6. Window' = members
    BY <1>3 DEF Window, ListIds
  <1> HIDE DEF members
  <1>7. /\ inFlight' \subseteq ChapterId /\ running' \in [ChapterId -> [Version -> 0 .. MaxSame]]
        /\ Runs(ver)
    <2>1. LoadAll(members, cch, joined, ver)
      BY <1>3
    <2>2. QED
      BY <1>5, <2>1, LoadsOf
  <1>8. ASSUME NEW c \in ChapterId
        PROVE  /\ record'[c] \in [state : States, shows : Version]
               /\ record'[c].state # "absent" <=> c \in members
               /\ record'[c].state = "loaded" => c \in DOMAIN cch /\ record'[c].shows = cch[c]
    <2>1. CASE c \in members
      BY <1>3, <2>1, CacheShown DEF InCache
    <2>2. CASE c \notin members
      BY <1>3, <2>2, Bounds DEF Absent, Rec, States
    <2>3. QED
      BY <2>1, <2>2
  <1>9. record' \in [ChapterId -> [state : States, shows : Version]]
    BY <1>3, <1>8
  <1>10. WindowCovered'
    BY <1>2, <1>3, <1>5, <1>6, <1>8 DEF WindowCovered
  <1>11. WindowTypes'
    BY <1>2, <1>3, <1>7, <1>9 DEF WindowTypes
  <1>12. QED
    BY <1>3, <1>7, <1>8, <1>10, <1>11

\* A reset that shows nothing, or only what is fresh, keeps what it shows fresh.
LEMMA ResetFresh ==
    ASSUME WindowInv, NEW list \in Lists, NEW a \in DOMAIN list, NEW cch, DOMAIN cch \subseteq ChapterId,
           \A c \in DOMAIN cch : cch[c] \in Version, NEW joined \in SUBSET ChapterId,
           NEW ver \in [ChapterId -> Version], ResetAround(list, a, cch, joined, ver),
           active' \in ChapterId, version' = ver, missed' \subseteq ChapterId,
           \A c \in DOMAIN cch \ missed' : cch[c] = ver[c],
           \A c \in ChapterId \ missed', v \in Version : running[c][v] > 0 => v = ver[c]
    PROVE  WindowInv'
  <1>1. /\ WindowTypes' /\ WindowCovered' /\ cache' = cch
        /\ \A c \in ChapterId : record'[c].state = "loaded" => c \in DOMAIN cch /\ record'[c].shows = cch[c]
        /\ Runs(ver)
    BY Resets DEF WindowInv
  <1>2. Fresh'
    BY <1>1 DEF Fresh, Runs
  <1>3. QED
    BY <1>1, <1>2 DEF WindowInv

LEMMA SetsChapters ==
    ASSUME WindowInv, NEW list \in Lists, SetChapters(list)
    PROVE  WindowInv'
  <1>1. PICK a : a = (IF active \in ListIds(list, 1, Len(list)) THEN Index(list, active) ELSE 1)
    OBVIOUS
  <1>2. /\ ResetAround(list, a, <<>>, {}, version) /\ active' = list[a] /\ UNCHANGED <<version, missed>>
    BY <1>1 DEF SetChapters
  <1>3. a \in DOMAIN list /\ list[a] \in ChapterId
    BY <1>1, ListFacts, IndexIn
  <1>4. /\ version \in [ChapterId -> Version] /\ missed \subseteq ChapterId
        /\ \A c \in ChapterId \ missed, v \in Version : running[c][v] > 0 => v = version[c]
    BY DEF WindowInv, WindowTypes, Fresh
  <1>5. QED
    <2>1. PICK ver : ver = version
      OBVIOUS
    <2>2. PICK cch : cch = <<>> /\ DOMAIN cch = {}
      OBVIOUS
    <2>3. ResetAround(list, a, cch, {}, ver)
      BY <1>2, <2>1, <2>2
    <2>4. QED
      BY <1>2, <1>3, <1>4, <2>1, <2>2, <2>3, ResetFresh

LEMMA Reloads ==
    ASSUME WindowInv, ReloadWindow
    PROVE  WindowInv'
  <1>1. /\ chapters \in Lists /\ anchor \in DOMAIN chapters /\ inFlight \in SUBSET ChapterId
        /\ version \in [ChapterId -> Version] /\ missed \subseteq ChapterId /\ active \in ChapterId
        /\ running \in [ChapterId -> [Version -> 0 .. MaxSame]]
    BY DEF WindowInv, WindowTypes
  <1>2. /\ \A c \in ChapterId : version[c] < MaxVersion
        /\ version' = [c \in ChapterId |-> version[c] + 1]
        /\ ResetAround(chapters, anchor, <<>>, inFlight, version')
        /\ missed' = missed \cup {c \in ChapterId : Running(c)} /\ active' = active
    BY DEF ReloadWindow
  <1>3. PICK ver : ver = version'
    OBVIOUS
  <1>4. ver \in [ChapterId -> Version]
    <2>1. ASSUME NEW c \in ChapterId
          PROVE  version[c] + 1 \in Version
      <3>1. version[c] \in 0 .. MaxVersion
        BY <1>1 DEF Version
      <3>2. version[c] < MaxVersion
        BY <1>2
      <3>3. QED
        BY <3>1, <3>2, Bounds DEF Version
    <2>2. QED
      BY <1>2, <1>3, <2>1
  <1>5. PICK cch : cch = <<>> /\ DOMAIN cch = {}
    OBVIOUS
  <1>6. \A c \in ChapterId \ missed', v \in Version : ~(running[c][v] > 0)
    BY <1>2 DEF Running
  <1>7. PICK list, a, joined : list = chapters /\ a = anchor /\ joined = inFlight
    OBVIOUS
  <1>8. ResetAround(list, a, cch, joined, ver)
    BY <1>2, <1>3, <1>5, <1>7
  <1>9. missed' \subseteq ChapterId
    BY <1>1, <1>2
  <1>10. QED
    BY <1>1, <1>2, <1>3, <1>4, <1>5, <1>6, <1>7, <1>8, <1>9, ResetFresh

LEMMA Jumps ==
    ASSUME WindowInv, NEW c \in ChapterId, JumpTo(c)
    PROVE  WindowInv'
  <1>1. /\ chapters \in Lists /\ inFlight \in SUBSET ChapterId
        /\ version \in [ChapterId -> Version] /\ missed \subseteq ChapterId
        /\ DOMAIN cache \subseteq ChapterId /\ \A d \in DOMAIN cache : cache[d] \in Version
        /\ \A d \in DOMAIN cache \ missed : cache[d] = version[d]
        /\ \A d \in ChapterId \ missed, v \in Version : running[d][v] > 0 => v = version[d]
    BY DEF WindowInv, WindowTypes, Fresh
  <1>2. PICK list, a, cch, joined, ver : /\ list = chapters /\ a = Index(chapters, c) /\ cch = cache
                                         /\ joined = inFlight /\ ver = version
    OBVIOUS
  <1>3. /\ c \in ListIds(list, 1, Len(list)) /\ active' = c /\ version' = ver /\ missed' = missed
        /\ ResetAround(list, a, cch, joined, ver)
    BY <1>2 DEF JumpTo
  <1>4. a \in DOMAIN list
    BY <1>1, <1>2, <1>3, IndexIn
  <1>5. QED
    BY <1>1, <1>2, <1>3, <1>4, ResetFresh

\* At most chapter c has a new version, which is loading and not cached.
Renewed(c, shown, ver) ==
    \A d \in ChapterId : \/ ver[d] = version[d]
                         \/ /\ d = c /\ (Running(c) => c \in missed')
                            /\ cache' = Without(cache, {c}) /\ shown.state = "loading"

\* One chapter comes into the window, or is loaded again.
LEMMA OneLoads ==
    ASSUME WindowInv, NEW c \in ChapterId, NEW cch, NEW joined \in SUBSET ChapterId, NEW ver \in [ChapterId -> Version],
           NEW shown \in [state : States, shows : Version], record' = [record EXCEPT ![c] = shown],
           shown.state # "absent", shown.state = "loaded" => InCache(cache, c) /\ shown.shows = cache[c],
           LoadAll({c}, cch, joined, ver), cache' \in {cache, Without(cache, {c})}, UNCHANGED <<chapters, anchor, active>>,
           version' = ver, missed' \subseteq ChapterId, missed \subseteq missed', {lo, hi}' \subseteq DOMAIN chapters,
           Window' = Window \cup {c}, lo' <= anchor, anchor <= hi',
           Renewed(c, shown, ver)
    PROVE  WindowInv'
  <1>1. /\ inFlight' \subseteq ChapterId /\ running' \in [ChapterId -> [Version -> 0 .. MaxSame]] /\ Runs(ver)
    BY LoadsOf DEF WindowInv
  <1>2. /\ record \in [ChapterId -> [state : States, shows : Version]]
        /\ DOMAIN cache \subseteq ChapterId /\ \A d \in DOMAIN cache : cache[d] \in Version
    BY DEF WindowInv, WindowTypes
  <1>3. DOMAIN cache' \subseteq DOMAIN cache /\ \A d \in DOMAIN cache' : cache'[d] = cache[d]
    BY DEF Without
  <1>4. WindowTypes'
    BY <1>1, <1>2, <1>3 DEF WindowInv, WindowTypes
  <1>5. WindowCovered'
    BY <1>2 DEF WindowInv, WindowCovered
  <1>6. \A d \in DOMAIN cache' \ missed' : cache'[d] = version'[d]
    BY <1>2, <1>3 DEF WindowInv, Fresh, Without, Renewed
  <1>7. ASSUME NEW d \in ChapterId \ missed', record'[d].state = "loaded"
        PROVE  record'[d].shows = version'[d]
    <2>1. CASE d = c
      BY <1>2, <1>7, <2>1 DEF WindowInv, Fresh, InCache, Renewed
    <2>2. CASE d # c
      BY <1>2, <1>7, <2>2 DEF WindowInv, Fresh, Renewed
    <2>3. QED
      BY <2>1, <2>2
  <1>8. ASSUME NEW d \in ChapterId \ missed', NEW v \in Version, running'[d][v] > 0
        PROVE  v = version'[d]
    BY <1>1, <1>8 DEF Runs, Running, WindowInv, Fresh, Renewed
  <1>9. QED
    BY <1>4, <1>5, <1>6, <1>7, <1>8 DEF WindowInv, Fresh

LEMMA Expands ==
    ASSUME WindowInv, ExpandAbove \/ ExpandBelow
    PROVE  WindowInv'
  <1>1. /\ chapters \in Lists /\ {lo, hi, anchor} \subseteq DOMAIN chapters /\ lo <= anchor /\ anchor <= hi
        /\ inFlight \in SUBSET ChapterId /\ version \in [ChapterId -> Version] /\ missed \subseteq ChapterId
        /\ \A d \in DOMAIN cache : cache[d] \in Version
    BY DEF WindowInv, WindowTypes, WindowCovered
  <1>2. /\ Len(chapters) \in Nat \ {0} /\ DOMAIN chapters = 1 .. Len(chapters)
        /\ \A i \in DOMAIN chapters : chapters[i] \in ChapterId
    BY <1>1, ListFacts
  <1>3. PICK j \in DOMAIN chapters :
           /\ Expand(chapters[j]) /\ {lo, hi}' \subseteq DOMAIN chapters /\ lo' <= anchor /\ anchor <= hi'
           /\ \A i \in Nat : i \in lo' .. hi' <=> i \in lo .. hi \/ i = j
    <2>1. CASE ExpandAbove
      <3>1. lo - 1 \in DOMAIN chapters /\ Expand(chapters[lo - 1]) /\ lo' = lo - 1 /\ hi' = hi
        BY <1>1, <1>2, <2>1 DEF ExpandAbove
      <3>2. QED
        BY <1>1, <1>2, <3>1
    <2>2. CASE ExpandBelow
      <3>1. hi + 1 \in DOMAIN chapters /\ Expand(chapters[hi + 1]) /\ hi' = hi + 1 /\ lo' = lo
        BY <1>1, <1>2, <2>2 DEF ExpandBelow
      <3>2. QED
        BY <1>1, <1>2, <3>1
    <2>3. QED
      BY <2>1, <2>2
  <1>4. PICK c, cch, joined, ver : c = chapters[j] /\ cch = cache /\ joined = inFlight /\ ver = version
    OBVIOUS
  <1>5. /\ record' = [record EXCEPT ![c] = FromCache(cache, c)] /\ LoadAll({c}, cch, joined, ver)
        /\ UNCHANGED <<chapters, anchor, cache, order, active, version, missed>> /\ c \in ChapterId
    BY <1>2, <1>3, <1>4 DEF Expand
  <1>6. Window' = Window \cup {c}
    <2>1. \A i \in lo .. hi : i \in Nat
      BY <1>1, <1>2
    <2>2. \A i \in lo' .. hi' : i \in Nat
      BY <1>2, <1>3
    <2>3. QED
      BY <1>2, <1>3, <1>4, <1>5, <2>1, <2>2 DEF Window, ListIds
  <1>7. PICK shown : shown = FromCache(cache, c)
    OBVIOUS
  <1>8. /\ shown \in [state : States, shows : Version] /\ shown.state # "absent"
        /\ shown.state = "loaded" => InCache(cache, c) /\ shown.shows = cache[c]
    BY <1>1, <1>7, CacheShown DEF InCache
  <1>9. QED
    BY <1>1, <1>3, <1>4, <1>5, <1>6, <1>7, <1>8, OneLoads DEF Renewed

LEMMA Retries ==
    ASSUME WindowInv, NEW c \in ChapterId, Retry(c)
    PROVE  WindowInv'
  <1>1. /\ chapters \in Lists /\ {lo, hi, anchor} \subseteq DOMAIN chapters /\ lo <= anchor /\ anchor <= hi
        /\ inFlight \in SUBSET ChapterId /\ version \in [ChapterId -> Version] /\ missed \subseteq ChapterId
        /\ \A d \in DOMAIN cache : cache[d] \in Version
    BY DEF WindowInv, WindowTypes, WindowCovered
  <1>2. PICK cch, joined, ver : cch = cache /\ joined = inFlight /\ ver = version
    OBVIOUS
  <1>3. PICK shown \in {FromCache(cache, c), Loading} : record' = [record EXCEPT ![c] = shown]
    BY DEF Retry
  <1>4. /\ shown \in [state : States, shows : Version] /\ shown.state # "absent"
        /\ shown.state = "loaded" => InCache(cache, c) /\ shown.shows = cache[c]
    BY <1>1, CacheShown, Bounds DEF InCache, Loading, Rec, States
  <1>5. /\ record[c].state = "error" /\ LoadAll({c}, cch, joined, ver)
        /\ UNCHANGED <<chapters, lo, hi, anchor, cache, order, active, version, missed>>
    BY <1>2 DEF Retry
  <1>6. c \in Window
    BY <1>5 DEF WindowInv, WindowCovered
  <1>7. Window' = Window \cup {c}
    BY <1>5, <1>6 DEF Window, ListIds
  <1>8. QED
    BY <1>1, <1>2, <1>3, <1>4, <1>5, <1>7, OneLoads DEF Renewed

LEMMA Refreshes ==
    ASSUME WindowInv, NEW c \in ChapterId, NEW force \in BOOLEAN, Refresh(c, force)
    PROVE  WindowInv'
  <1>1. /\ chapters \in Lists /\ {lo, hi, anchor} \subseteq DOMAIN chapters /\ lo <= anchor /\ anchor <= hi
        /\ inFlight \in SUBSET ChapterId /\ version \in [ChapterId -> Version] /\ missed \subseteq ChapterId
        /\ running \in [ChapterId -> [Version -> 0 .. MaxSame]]
    BY DEF WindowInv, WindowTypes, WindowCovered
  <1>2. /\ version[c] < MaxVersion /\ version' = [version EXCEPT ![c] = @ + 1]
        /\ missed' = IF Running(c) \/ c \notin Window THEN missed \cup {c} ELSE missed
        /\ UNCHANGED <<chapters, lo, hi, anchor, active>>
    BY DEF Refresh
  <1>3. version[c] + 1 \in Version
    BY <1>1, <1>2, Bounds DEF Version
  <1>4. /\ version' \in [ChapterId -> Version] /\ \A d \in ChapterId : d # c => version'[d] = version[d]
        /\ missed' \subseteq ChapterId /\ missed \subseteq missed'
    BY <1>1, <1>2, <1>3
  <1>5. CASE c \in Window
    <2>1. PICK cch, joined, ver : /\ cch = Without(cache, {c}) /\ ver = version'
                                  /\ joined = (IF force THEN inFlight \ {c} ELSE inFlight)
      OBVIOUS
    <2>2. cache' = cch /\ record' = [record EXCEPT ![c] = Loading] /\ LoadAll({c}, cch, joined, ver)
      BY <1>5, <2>1 DEF Refresh, CacheIs
    <2>3. PICK shown : shown = Loading
      OBVIOUS
    <2>4. shown \in [state : States, shows : Version] /\ shown.state = "loading"
      BY <2>3, Bounds DEF Loading, Rec, States
    <2>5. Window' = Window \cup {c}
      BY <1>2, <1>5 DEF Window, ListIds
    <2>6. joined \in SUBSET ChapterId
      BY <1>1, <2>1
    <2>7. Running(c) => c \in missed'
      BY <1>2
    <2>8. {lo, hi}' \subseteq DOMAIN chapters /\ lo' <= anchor /\ anchor <= hi'
      BY <1>1, <1>2
    <2>9. Renewed(c, shown, ver)
      BY <1>4, <2>1, <2>2, <2>4, <2>7 DEF Renewed
    <2>10. cache' \in {cache, Without(cache, {c})} /\ record' = [record EXCEPT ![c] = shown]
      BY <2>1, <2>2, <2>3
    <2>11. ver \in [ChapterId -> Version] /\ version' = ver /\ UNCHANGED <<chapters, anchor, active>>
      BY <1>2, <1>4, <2>1
    <2>12. QED
      BY <1>4, <2>2, <2>4, <2>5, <2>6, <2>8, <2>9, <2>10, <2>11, OneLoads
  <1>6. CASE c \notin Window
    <2>1. UNCHANGED <<cache, order, record, running, inFlight>> /\ c \in missed'
      BY <1>2, <1>6 DEF Refresh
    <2>2. WindowTypes'
      BY <1>2, <1>4, <2>1 DEF WindowInv, WindowTypes
    <2>3. WindowCovered'
      BY <1>2, <2>1 DEF WindowInv, WindowCovered, Window, ListIds
    <2>4. Fresh'
      <3>1. DOMAIN cache \subseteq ChapterId
        BY DEF WindowInv, WindowTypes
      <3>2. QED
        BY <1>4, <2>1, <3>1 DEF WindowInv, Fresh
    <2>5. QED
      BY <2>2, <2>3, <2>4 DEF WindowInv
  <1>7. QED
    BY <1>5, <1>6

\* The answer of a fetch is of the version that was asked for.
LEMMA Completes ==
    ASSUME WindowInv, NEW c \in ChapterId, NEW v \in Version, NEW ok \in BOOLEAN, Complete(c, v, ok)
    PROVE  WindowInv'
  <1>1. /\ running \in [ChapterId -> [Version -> 0 .. MaxSame]] /\ MaxSame \in Nat
        /\ record \in [ChapterId -> [state : States, shows : Version]]
        /\ DOMAIN cache \subseteq ChapterId /\ \A d \in DOMAIN cache : cache[d] \in Version
    BY Bounds DEF WindowInv, WindowTypes
  <1>2. /\ running[c][v] > 0 /\ running' = [running EXCEPT ![c][v] = @ - 1] /\ inFlight' = inFlight \ {c}
        /\ UNCHANGED <<chapters, lo, hi, anchor, active, version, missed>>
    BY DEF Complete
  <1>3. /\ running' \in [ChapterId -> [Version -> 0 .. MaxSame]]
        /\ \A d \in ChapterId, w \in Version : running'[d][w] > 0 => running[d][w] > 0
    <2>1. running[c][v] - 1 \in 0 .. MaxSame
      BY <1>1, <1>2
    <2>2. QED
      BY <1>1, <1>2, <2>1
  <1>4. \A d \in DOMAIN cache' : (d \in DOMAIN cache /\ cache'[d] = cache[d]) \/ (d = c /\ cache'[d] = v)
    <2>1. CASE ok
      <3>1. PutCache(c, v)
        BY <2>1 DEF Complete
      <3>2. PICK gone : cache' = Without([d \in DOMAIN cache \cup {c} |-> IF d = c THEN v ELSE cache[d]], gone)
        BY <3>1 DEF PutCache
      <3>3. QED
        BY <3>2 DEF Without
    <2>2. CASE ~ok
      BY <2>2 DEF Complete
    <2>3. QED
      BY <2>1, <2>2
  <1>5. \/ record' = record
        \/ record[c].state # "absent" /\ \E shown \in {Rec("loaded", v), Rec("error", 0)} : record' = [record EXCEPT ![c] = shown]
    BY DEF Complete
  <1>6. ASSUME NEW d \in ChapterId
        PROVE  /\ record'[d] \in [state : States, shows : Version]
               /\ record'[d].state = "absent" <=> record[d].state = "absent"
               /\ record'[d].state = "loaded" => record'[d] = record[d] \/ (d = c /\ record'[d].shows = v)
    <2>1. CASE record' = record
      BY <1>1, <2>1
    <2>2. CASE record' # record
      <3>1. PICK shown \in {Rec("loaded", v), Rec("error", 0)} : record' = [record EXCEPT ![c] = shown]
        BY <1>5, <2>2
      <3>2. /\ shown \in [state : States, shows : Version] /\ shown.state # "absent"
            /\ shown.state = "loaded" => shown.shows = v
        BY <3>1, Bounds DEF Rec, States
      <3>3. record[c].state # "absent"
        BY <1>5, <2>2
      <3>4. QED
        BY <1>1, <3>1, <3>2, <3>3
    <2>3. QED
      BY <2>1, <2>2
  <1>7. record' \in [ChapterId -> [state : States, shows : Version]]
    BY <1>1, <1>5, <1>6
  <1>8. WindowTypes'
    BY <1>1, <1>2, <1>3, <1>4, <1>7 DEF WindowInv, WindowTypes
  <1>9. WindowCovered'
    BY <1>2, <1>6 DEF WindowInv, WindowCovered, Window, ListIds
  <1>10. c \notin missed => v = version[c]
    BY <1>2 DEF WindowInv, Fresh
  <1>11. Fresh'
    <2>1. \A d \in DOMAIN cache' \ missed' : cache'[d] = version'[d]
      BY <1>2, <1>4, <1>10 DEF WindowInv, Fresh
    <2>2. ASSUME NEW d \in ChapterId \ missed', record'[d].state = "loaded"
          PROVE  record'[d].shows = version'[d]
      BY <1>2, <1>6, <1>10, <2>2 DEF WindowInv, Fresh
    <2>3. \A d \in ChapterId \ missed', w \in Version : running'[d][w] > 0 => w = version'[d]
      BY <1>2, <1>3 DEF WindowInv, Fresh
    <2>4. QED
      BY <2>1, <2>2, <2>3 DEF Fresh
  <1>12. QED
    BY <1>8, <1>9, <1>11 DEF WindowInv

-----------------------------------------------------------------------------
(* Trimming. What the loop of maintainAround leaves is a recursive function  *)
(* of the ends it starts from: that there is one, and what it returns, go by *)
(* induction on the width of the window, as a least counterexample.          *)
LEMMA LeastNat ==
    ASSUME NEW T \in SUBSET Nat, T # {}
    PROVE  \E x \in T : \A y \in T : x <= y
  <1> DEFINE R == {ss \in Nat \X Nat : ss[1] < ss[2]}
  <1>1. IsWellFoundedOn(R, Nat)
    BY NatLessThanWellFounded, Zenon DEF OpToRel
  <1>2. \A i, j \in Nat : i < j => <<i, j>> \in R
    OBVIOUS
  <1>3. PICK x \in T : \A y \in T : ~(<<y, x>> \in R)
    <2> HIDE DEF R
    <2>1. QED
      BY <1>1, WFMin
  <1>4. \A y \in T : ~(y < x)
    <2> HIDE DEF R
    <2>1. QED
      BY <1>2, <1>3
  <1>5. QED
    BY <1>4

Ends == (DOMAIN chapters) \X (DOMAIN chapters)
\* One turn of the loop, with trim as what the turns after it return.
Turn(trim, e, a, i, visible) ==
    IF e[2] - e[1] + 1 <= MaxWindow THEN e
    ELSE IF TopOk(e[1], a, i, visible) /\ (~BottomOk(e[2], a, i, visible) \/ i - e[1] >= e[2] - i)
         THEN trim[<<e[1] + 1, e[2]>>]
    ELSE IF BottomOk(e[2], a, i, visible) THEN trim[<<e[1], e[2] - 1>>]
    ELSE e
Loop(a, i, visible) == CHOOSE trim : trim = [e \in Ends |-> Turn(trim, e, a, i, visible)]
Narrow(w) == {e \in Ends : e[2] - e[1] <= w}
Loops(f, w, a, i, visible) == f \in [Narrow(w) -> Ends] /\ \A e \in Narrow(w) : f[e] = Turn(f, e, a, i, visible)

LEMMA TrimmedIs ==
    ASSUME NEW a, NEW i, NEW visible
    PROVE  Trimmed(a, i, visible) = Loop(a, i, visible)[<<lo, hi>>]
  BY DEF Trimmed, Loop, Turn, Ends

\* The ends that a turn goes on with: a narrower window of the list.
LEMMA TurnsTo ==
    ASSUME chapters \in Lists, NEW a \in DOMAIN chapters, NEW i \in DOMAIN chapters, NEW visible, NEW e \in Ends
    PROVE  /\ e[1] \in DOMAIN chapters /\ e[2] \in DOMAIN chapters /\ DOMAIN chapters \subseteq Nat \ {0}
           /\ TopOk(e[1], a, i, visible) => <<e[1] + 1, e[2]>> \in Ends /\ e[1] < a
           /\ BottomOk(e[2], a, i, visible) => <<e[1], e[2] - 1>> \in Ends /\ e[2] > a
  <1>1. DOMAIN chapters = 1 .. Len(chapters) /\ Len(chapters) \in Nat
    BY ListFacts
  <1>2. e[1] \in DOMAIN chapters /\ e[2] \in DOMAIN chapters
    BY DEF Ends
  <1>3. TopOk(e[1], a, i, visible) => e[1] + 1 \in DOMAIN chapters /\ e[1] < a
    BY <1>1, <1>2 DEF TopOk
  <1>4. BottomOk(e[2], a, i, visible) => e[2] - 1 \in DOMAIN chapters /\ e[2] > a
    BY <1>1, <1>2 DEF BottomOk
  <1>5. QED
    BY <1>1, <1>2, <1>3, <1>4 DEF Ends

LEMMA EndsIn ==
    ASSUME chapters \in Lists
    PROVE  /\ Len(chapters) \in Nat
           /\ \A e \in Ends : e[1] \in Nat /\ e[2] \in Nat /\ 1 <= e[1] /\ e[2] <= Len(chapters)
  <1>1. DOMAIN chapters = 1 .. Len(chapters) /\ Len(chapters) \in Nat
    BY ListFacts
  <1>2. ASSUME NEW e \in Ends
        PROVE  e[1] \in 1 .. Len(chapters) /\ e[2] \in 1 .. Len(chapters)
    BY <1>1 DEF Ends
  <1>3. QED
    BY <1>1, <1>2

\* A loop for one more width: its turns use what is there.
LEMMA LoopGrows ==
    ASSUME chapters \in Lists, NEW a \in DOMAIN chapters, NEW i \in DOMAIN chapters, NEW visible, NEW w \in Nat,
           NEW f, Loops(f, w, a, i, visible)
    PROVE  \E g : Loops(g, w + 1, a, i, visible)
  <1>1. /\ f \in [Narrow(w) -> Ends] /\ \A e \in Narrow(w) : f[e] = Turn(f, e, a, i, visible)
    BY DEF Loops
  <1>2. PICK g : g = [e \in Narrow(w + 1) |-> IF e \in Narrow(w) THEN f[e] ELSE Turn(f, e, a, i, visible)]
    OBVIOUS
  <1>3. ASSUME NEW e \in Narrow(w + 1)
        PROVE  Turn(f, e, a, i, visible) \in Ends /\ Turn(g, e, a, i, visible) = Turn(f, e, a, i, visible)
    <2>1. /\ e \in Ends /\ e[1] \in Nat /\ e[2] \in Nat /\ e[2] - e[1] <= w + 1
      BY <1>3, TurnsTo DEF Narrow
    <2>2. CASE e[2] - e[1] + 1 <= MaxWindow
      BY <2>1, <2>2 DEF Turn
    <2>3. ASSUME ~(e[2] - e[1] + 1 <= MaxWindow), TopOk(e[1], a, i, visible)
          PROVE  /\ f[<<e[1] + 1, e[2]>>] \in Ends /\ g[<<e[1] + 1, e[2]>>] = f[<<e[1] + 1, e[2]>>]
      <3>1. <<e[1] + 1, e[2]>> \in Ends
        BY <2>1, <2>3, TurnsTo
      <3>2. e[2] - (e[1] + 1) <= w
        BY <2>1
      <3>3. <<e[1] + 1, e[2]>> \in Narrow(w) /\ <<e[1] + 1, e[2]>> \in Narrow(w + 1)
        BY <2>1, <3>1, <3>2 DEF Narrow
      <3>4. QED
        BY <1>1, <1>2, <3>3
    <2>4. ASSUME ~(e[2] - e[1] + 1 <= MaxWindow), BottomOk(e[2], a, i, visible)
          PROVE  /\ f[<<e[1], e[2] - 1>>] \in Ends /\ g[<<e[1], e[2] - 1>>] = f[<<e[1], e[2] - 1>>]
      <3>1. <<e[1], e[2] - 1>> \in Ends
        BY <2>1, <2>4, TurnsTo
      <3>2. (e[2] - 1) - e[1] <= w
        BY <2>1
      <3>3. <<e[1], e[2] - 1>> \in Narrow(w) /\ <<e[1], e[2] - 1>> \in Narrow(w + 1)
        BY <2>1, <3>1, <3>2 DEF Narrow
      <3>4. QED
        BY <1>1, <1>2, <3>3
    <2>5. QED
      BY <2>1, <2>2, <2>3, <2>4 DEF Turn
  <1>4. \A e \in Narrow(w + 1) : g[e] = Turn(f, e, a, i, visible)
    BY <1>1, <1>2
  <1>5. Loops(g, w + 1, a, i, visible)
    BY <1>2, <1>3, <1>4 DEF Loops
  <1>6. QED
    BY <1>5

LEMMA LoopExists ==
    ASSUME chapters \in Lists, NEW a \in DOMAIN chapters, NEW i \in DOMAIN chapters, NEW visible
    PROVE  \A e \in Ends : Loop(a, i, visible)[e] = Turn(Loop(a, i, visible), e, a, i, visible)
  <1> DEFINE T == {w \in Nat : ~\E f : Loops(f, w, a, i, visible)}
  <1>1. T = {}
    <2> SUFFICES ASSUME T # {} PROVE FALSE
      OBVIOUS
    <2>1. PICK w \in T : \A v \in T : w <= v
      BY LeastNat
    <2>2. CASE w = 0
      <3>1. PICK f : f = [e \in Narrow(0) |-> e]
        OBVIOUS
      <3>2. ASSUME NEW e \in Narrow(0)
            PROVE  e \in Ends /\ Turn(f, e, a, i, visible) = e
        <4>1. e \in Ends /\ e[1] \in Nat /\ e[2] \in Nat /\ e[2] - e[1] <= 0
          BY <3>2, TurnsTo DEF Narrow
        <4>2. e[2] - e[1] + 1 <= MaxWindow
          BY <4>1, Bounds
        <4>3. QED
          BY <4>1, <4>2 DEF Turn
      <3>3. Loops(f, 0, a, i, visible)
        BY <3>1, <3>2 DEF Loops
      <3>4. QED
        BY <2>2, <3>3
    <2>3. CASE w # 0
      <3>1. w - 1 \in Nat /\ w - 1 \notin T /\ (w - 1) + 1 = w
        BY <2>1, <2>3
      <3>2. PICK f : Loops(f, w - 1, a, i, visible)
        BY <3>1
      <3>3. \E g : Loops(g, (w - 1) + 1, a, i, visible)
        BY <3>1, <3>2, LoopGrows
      <3>4. QED
        BY <3>1, <3>3
    <2>4. QED
      BY <2>2, <2>3
  <1>2. PICK f : Loops(f, Len(chapters), a, i, visible)
    BY <1>1, ListFacts
  <1>3. Narrow(Len(chapters)) = Ends
    <2>1. ASSUME NEW e \in Ends
          PROVE  e[2] - e[1] <= Len(chapters)
      BY EndsIn
    <2>2. QED
      BY <2>1 DEF Narrow
  <1>4. f = [e \in Ends |-> Turn(f, e, a, i, visible)]
    BY <1>2, <1>3 DEF Loops
  <1>5. Loop(a, i, visible) = [e \in Ends |-> Turn(Loop(a, i, visible), e, a, i, visible)]
    BY <1>4 DEF Loop
  <1>6. QED
    BY <1>5

\* What the loop returns for e: it takes nothing away but chapters that may
\* go, keeps the anchor a, and stops only when the window fits or no end may go.
Trims(e, r, a, i, visible) ==
    /\ r \in Ends /\ e[1] <= r[1] /\ r[1] <= a /\ a <= r[2] /\ r[2] <= e[2]
    /\ \A j \in Nat : e[1] <= j /\ j < r[1] => TopOk(j, a, i, visible)
    /\ \A j \in Nat : r[2] < j /\ j <= e[2] => BottomOk(j, a, i, visible)
    /\ r[2] - r[1] + 1 > MaxWindow => ~TopOk(r[1], a, i, visible) /\ ~BottomOk(r[2], a, i, visible)

LEMMA TurnTrims ==
    ASSUME chapters \in Lists, NEW a \in DOMAIN chapters, NEW i \in DOMAIN chapters, NEW visible,
           NEW e \in Ends, e[1] <= a, a <= e[2], NEW trim,
           \A d \in Ends : d[1] <= a /\ a <= d[2] /\ d[2] - d[1] < e[2] - e[1] => Trims(d, trim[d], a, i, visible)
    PROVE  Trims(e, Turn(trim, e, a, i, visible), a, i, visible)
  <1>1. e[1] \in Nat /\ e[2] \in Nat /\ a \in Nat /\ i \in Nat /\ MaxWindow \in Nat
    BY TurnsTo, Bounds
  <1>2. CASE e[2] - e[1] + 1 <= MaxWindow
    BY <1>1, <1>2 DEF Turn, Trims
  <1>3. CASE ~(e[2] - e[1] + 1 <= MaxWindow) /\ TopOk(e[1], a, i, visible)
             /\ (~BottomOk(e[2], a, i, visible) \/ i - e[1] >= e[2] - i)
    <2> DEFINE d == <<e[1] + 1, e[2]>>
    <2>0. <<e[1] + 1, e[2]>> \in Ends /\ e[1] < a
      BY <1>3, TurnsTo
    <2>1. d \in Ends /\ d[1] = e[1] + 1 /\ d[2] = e[2] /\ d[1] <= a
      BY <1>1, <2>0
    <2>2. Turn(trim, e, a, i, visible) = trim[d]
      BY <1>3 DEF Turn
    <2> HIDE DEF d
    <2>3. Trims(d, trim[d], a, i, visible)
      BY <1>1, <2>1
    <2>4. trim[d][1] \in Nat /\ trim[d][2] \in Nat
      BY <2>3, TurnsTo DEF Trims
    <2>5. \A j \in Nat : e[1] <= j /\ j < trim[d][1] => TopOk(j, a, i, visible)
      <3> SUFFICES ASSUME NEW j \in Nat, e[1] <= j, j < trim[d][1] PROVE TopOk(j, a, i, visible)
        OBVIOUS
      <3>1. CASE j = e[1]
        BY <1>3, <3>1
      <3>2. CASE j # e[1]
        <4>1. d[1] <= j
          BY <1>1, <2>1, <3>2
        <4>2. QED
          BY <2>3, <4>1 DEF Trims
      <3>3. QED
        BY <3>1, <3>2
    <2>6. QED
      BY <1>1, <2>1, <2>2, <2>3, <2>4, <2>5 DEF Trims
  <1>4. CASE ~(e[2] - e[1] + 1 <= MaxWindow) /\ BottomOk(e[2], a, i, visible)
             /\ ~(TopOk(e[1], a, i, visible) /\ (~BottomOk(e[2], a, i, visible) \/ i - e[1] >= e[2] - i))
    <2> DEFINE d == <<e[1], e[2] - 1>>
    <2>0. <<e[1], e[2] - 1>> \in Ends /\ e[2] > a
      BY <1>4, TurnsTo
    <2>1. d \in Ends /\ d[1] = e[1] /\ d[2] = e[2] - 1 /\ a <= d[2]
      BY <1>1, <2>0
    <2>2. Turn(trim, e, a, i, visible) = trim[d]
      BY <1>4 DEF Turn
    <2> HIDE DEF d
    <2>3. Trims(d, trim[d], a, i, visible)
      BY <1>1, <2>1
    <2>4. trim[d][1] \in Nat /\ trim[d][2] \in Nat
      BY <2>3, TurnsTo DEF Trims
    <2>5. \A j \in Nat : trim[d][2] < j /\ j <= e[2] => BottomOk(j, a, i, visible)
      <3> SUFFICES ASSUME NEW j \in Nat, trim[d][2] < j, j <= e[2] PROVE BottomOk(j, a, i, visible)
        OBVIOUS
      <3>1. CASE j = e[2]
        BY <1>4, <3>1
      <3>2. CASE j # e[2]
        <4>1. j <= d[2]
          BY <1>1, <2>1, <3>2
        <4>2. QED
          BY <2>3, <4>1 DEF Trims
      <3>3. QED
        BY <3>1, <3>2
    <2>6. QED
      BY <1>1, <2>1, <2>2, <2>3, <2>4, <2>5 DEF Trims
  <1>5. CASE ~(e[2] - e[1] + 1 <= MaxWindow) /\ ~BottomOk(e[2], a, i, visible) /\ ~TopOk(e[1], a, i, visible)
    BY <1>1, <1>5 DEF Turn, Trims
  <1>6. QED
    BY <1>2, <1>3, <1>4, <1>5

LEMMA LoopTrims ==
    ASSUME chapters \in Lists, NEW a \in DOMAIN chapters, NEW i \in DOMAIN chapters, NEW visible
    PROVE  \A e \in Ends : e[1] <= a /\ a <= e[2] => Trims(e, Loop(a, i, visible)[e], a, i, visible)
  <1> DEFINE trim == Loop(a, i, visible)
             bad == {e \in Ends : e[1] <= a /\ a <= e[2] /\ ~Trims(e, trim[e], a, i, visible)}
             widths == {e[2] - e[1] : e \in bad}
  <1>1. SUFFICES ASSUME bad # {} PROVE FALSE
    OBVIOUS
  <1>2. widths \in SUBSET Nat /\ widths # {}
    <2>1. ASSUME NEW e \in bad
          PROVE  e[2] - e[1] \in Nat
      <3>1. e[1] \in Nat /\ e[2] \in Nat /\ e[1] <= a /\ a <= e[2] /\ a \in Nat
        BY EndsIn, ListFacts
      <3>2. QED
        BY <3>1
    <2>2. QED
      BY <1>1, <2>1
  <1>3. PICK w \in widths : \A v \in widths : w <= v
    <2> HIDE DEF widths
    <2>1. QED
      BY <1>2, LeastNat
  <1>4. PICK e \in bad : w = e[2] - e[1]
    OBVIOUS
  <1>5. e \in Ends /\ e[1] <= a /\ a <= e[2] /\ ~Trims(e, trim[e], a, i, visible)
    OBVIOUS
  <1>6. ASSUME NEW d \in Ends, d[1] <= a, a <= d[2], d[2] - d[1] < e[2] - e[1]
        PROVE  Trims(d, trim[d], a, i, visible)
    <2>1. d[1] \in Nat /\ d[2] \in Nat /\ e[1] \in Nat /\ e[2] \in Nat
      BY EndsIn
    <2>2. d \notin bad
      <3> SUFFICES ASSUME d \in bad PROVE FALSE
        OBVIOUS
      <3>1. d[2] - d[1] \in widths
        OBVIOUS
      <3>2. w <= d[2] - d[1]
        BY <1>3, <3>1
      <3> HIDE DEF trim, bad, widths
      <3>3. QED
        BY <1>4, <1>6, <2>1, <3>2
    <2>3. QED
      BY <1>6, <2>2
  <1>7. trim[e] = Turn(trim, e, a, i, visible)
    BY <1>5, LoopExists
  <1> HIDE DEF trim, bad, widths
  <1>8. Trims(e, Turn(trim, e, a, i, visible), a, i, visible)
    BY <1>5, <1>6, TurnTrims
  <1>9. QED
    BY <1>5, <1>7, <1>8

\* What moves the reading position: the chapter read is in the window, and
\* what the loop starts from contains the anchor it keeps.
LEMMA ReadFacts ==
    ASSUME WindowInv, NEW c \in ChapterId, NEW visible, Read(c, visible)
    PROVE  /\ Index(chapters, c) \in lo .. hi /\ chapters[Index(chapters, c)] = c
           /\ anchor' \in lo .. hi /\ <<lo, hi>> \in Ends /\ <<lo', hi'>> \in Ends
           /\ Trims(<<lo, hi>>, <<lo', hi'>>, anchor', Index(chapters, c), visible)
           /\ record' = [d \in ChapterId |-> IF d \in ListIds(chapters, lo', hi') THEN record[d] ELSE Absent]
           /\ active' = c /\ UNCHANGED <<chapters, cache, order, inFlight, running, version, missed>>
  <1>1. /\ chapters \in Lists /\ {lo, hi, anchor} \subseteq DOMAIN chapters /\ lo <= anchor /\ anchor <= hi
    BY DEF WindowInv, WindowTypes, WindowCovered
  <1>2. DOMAIN chapters = 1 .. Len(chapters) /\ Len(chapters) \in Nat
    BY <1>1, ListFacts
  <1>3. PICK j \in lo .. hi : c = chapters[j]
    BY DEF Read, Window, ListIds
  <1>4. PICK i : i = Index(chapters, c)
    OBVIOUS
  <1>5. i = j /\ i \in DOMAIN chapters
    BY <1>1, <1>2, <1>3, <1>4, IndexIs
  <1>6. PICK a : a = (IF Distance(i, anchor) > ReanchorDistance THEN i ELSE anchor)
    OBVIOUS
  <1>7. a \in lo .. hi /\ a \in DOMAIN chapters
    BY <1>1, <1>2, <1>3, <1>5, <1>6
  <1>8. PICK ends : ends = Trimmed(a, i, visible)
    OBVIOUS
  <1>9. /\ anchor' = a /\ lo' = ends[1] /\ hi' = ends[2] /\ active' = c
        /\ record' = [d \in ChapterId |-> IF d \in ListIds(chapters, ends[1], ends[2]) THEN record[d] ELSE Absent]
        /\ UNCHANGED <<chapters, cache, order, inFlight, running, version, missed>>
    BY <1>4, <1>6, <1>8 DEF Read
  <1>10. <<lo, hi>> \in Ends /\ <<lo, hi>>[1] <= a /\ a <= <<lo, hi>>[2]
    BY <1>1, <1>2, <1>7 DEF Ends
  <1>11. Trims(<<lo, hi>>, ends, a, i, visible)
    BY <1>1, <1>5, <1>7, <1>8, <1>10, LoopTrims, TrimmedIs
  <1>12. ends \in Ends /\ ends = <<lo', hi'>>
    BY <1>9, <1>11 DEF Trims, Ends
  <1>13. QED
    BY <1>3, <1>4, <1>5, <1>7, <1>9, <1>10, <1>11, <1>12

LEMMA Reads ==
    ASSUME WindowInv, NEW c \in ChapterId, NEW visible, Read(c, visible)
    PROVE  WindowInv'
  <1>1. /\ anchor' \in lo .. hi /\ <<lo', hi'>> \in Ends
        /\ Trims(<<lo, hi>>, <<lo', hi'>>, anchor', Index(chapters, c), visible)
        /\ record' = [d \in ChapterId |-> IF d \in ListIds(chapters, lo', hi') THEN record[d] ELSE Absent]
        /\ active' = c /\ UNCHANGED <<chapters, cache, order, inFlight, running, version, missed>>
    BY ReadFacts
  <1>2. /\ chapters \in Lists /\ {lo, hi, anchor} \subseteq DOMAIN chapters
        /\ record \in [ChapterId -> [state : States, shows : Version]]
    BY DEF WindowInv, WindowTypes
  <1>3. DOMAIN chapters = 1 .. Len(chapters) /\ Len(chapters) \in Nat /\ \A i \in DOMAIN chapters : chapters[i] \in ChapterId
    BY <1>2, ListFacts
  <1>4. /\ lo' \in DOMAIN chapters /\ hi' \in DOMAIN chapters
        /\ lo <= lo' /\ lo' <= anchor' /\ anchor' <= hi' /\ hi' <= hi
    <2>1. lo' \in DOMAIN chapters /\ hi' \in DOMAIN chapters
      BY <1>1 DEF Ends
    <2>2. QED
      BY <1>1, <2>1 DEF Trims
  <1>5. Window' \subseteq Window /\ Window' = ListIds(chapters, lo', hi')
    BY <1>1, <1>2, <1>3, <1>4 DEF Window, ListIds
  <1>6. ASSUME NEW d \in ChapterId
        PROVE  /\ record'[d] \in [state : States, shows : Version]
               /\ record'[d].state # "absent" <=> d \in Window'
               /\ record'[d].state = "loaded" => record'[d] = record[d]
    <2>1. d \in Window => record[d].state # "absent"
      BY DEF WindowInv, WindowCovered
    <2>2. Absent \in [state : States, shows : Version] /\ Absent.state = "absent"
      BY Bounds DEF Absent, Rec, States
    <2>3. QED
      BY <1>1, <1>2, <1>5, <2>1, <2>2
  <1>7. record' \in [ChapterId -> [state : States, shows : Version]]
    BY <1>1, <1>6
  <1>8. Window' \subseteq ChapterId
    <2>1. \A i \in lo' .. hi' : i \in DOMAIN chapters
      BY <1>3, <1>4
    <2>2. QED
      BY <1>3, <1>5, <2>1 DEF ListIds
  <1>9. WindowCovered'
    BY <1>4, <1>6, <1>8 DEF WindowCovered
  <1>10. WindowTypes'
    <2>1. anchor' \in DOMAIN chapters
      BY <1>3, <1>4, <1>1, <1>2
    <2>2. QED
      BY <1>1, <1>4, <1>7, <2>1 DEF WindowInv, WindowTypes
  <1>11. Fresh'
    BY <1>1, <1>6 DEF WindowInv, Fresh
  <1>12. QED
    BY <1>9, <1>10, <1>11 DEF WindowInv

LEMMA WindowInit == Init => WindowInv
  <1> SUFFICES ASSUME Init PROVE WindowInv
    OBVIOUS
  <1>1. PICK a \in DOMAIN chapters :
          LET l == IF a > 1 THEN a - 1 ELSE a
              h == IF a < Len(chapters) THEN a + 1 ELSE a
              members == ListIds(chapters, l, h)
          IN  /\ lo = l /\ hi = h /\ anchor = a
              /\ active = chapters[a]
              /\ record = [c \in ChapterId |-> IF c \in members THEN Loading ELSE Absent]
              /\ running = [c \in ChapterId |-> [v \in Version |-> IF c \in members /\ v = 0 THEN 1 ELSE 0]]
              /\ inFlight = members
    BY DEF Init
  <1>2. /\ chapters \in Lists /\ cache = <<>> /\ version = [c \in ChapterId |-> 0] /\ missed = {}
    BY DEF Init
  <1>3. /\ DOMAIN chapters = 1 .. Len(chapters) /\ Len(chapters) \in Nat
        /\ \A i \in DOMAIN chapters : chapters[i] \in ChapterId
    BY <1>2, ListFacts
  <1>4. /\ lo \in DOMAIN chapters /\ hi \in DOMAIN chapters /\ anchor \in DOMAIN chapters /\ lo <= anchor /\ anchor <= hi
        /\ active \in ChapterId
    BY <1>1, <1>3
  <1>5. /\ record = [c \in ChapterId |-> IF c \in Window THEN Loading ELSE Absent]
        /\ running = [c \in ChapterId |-> [v \in Version |-> IF c \in Window /\ v = 0 THEN 1 ELSE 0]]
        /\ inFlight = Window
    BY <1>1 DEF Window
  <1>6. Window \subseteq ChapterId
    <2>1. \A i \in lo .. hi : i \in DOMAIN chapters
      BY <1>3, <1>4
    <2>2. QED
      BY <1>3, <2>1 DEF Window, ListIds
  <1>7. /\ Loading \in [state : States, shows : Version] /\ Loading.state = "loading"
        /\ Absent \in [state : States, shows : Version] /\ Absent.state = "absent"
    BY Bounds DEF Loading, Absent, Rec, States
  <1>8. WindowTypes
    <2>1. record \in [ChapterId -> [state : States, shows : Version]]
      BY <1>5, <1>7
    <2>2. running \in [ChapterId -> [Version -> 0 .. MaxSame]]
      BY <1>5, Bounds
    <2>3. DOMAIN cache = {}
      BY <1>2
    <2>4. QED
      BY <1>2, <1>4, <1>5, <1>6, <2>1, <2>2, <2>3, Bounds DEF WindowTypes
  <1>9. WindowCovered
    BY <1>4, <1>5, <1>6, <1>7 DEF WindowCovered
  <1>10. Fresh
    <2>1. DOMAIN cache = {}
      BY <1>2
    <2>2. \A c \in ChapterId : record[c].state # "loaded"
      BY <1>5, <1>7
    <2>3. \A c \in ChapterId, v \in Version : running[c][v] > 0 => v = version[c]
      BY <1>2, <1>5
    <2>4. QED
      BY <2>1, <2>2, <2>3 DEF Fresh
  <1>11. QED
    BY <1>8, <1>9, <1>10 DEF WindowInv

LEMMA WindowNext == WindowInv /\ [Next]_vars => WindowInv'
  <1> SUFFICES ASSUME WindowInv, [Next]_vars PROVE WindowInv'
    OBVIOUS
  <1>1. CASE Next
    <2>1. CASE \E list \in Lists : SetChapters(list)
      BY <2>1, SetsChapters
    <2>2. CASE ReloadWindow \/ ExpandAbove \/ ExpandBelow
      BY <2>2, Reloads, Expands
    <2>3. ASSUME NEW c \in ChapterId,
                 \/ Retry(c) \/ (\E force \in BOOLEAN : Refresh(c, force)) \/ JumpTo(c)
                 \/ c \in Window /\ \E visible \in OnScreen(c) \cup {{}} : Read(c, visible)
                 \/ Answer(c)
          PROVE  WindowInv'
      BY <2>3, Retries, Refreshes, Jumps, Reads, Completes DEF Answer
    <2>4. QED
      BY <1>1, <2>1, <2>2, <2>3 DEF Next
  <1>2. CASE UNCHANGED vars
    BY <1>2 DEF vars, windowVars, WindowInv, WindowTypes, WindowCovered, Fresh, Window, ListIds
  <1>3. QED
    BY <1>1, <1>2

LEMMA WindowHolds == Spec => []WindowInv
  BY WindowInit, WindowNext, PTL DEF Spec

\* The load states are those of the chapters of the window, which is a stretch
\* of the list around the anchor: for any list, whatever is trimmed, reset or
\* grown while fetches run, and whichever answers arrive for chapters that
\* have left.
THEOREM WindowAlwaysCovered == Spec => []WindowCovered
  <1>1. WindowInv => WindowCovered
    BY DEF WindowInv
  <1>2. QED
    BY <1>1, WindowHolds, PTL

\* A chapter shows its current version unless its change was made while an
\* older fetch of it ran or outside the window: nothing else, neither the
\* cache nor an overtaken answer, brings old paragraphs back.
THEOREM WindowFresh == Spec => []FreshUnlessMissed
  <1>1. WindowInv => FreshUnlessMissed
    BY DEF WindowInv, WindowCovered, Fresh, FreshUnlessMissed
  <1>2. QED
    BY <1>1, WindowHolds, PTL

\* One step of reading, with what may not go.
LEMMA ReadSpares ==
    ASSUME WindowInv, NEW c \in ChapterId, NEW visible \in OnScreen(c), Read(c, visible)
    PROVE  LET i == Index(chapters, c)
               spared == visible \cup {chapters[anchor']}
                           \cup {chapters[j] : j \in {k \in lo .. hi : Distance(k, i) <= KeepAdjacent}}
           IN  /\ spared \subseteq Window'
               /\ hi' - lo' + 1 > MaxWindow => {chapters[lo'], chapters[hi']} \subseteq spared
  <1>1. /\ Index(chapters, c) \in lo .. hi /\ anchor' \in lo .. hi /\ <<lo, hi>> \in Ends /\ <<lo', hi'>> \in Ends
        /\ Trims(<<lo, hi>>, <<lo', hi'>>, anchor', Index(chapters, c), visible) /\ chapters' = chapters
    BY ReadFacts
  <1>2. PICK i, a, l, h : i = Index(chapters, c) /\ a = anchor' /\ l = lo' /\ h = hi'
    OBVIOUS
  <1>3. /\ chapters \in Lists /\ {lo, hi} \subseteq DOMAIN chapters
    BY DEF WindowInv, WindowTypes
  <1>4. DOMAIN chapters = 1 .. Len(chapters) /\ Len(chapters) \in Nat /\ KeepAdjacent \in Nat /\ MaxWindow \in Nat
    BY <1>3, ListFacts, Bounds
  <1>5. /\ l \in Nat /\ h \in Nat /\ lo \in Nat /\ hi \in Nat /\ i \in lo .. hi /\ a \in lo .. hi
        /\ lo <= l /\ l <= a /\ a <= h /\ h <= hi
        /\ \A j \in Nat : lo <= j /\ j < l => TopOk(j, a, i, visible)
        /\ \A j \in Nat : h < j /\ j <= hi => BottomOk(j, a, i, visible)
        /\ h - l + 1 > MaxWindow => ~TopOk(l, a, i, visible) /\ ~BottomOk(h, a, i, visible)
    <2>1. l \in Nat /\ h \in Nat /\ lo \in Nat /\ hi \in Nat
      BY <1>1, <1>2, <1>3, <1>4, EndsIn DEF Ends
    <2>2. <<lo, hi>>[1] = lo /\ <<lo, hi>>[2] = hi /\ <<lo', hi'>>[1] = l /\ <<lo', hi'>>[2] = h
      BY <1>2
    <2>3. QED
      BY <1>1, <1>2, <2>1, <2>2 DEF Trims
  <1>6. Window' = ListIds(chapters, l, h)
    BY <1>1, <1>2 DEF Window, ListIds
  <1>7. ASSUME NEW j \in lo .. hi, ~TopOk(j, a, i, visible), ~BottomOk(j, a, i, visible)
        PROVE  chapters[j] \in Window' /\ j \in l .. h
    BY <1>5, <1>6, <1>7 DEF ListIds
  <1>8. chapters[a] \in Window'
    BY <1>5, <1>7 DEF TopOk, BottomOk
  <1>9. ASSUME NEW x \in visible
        PROVE  x \in Window'
    <2>1. PICK ll \in lo .. i, hh \in i .. hi : visible = ListIds(chapters, ll, hh)
      BY <1>2 DEF OnScreen
    <2>2. PICK j \in ll .. hh : x = chapters[j]
      BY <1>9, <2>1 DEF ListIds
    <2>3. j \in lo .. hi
      BY <1>5, <2>1, <2>2
    <2>4. QED
      BY <1>7, <1>9, <2>2, <2>3 DEF TopOk, BottomOk
  <1>10. ASSUME NEW j \in lo .. hi, Distance(j, i) <= KeepAdjacent
         PROVE  chapters[j] \in Window' /\ j \in l .. h
    <2>1. ~(j < i - KeepAdjacent) /\ ~(j > i + KeepAdjacent)
      BY <1>4, <1>5, <1>10 DEF Distance
    <2>2. QED
      BY <1>7, <2>1 DEF TopOk, BottomOk
  <1>11. i \in l .. h
    <2>1. Distance(i, i) <= KeepAdjacent
      BY <1>4, <1>5 DEF Distance
    <2>2. QED
      BY <1>5, <1>10, <2>1
  <1> DEFINE spared == visible \cup {chapters[a]} \cup {chapters[j] : j \in {k \in lo .. hi : Distance(k, i) <= KeepAdjacent}}
  <1>12. spared \subseteq Window'
    BY <1>8, <1>9, <1>10
  <1>13. ASSUME h - l + 1 > MaxWindow
         PROVE  chapters[l] \in spared /\ chapters[h] \in spared
    <2>1. ASSUME l = a PROVE chapters[l] \in spared
      BY <2>1
    <2>2. ASSUME l # a /\ chapters[l] \notin visible PROVE chapters[l] \in spared
      <3>1. ~(l < i - KeepAdjacent)
        BY <1>5, <1>13, <2>2 DEF TopOk
      <3>2. l \in lo .. hi /\ Distance(l, i) <= KeepAdjacent
        BY <1>4, <1>5, <1>11, <3>1 DEF Distance
      <3>3. QED
        BY <3>2
    <2>3. chapters[l] \in spared
      BY <2>1, <2>2
    <2>4. ASSUME h = a PROVE chapters[h] \in spared
      BY <2>4
    <2>5. ASSUME h # a /\ chapters[h] \notin visible PROVE chapters[h] \in spared
      <3>1. ~(h > i + KeepAdjacent)
        BY <1>5, <1>13, <2>5 DEF BottomOk
      <3>2. h \in lo .. hi /\ Distance(h, i) <= KeepAdjacent
        BY <1>4, <1>5, <1>11, <3>1 DEF Distance
      <3>3. QED
        BY <3>2
    <2>6. QED
      BY <2>3, <2>4, <2>5
  <1>14. QED
    BY <1>1, <1>2, <1>12, <1>13

\* Trimming spares what the user sees: the chapter being read and those
\* within _keepAdjacent of it, the chapters on screen and the anchor stay, and
\* what exceeds the cap is spared: for every cap, distance and list.
THEOREM TrimAlwaysSpares == Spec => TrimSpares
  <1>1. ASSUME WindowInv, [Next]_vars
        PROVE  UNCHANGED <<chapters, running>> /\ active' \in Window =>
                 \A visible \in OnScreen(active') : Read(active', visible) =>
                   LET i == Index(chapters, active')
                       spared == visible \cup {chapters[anchor']}
                                   \cup {chapters[j] : j \in {k \in lo .. hi : Distance(k, i) <= KeepAdjacent}}
                   IN  /\ spared \subseteq Window'
                       /\ hi' - lo' + 1 > MaxWindow => {chapters[lo'], chapters[hi']} \subseteq spared
    <2>1. active' \in Window => active' \in ChapterId
      BY <1>1 DEF WindowInv, WindowCovered
    <2>2. PICK c : c = active'
      OBVIOUS
    <2>3. QED
      BY <1>1, <2>1, <2>2, ReadSpares
  <1>2. QED
    BY <1>1, WindowHolds, PTL DEF Spec, TrimSpares
=============================================================================
