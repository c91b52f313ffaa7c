---------------------------- MODULE AppPartsProofs ---------------------------
(* Each part of the app keeps an inductive invariant, from which what the     *)
(* screens, the badges and the spinners show follows for every behaviour.     *)
EXTENDS AppParts, TLAPS, FiniteSetTheorems, WellFoundedInduction

LEMMA LeastNat ==
    ASSUME NEW T \in SUBSET Nat, T # {}
    PROVE  \E x \in T : \A y \in T : x <= y
  <1> DEFINE R == {ss \in Nat \X Nat : ss[1] < ss[2]}
  <1>1. IsWellFoundedOn(R, Nat)
    BY NatLessThanWellFounded, Zenon DEF OpToRel
  <1>2. \A i, j \in Nat : i < j => <<i, j>> \in R
    OBVIOUS
  <1>3. PICK x \in T : \A y \in T : ~(<<y, x>> \in R)
    <2> HIDE DEF R
    <2>1. QED
      BY <1>1, WFMin
  <1>4. \A y \in T : ~(y < x)
    <2> HIDE DEF R
    <2>1. QED
      BY <1>2, <1>3
  <1>5. QED
    BY <1>4

-----------------------------------------------------------------------------
(* The search screen.                                                        *)

GroupsOf == [Feed -> [items : Seq(Item), failed : BOOLEAN]]
LoaderOf == [at : {"none", "await", "timed"}, groups : GroupsOf, of : Nat, left : Nat]
ScreenOf == [groups : GroupsOf, of : Nat, loading : BOOLEAN, more : BOOLEAN, hasMore : BOOLEAN, error : BOOLEAN]
PumpState == {"unheard", "opening", "loop", "next", "closing", "threw", "closed", "failed"}

SearchTypes ==
    /\ token \in 0..MaxRuns /\ live \in BOOLEAN /\ (live => token # 0)
    /\ screen \in ScreenOf
    /\ loader \in [Screen!Run -> LoaderOf]
    /\ pump \in [Screen!Run -> PumpState] /\ canceled \in [Screen!Run -> BOOLEAN]
    /\ handles \in [Screen!Run -> [opened : Nat, closed : Nat]]
    /\ given \in [Screen!Run -> Seq(Screen!Event)] /\ taken \in [Screen!Run -> Nat]
    /\ \A r \in Screen!Run : taken[r] <= Len(given[r])
    /\ \A r \in Screen!Run : r > token => loader[r].at = "none" /\ given[r] = <<>> /\ taken[r] = 0
                                            /\ pump[r] = "unheard"
    /\ \A r \in Screen!Run : r = token /\ ~live => loader[r].at = "none"

LEMMA BlankType == /\ Screen!NoGroups \in GroupsOf /\ Screen!Blank \in ScreenOf /\ Screen!Idle \in LoaderOf
  <1>1. Screen!NoGroups \in GroupsOf
    BY DEF Screen!NoGroups, GroupsOf
  <1>2. QED
    BY <1>1 DEF Screen!Blank, ScreenOf, Screen!Idle, LoaderOf

LEMMA AddedType ==
    ASSUME NEW g \in GroupsOf, NEW e \in Screen!Event
    PROVE  Screen!Added(g, e) \in GroupsOf
  <1>1. e.feed \in Feed /\ (e.id = "error" \/ e.id \in Item)
    BY DEF Screen!Event
  <1>2. g[e.feed].items \in Seq(Item) /\ g[e.feed].failed \in BOOLEAN
    BY <1>1 DEF GroupsOf
  <1>3. CASE e.id = "error"
    BY <1>1, <1>2, <1>3 DEF GroupsOf, Screen!Added
  <1>4. CASE e.id # "error"
    <2>1. Append(g[e.feed].items, e.id) \in Seq(Item)
      BY <1>1, <1>2, <1>4
    <2>2. QED
      BY <1>1, <1>2, <1>4, <2>1 DEF GroupsOf, Screen!Added
  <1>5. QED
    BY <1>3, <1>4

LEMMA SearchInitTypes == Screen!SearchInit => SearchTypes
  <1> SUFFICES ASSUME Screen!SearchInit
               PROVE  SearchTypes
    OBVIOUS
  <1>1. loader \in [Screen!Run -> LoaderOf] /\ screen \in ScreenOf
    BY BlankType DEF Screen!SearchInit
  <1>2. handles \in [Screen!Run -> [opened : Nat, closed : Nat]]
    BY DEF Screen!SearchInit
  <1>3. /\ token \in 0..MaxRuns /\ live = FALSE
        /\ pump \in [Screen!Run -> PumpState] /\ canceled \in [Screen!Run -> BOOLEAN]
        /\ given \in [Screen!Run -> Seq(Screen!Event)] /\ taken \in [Screen!Run -> Nat]
    BY SearchBounds DEF Screen!SearchInit, PumpState
  <1>4. \A r \in Screen!Run : loader[r].at = "none" /\ given[r] = <<>> /\ taken[r] = 0
                                    /\ pump[r] = "unheard"
    BY DEF Screen!SearchInit, Screen!Idle
  <1>5. \A r \in Screen!Run : taken[r] <= Len(given[r])
    BY <1>4
  <1>6. QED
    BY <1>1, <1>2, <1>3, <1>4, <1>5 DEF SearchTypes

\* What a step of the native stream leaves alone, and how the events grow.
PumpSteps(r) ==
    /\ UNCHANGED <<token, screen, live, loader, taken>>
    /\ pump' = [pump EXCEPT ![r] = pump'[r]] /\ pump'[r] \in PumpState \ {"unheard"}
    /\ handles' = [handles EXCEPT ![r] = handles'[r]] /\ handles'[r] \in [opened : Nat, closed : Nat]
    /\ canceled' = canceled
    /\ \/ given' = given
       \/ /\ pump[r] = "next" /\ ~canceled[r]
          /\ \E b \in Seq(Screen!Event) : given' = [given EXCEPT ![r] = @ \o b]
    /\ pump'[r] \in {"closed", "failed"} => handles'[r].closed = handles'[r].opened
    /\ pump'[r] = "next" => ~canceled[r]
    /\ pump[r] \notin {"unheard", "closed", "failed"}

LEMMA PumpIsPump ==
    ASSUME SearchTypes, NEW r \in Screen!Run, Screen!PumpStep(r)
    PROVE  PumpSteps(r)
  <1>1. /\ pump \in [Screen!Run -> PumpState] /\ handles \in [Screen!Run -> [opened : Nat, closed : Nat]]
        /\ canceled \in [Screen!Run -> BOOLEAN] /\ given \in [Screen!Run -> Seq(Screen!Event)]
    BY DEF SearchTypes
  <1>2. UNCHANGED <<token, screen, live, loader>>
    BY DEF Screen!PumpStep
  <1>3. CASE Screen!Open(r)
    <2>1. handles[r] \in [opened : Nat, closed : Nat]
      BY <1>1
    <2>2. handles'[r] \in [opened : Nat, closed : Nat] /\ handles' = [handles EXCEPT ![r] = handles'[r]]
      BY <1>1, <1>3, <2>1 DEF Screen!Open
    <2>3. /\ pump[r] = "opening" /\ pump' = [pump EXCEPT ![r] = "loop"] /\ UNCHANGED <<canceled, given, taken>>
      BY <1>3 DEF Screen!Open, Screen!Stand
    <2>4. QED
      BY <1>1, <1>2, <2>2, <2>3 DEF PumpSteps, PumpState
  <1>4. CASE Screen!OpenFails(r) \/ Screen!Pull(r) \/ Screen!Leave(r)
    <2>1. UNCHANGED <<canceled, given, taken, handles>>
      BY <1>4 DEF Screen!OpenFails, Screen!Pull, Screen!Leave
    <2>2. \/ pump[r] = "opening" /\ pump' = [pump EXCEPT ![r] = "threw"]
          \/ pump[r] = "loop" /\ ~canceled[r] /\ pump' = [pump EXCEPT ![r] = "next"]
          \/ pump[r] = "loop" /\ pump' = [pump EXCEPT ![r] = "closing"]
      BY <1>4 DEF Screen!OpenFails, Screen!Pull, Screen!Leave, Screen!Stand
    <2>3. handles'[r] \in [opened : Nat, closed : Nat] /\ handles' = [handles EXCEPT ![r] = handles'[r]]
      BY <1>1, <2>1
    <2>4. /\ pump[r] \in {"opening", "loop"} /\ pump' = [pump EXCEPT ![r] = pump'[r]]
          /\ pump'[r] \in {"threw", "next", "closing"} /\ (pump'[r] = "next" => ~canceled[r])
      BY <1>1, <2>2
    <2>5. pump'[r] \in PumpState \ {"unheard"} /\ pump'[r] \notin {"closed", "failed"}
          /\ pump[r] \notin {"unheard", "closed", "failed"}
      BY <2>4 DEF PumpState
    <2>6. QED
      BY <1>2, <2>1, <2>3, <2>4, <2>5 DEF PumpSteps
  <1>5. CASE Screen!Answer(r)
    <2>1. \A b \in Screen!Batches(r) : b \in Seq(Screen!Event)
      <3>1. \A e \in Screen!Event : <<e>> \in Seq(Screen!Event)
        OBVIOUS
      <3>2. \A d, e \in Screen!Event : <<d, e>> \in Seq(Screen!Event)
        OBVIOUS
      <3>3. \A b \in Screen!Event \X Screen!Event : b = <<b[1], b[2]>> /\ b[1] \in Screen!Event /\ b[2] \in Screen!Event
        OBVIOUS
      <3>4. \A b \in Screen!Event \X Screen!Event : b \in Seq(Screen!Event)
        BY <3>2, <3>3, Zenon
      <3>5. QED
        BY <3>1, <3>4 DEF Screen!Batches
    <2>2. \/ given' = given
          \/ /\ ~canceled[r]
             /\ \E b \in Seq(Screen!Event) : given' = [given EXCEPT ![r] = @ \o b]
      BY <1>5, <2>1 DEF Screen!Answer
    <2>3. /\ pump[r] = "next" /\ \E l \in {"loop", "closing", "threw"} : pump' = [pump EXCEPT ![r] = l]
          /\ UNCHANGED <<canceled, handles, taken>>
      BY <1>5 DEF Screen!Answer, Screen!Stand
    <2>4. QED
      BY <1>1, <1>2, <2>2, <2>3 DEF PumpSteps, PumpState
  <1>6. CASE Screen!Close(r)
    <2>1. handles[r] \in [opened : Nat, closed : Nat]
      BY <1>1
    <2>2. /\ handles' = [handles EXCEPT ![r].closed = handles[r].opened]
          /\ pump[r] \in {"closing", "threw"} /\ UNCHANGED <<canceled, given, taken>>
          /\ \E l \in {"closed", "failed"} : pump' = [pump EXCEPT ![r] = l]
      BY <1>6 DEF Screen!Close, Screen!Closed, Screen!Stand
    <2>3. /\ handles'[r] \in [opened : Nat, closed : Nat] /\ handles'[r].closed = handles'[r].opened
          /\ handles' = [handles EXCEPT ![r] = handles'[r]]
      BY <1>1, <2>1, <2>2
    <2>4. QED
      BY <1>1, <1>2, <2>2, <2>3 DEF PumpSteps, PumpState
  <1>7. QED
    BY <1>3, <1>4, <1>5, <1>6 DEF Screen!PumpStep

LEMMA PumpKeepsTypes ==
    ASSUME SearchTypes, NEW r \in Screen!Run, PumpSteps(r)
    PROVE  SearchTypes'
  <1>1. /\ pump \in [Screen!Run -> PumpState] /\ handles \in [Screen!Run -> [opened : Nat, closed : Nat]]
        /\ canceled \in [Screen!Run -> BOOLEAN] /\ given \in [Screen!Run -> Seq(Screen!Event)]
        /\ taken \in [Screen!Run -> Nat]
    BY DEF SearchTypes
  <1>2. /\ pump' \in [Screen!Run -> PumpState] /\ handles' \in [Screen!Run -> [opened : Nat, closed : Nat]]
        /\ canceled' \in [Screen!Run -> BOOLEAN]
    BY <1>1 DEF PumpSteps
  <1>3. /\ given' \in [Screen!Run -> Seq(Screen!Event)]
        /\ \A q \in Screen!Run : taken[q] <= Len(given'[q])
        /\ \A q \in Screen!Run : q > token => given'[q] = <<>>
    <2>1. CASE given' = given
      BY <2>1, <1>1 DEF SearchTypes
    <2>2. CASE given' # given
      <3>1. PICK b \in Seq(Screen!Event) : given' = [given EXCEPT ![r] = @ \o b]
        BY <2>2 DEF PumpSteps
      <3>2. /\ given[r] \o b \in Seq(Screen!Event) /\ Len(given[r] \o b) >= Len(given[r])
        BY <1>1
      <3>3. ~(r > token) /\ token \in Nat
        BY DEF PumpSteps, SearchTypes
      <3>4. QED
        BY <1>1, <3>1, <3>2, <3>3 DEF SearchTypes
    <2>3. QED
      BY <2>1, <2>2
  <1>4. UNCHANGED <<token, live, screen, loader, taken>>
    BY DEF PumpSteps
  <1>5. \A q \in Screen!Run : q > token => pump'[q] = "unheard"
    BY <1>1 DEF PumpSteps, SearchTypes
  <1>6. QED
    BY <1>2, <1>3, <1>4, <1>5 DEF SearchTypes

\* A run leaves: what its stream gave is forgotten, and its handle closed.
LEMMA DisposeTypes ==
    ASSUME SearchTypes, Screen!Dispose
    PROVE  /\ given' \in [Screen!Run -> Seq(Screen!Event)] /\ taken' \in [Screen!Run -> Nat]
           /\ \A r \in Screen!Run : taken'[r] <= Len(given'[r])
           /\ \A r \in Screen!Run : r >= token => given'[r] = <<>> /\ taken'[r] = 0
           /\ canceled' \in [Screen!Run -> BOOLEAN]
           /\ handles' \in [Screen!Run -> [opened : Nat, closed : Nat]]
           /\ \A r \in Screen!Run : handles'[r] = handles[r] \/ handles'[r].closed = handles'[r].opened
           /\ \A r \in Screen!Run : canceled'[r] = canceled[r] \/ handles'[r].closed = handles'[r].opened
  <1>1. /\ handles \in [Screen!Run -> [opened : Nat, closed : Nat]] /\ canceled \in [Screen!Run -> BOOLEAN]
        /\ given \in [Screen!Run -> Seq(Screen!Event)] /\ taken \in [Screen!Run -> Nat]
    BY DEF SearchTypes
  <1>9. live => token \in Screen!Run
    BY SearchBounds DEF SearchTypes, Screen!Run
  <1>2. /\ given' \in [Screen!Run -> Seq(Screen!Event)] /\ taken' \in [Screen!Run -> Nat]
        /\ \A r \in Screen!Run : taken'[r] <= Len(given'[r])
        /\ \A r \in Screen!Run : r >= token => given'[r] = <<>> /\ taken'[r] = 0
    <2>1. /\ given' = [r \in Screen!Run |-> IF r = token THEN <<>> ELSE given[r]]
          /\ taken' = [r \in Screen!Run |-> IF r = token THEN 0 ELSE taken[r]]
      BY DEF Screen!Dispose
    <2>2. \A r \in Screen!Run : r >= token => r = token \/ r > token
      BY DEF SearchTypes, Screen!Run
    <2>3. QED
      BY <1>1, <2>1, <2>2 DEF SearchTypes
  <1>3. CASE live
    <2>1. handles[token] \in [opened : Nat, closed : Nat]
      BY <1>1, <1>9, <1>3
    <2>2. /\ handles' = [handles EXCEPT ![token].closed = handles[token].opened]
          /\ canceled' = [canceled EXCEPT ![token] = TRUE]
      BY <1>3 DEF Screen!Dispose, Screen!Closed
    <2>3. /\ handles'[token] \in [opened : Nat, closed : Nat] /\ handles'[token].closed = handles'[token].opened
          /\ handles' = [handles EXCEPT ![token] = handles'[token]]
      BY <1>1, <1>9, <1>3, <2>1, <2>2
    <2>4. QED
      BY <1>1, <1>2, <1>9, <1>3, <2>2, <2>3
  <1>4. CASE ~live
    BY <1>1, <1>2, <1>4 DEF Screen!Dispose
  <1>5. QED
    BY <1>3, <1>4 DEF SearchTypes

-----------------------------------------------------------------------------
(* The groups that a sequence of events makes.                               *)

Of(s, f, x) == {i \in DOMAIN s : s[i].feed = f /\ s[i].id = x}

\* A book that came has a first event, and that is where FirstAt points.
LEMMA FirstIs ==
    ASSUME NEW s \in Seq(Screen!Event), NEW f, NEW x, Of(s, f, x) # {}
    PROVE  /\ Screen!FirstAt(s, f, x) \in Of(s, f, x)
           /\ \A j \in Of(s, f, x) : Screen!FirstAt(s, f, x) <= j
  <1> DEFINE IsFirst(i) == /\ s[i].feed = f /\ s[i].id = x
                        /\ \A j \in 1..(i - 1) : ~(s[j].feed = f /\ s[j].id = x)
  <1>1. Of(s, f, x) \in SUBSET Nat
    BY DEF Of
  <1>2. PICK k \in Of(s, f, x) : \A j \in Of(s, f, x) : k <= j
    BY <1>1, LeastNat
  <1>3. k \in DOMAIN s /\ IsFirst(k)
    <2>1. k \in DOMAIN s /\ s[k].feed = f /\ s[k].id = x /\ k \in Nat
      BY DEF Of
    <2>2. ASSUME NEW j \in 1..(k - 1) PROVE ~(s[j].feed = f /\ s[j].id = x)
      <3>1. j \in DOMAIN s /\ j < k
        BY <2>1
      <3>2. j \notin Of(s, f, x)
        BY <1>2, <3>1, <2>1
      <3>3. QED
        BY <3>1, <3>2 DEF Of
    <2>3. QED
      BY <2>1, <2>2
  <1>4. ASSUME NEW i \in DOMAIN s, IsFirst(i) PROVE i = k
    <2>1. i \in Of(s, f, x) /\ i \in Nat /\ k \in Nat
      BY <1>4 DEF Of
    <2>2. k <= i /\ ~(k < i)
      BY <1>2, <1>3, <1>4, <2>1
    <2>3. QED
      BY <2>1, <2>2
  <1>5. Screen!FirstAt(s, f, x) = CHOOSE i \in DOMAIN s : IsFirst(i)
    BY DEF Screen!FirstAt
  <1>6. Screen!FirstAt(s, f, x) = k
    <2> HIDE DEF IsFirst
    <2>1. QED
      BY <1>3, <1>4, <1>5
  <1>7. QED
    BY <1>2, <1>6

LEMMA FirstUnique ==
    ASSUME NEW s \in Seq(Screen!Event), NEW f, NEW x, NEW k \in Of(s, f, x), \A j \in Of(s, f, x) : k <= j
    PROVE  Screen!FirstAt(s, f, x) = k
  <1>1. Screen!FirstAt(s, f, x) \in Of(s, f, x) /\ \A j \in Of(s, f, x) : Screen!FirstAt(s, f, x) <= j
    BY FirstIs
  <1>2. \A j \in Of(s, f, x) : j \in Nat
    BY DEF Of
  <1>3. QED
    BY <1>1, <1>2

LEMMA BooksAre ==
    ASSUME NEW s, NEW f
    PROVE  \A x : x \in Screen!Books(s, f) <=> x # "error" /\ Of(s, f, x) # {}
  BY DEF Screen!Books, Of

LEMMA OfAppend ==
    ASSUME NEW s \in Seq(Screen!Event), NEW e \in Screen!Event, NEW f, NEW x
    PROVE  Of(Append(s, e), f, x) = Of(s, f, x) \cup (IF e.feed = f /\ e.id = x THEN {Len(s) + 1} ELSE {})
  <1>1. Append(s, e) \in Seq(Screen!Event) /\ DOMAIN Append(s, e) = DOMAIN s \cup {Len(s) + 1}
        /\ Append(s, e)[Len(s) + 1] = e /\ \A i \in DOMAIN s : Append(s, e)[i] = s[i]
    OBVIOUS
  <1> DEFINE t == Append(s, e)
  <1>2. DOMAIN t = DOMAIN s \cup {Len(s) + 1} /\ t[Len(s) + 1] = e /\ \A i \in DOMAIN s : t[i] = s[i]
    BY <1>1
  <1> HIDE DEF t
  <1>3. Of(t, f, x) = Of(s, f, x) \cup (IF e.feed = f /\ e.id = x THEN {Len(s) + 1} ELSE {})
    BY <1>2 DEF Of
  <1>4. QED
    BY <1>3 DEF t

\* The first event of a book stays the first.
LEMMA FirstStays ==
    ASSUME NEW s \in Seq(Screen!Event), NEW e \in Screen!Event, NEW f, NEW x, Of(s, f, x) # {}
    PROVE  Screen!FirstAt(Append(s, e), f, x) = Screen!FirstAt(s, f, x)
  <1> DEFINE k == Screen!FirstAt(s, f, x)
  <1>1. k \in Of(s, f, x) /\ \A j \in Of(s, f, x) : k <= j
    BY FirstIs
  <1>2. k \in DOMAIN s
    BY <1>1 DEF Of
  <1>3. k \in Of(Append(s, e), f, x) /\ \A j \in Of(Append(s, e), f, x) : k <= j
    BY <1>1, <1>2, OfAppend
  <1>4. Append(s, e) \in Seq(Screen!Event)
    OBVIOUS
  <1> HIDE DEF k
  <1>5. Screen!FirstAt(Append(s, e), f, x) = k
    BY <1>3, <1>4, FirstUnique
  <1>6. QED
    BY <1>5 DEF k

LEMMA BooksFinite ==
    ASSUME NEW s \in Seq(Screen!Event), NEW f
    PROVE  IsFiniteSet(Screen!Books(s, f))
  <1> DEFINE ids == [i \in DOMAIN s |-> s[i].id]
             all == {s[i].id : i \in DOMAIN s}
  <1>1. IsFiniteSet(DOMAIN s)
    <2>1. DOMAIN s = 1..Len(s) /\ Len(s) \in Nat
      OBVIOUS
    <2>2. QED
      BY <2>1, FS_Interval
  <1>2. ids \in Surjection(DOMAIN s, all)
    BY DEF Surjection
  <1>3. IsFiniteSet(all)
    <2> HIDE DEF ids, all
    <2>1. QED
      BY <1>1, <1>2, FS_Surjection
  <1>4. Screen!Books(s, f) \in SUBSET all
    BY DEF Screen!Books
  <1>5. QED
    <2> HIDE DEF ids, all
    <2>1. QED
      BY <1>3, <1>4, FS_Subset

(* A group shows the events of its feed; it holds nothing else.              *)
GroupMade(group, s, f) ==
    /\ group.failed <=> \E i \in DOMAIN s : s[i].feed = f /\ s[i].id = "error"
    /\ Len(group.items) = Cardinality(Screen!Books(s, f))
    /\ \A x \in Screen!Books(s, f) : \E i \in DOMAIN group.items : group.items[i] = x
    /\ \A i, j \in DOMAIN group.items :
          i < j => Screen!FirstAt(s, f, group.items[i]) < Screen!FirstAt(s, f, group.items[j])
    /\ \A i \in DOMAIN group.items : group.items[i] \in Screen!Books(s, f)
Made(g, s) == \A f \in Feed : GroupMade(g[f], s, f)

\* Cardinality means the same inside the instance.
LEMMA ScreenCardinality == \A S : Screen!Cardinality(S) = Cardinality(S)
  BY Zenon DEF Screen!Cardinality, Cardinality

LEMMA MadeShows ==
    ASSUME NEW g, NEW s, Made(g, s)
    PROVE  Screen!ShowsEvents(g, s)
  <1> SUFFICES ASSUME NEW f \in Feed
               PROVE  /\ g[f].failed <=> \E i \in DOMAIN s : s[i].feed = f /\ s[i].id = "error"
                      /\ Len(g[f].items) = Cardinality(Screen!Books(s, f))
                      /\ \A x \in Screen!Books(s, f) : \E i \in DOMAIN g[f].items : g[f].items[i] = x
                      /\ \A i, j \in DOMAIN g[f].items :
                            i < j => Screen!FirstAt(s, f, g[f].items[i]) < Screen!FirstAt(s, f, g[f].items[j])
    BY ScreenCardinality, Zenon DEF Screen!ShowsEvents
  <1>1. GroupMade(g[f], s, f)
    BY DEF Made
  <1>2. QED
    BY <1>1, Zenon DEF GroupMade

\* The empty groups are made of no events.
LEMMA NoneMade == Made(Screen!NoGroups, <<>>)
  <1> SUFFICES ASSUME NEW f \in Feed
               PROVE  GroupMade(Screen!NoGroups[f], <<>>, f)
    BY DEF Made
  <1>1. Screen!NoGroups[f] = [items |-> <<>>, failed |-> FALSE]
    BY DEF Screen!NoGroups
  <1>2. Screen!Books(<<>>, f) = {}
    BY DEF Screen!Books
  <1>3. Cardinality({}) = 0
    BY FS_EmptySet
  <1>4. QED
    BY <1>1, <1>2, <1>3 DEF GroupMade

\* A group after an event of its feed: the event is added if it is a new book.
LEMMA GroupAdds ==
    ASSUME NEW s \in Seq(Screen!Event), NEW e \in Screen!Event, NEW f \in Feed,
           NEW group \in [items : Seq(Item), failed : BOOLEAN], GroupMade(group, s, f),
           NEW made \in [items : Seq(Item), failed : BOOLEAN],
           made.failed = (group.failed \/ (e.feed = f /\ e.id = "error")),
           \/ /\ made.items = group.items
              /\ e.feed # f \/ e.id = "error" \/ \E i \in DOMAIN group.items : group.items[i] = e.id
           \/ /\ made.items = Append(group.items, e.id) /\ e.feed = f /\ e.id # "error"
              /\ ~\E i \in DOMAIN group.items : group.items[i] = e.id
    PROVE  GroupMade(made, Append(s, e), f)
  <1> DEFINE t == Append(s, e)
  <1>1. /\ t \in Seq(Screen!Event) /\ DOMAIN t = DOMAIN s \cup {Len(s) + 1} /\ t[Len(s) + 1] = e
        /\ \A i \in DOMAIN s : t[i] = s[i] /\ i \in Nat /\ i < Len(s) + 1
    OBVIOUS
  <1>2. \A x : Of(t, f, x) = Of(s, f, x) \cup (IF e.feed = f /\ e.id = x THEN {Len(s) + 1} ELSE {})
    BY OfAppend
  <1>3. \A x : Of(s, f, x) # {} => Screen!FirstAt(t, f, x) = Screen!FirstAt(s, f, x)
    BY FirstStays
  <1> HIDE DEF t
  <1>4. made.failed <=> \E i \in DOMAIN t : t[i].feed = f /\ t[i].id = "error"
    <2>1. group.failed <=> \E i \in DOMAIN s : s[i].feed = f /\ s[i].id = "error"
      BY DEF GroupMade
    <2>2. (\E i \in DOMAIN t : t[i].feed = f /\ t[i].id = "error") <=>
          (\E i \in DOMAIN s : s[i].feed = f /\ s[i].id = "error") \/ (e.feed = f /\ e.id = "error")
      BY <1>1
    <2>3. QED
      BY <2>1, <2>2
  <1>5. \A x : x \in Screen!Books(t, f) <=> x \in Screen!Books(s, f) \/ (e.feed = f /\ e.id = x /\ x # "error")
    <2>1. \A x : x \in Screen!Books(t, f) <=> x # "error" /\ Of(t, f, x) # {}
      BY BooksAre
    <2>2. \A x : x \in Screen!Books(s, f) <=> x # "error" /\ Of(s, f, x) # {}
      BY BooksAre
    <2>3. QED
      BY <1>2, <2>1, <2>2
  <1>6. /\ Len(group.items) = Cardinality(Screen!Books(s, f))
        /\ \A x \in Screen!Books(s, f) : \E i \in DOMAIN group.items : group.items[i] = x
        /\ \A i, j \in DOMAIN group.items :
              i < j => Screen!FirstAt(s, f, group.items[i]) < Screen!FirstAt(s, f, group.items[j])
        /\ \A i \in DOMAIN group.items : group.items[i] \in Screen!Books(s, f)
    BY DEF GroupMade
  <1>7. \A i \in DOMAIN group.items : /\ Of(s, f, group.items[i]) # {}
                                      /\ Screen!FirstAt(t, f, group.items[i]) = Screen!FirstAt(s, f, group.items[i])
                                      /\ Screen!FirstAt(s, f, group.items[i]) \in DOMAIN s
    <2>1. \A i \in DOMAIN group.items : Of(s, f, group.items[i]) # {}
      BY <1>6, BooksAre
    <2>2. \A i \in DOMAIN group.items : Screen!FirstAt(s, f, group.items[i]) \in Of(s, f, group.items[i])
      BY <2>1, FirstIs
    <2>3. QED
      BY <1>3, <2>1, <2>2 DEF Of
  <1>8. CASE made.items = group.items
    <2>1. \A x : x \in Screen!Books(t, f) <=> x \in Screen!Books(s, f)
      <3>1. e.feed = f /\ e.id # "error" => e.id \in Screen!Books(s, f)
        <4>1. CASE \E i \in DOMAIN group.items : group.items[i] = e.id
          BY <4>1, <1>6
        <4>2. CASE e.feed = f /\ e.id # "error" /\ ~\E i \in DOMAIN group.items : group.items[i] = e.id
          <5>1. made.items = Append(group.items, e.id) /\ group.items \in Seq(Item)
            BY <4>2
          <5>2. Len(Append(group.items, e.id)) # Len(group.items)
            BY <5>1
          <5>3. QED
            BY <5>1, <5>2, <1>8
        <4>3. QED
          BY <4>1, <4>2
      <3>2. QED
        BY <1>5, <3>1
    <2>2. Screen!Books(t, f) = Screen!Books(s, f)
      BY <2>1, Zenon
    <2>3. QED
      BY <1>4, <1>6, <1>7, <1>8, <2>2 DEF GroupMade, t
  <1>9. CASE made.items # group.items
    <2>1. /\ made.items = Append(group.items, e.id) /\ e.feed = f /\ e.id # "error"
          /\ ~\E i \in DOMAIN group.items : group.items[i] = e.id
      BY <1>9
    <2>2. e.id \notin Screen!Books(s, f)
      BY <1>6, <2>1
    <2>3. Screen!Books(t, f) = Screen!Books(s, f) \cup {e.id}
      BY <1>5, <2>1
    <2>4. Cardinality(Screen!Books(t, f)) = Cardinality(Screen!Books(s, f)) + 1
      BY <2>2, <2>3, BooksFinite, FS_AddElement
    <2>5. Of(t, f, e.id) = {Len(s) + 1}
      <3>1. Of(s, f, e.id) = {}
        BY <2>1, <2>2, BooksAre
      <3>2. QED
        BY <1>2, <2>1, <3>1
    <2>6. Screen!FirstAt(t, f, e.id) = Len(s) + 1
      <3>1. Len(s) + 1 \in Of(t, f, e.id) /\ \A j \in Of(t, f, e.id) : Len(s) + 1 <= j
        BY <2>5
      <3>2. QED
        BY <1>1, <3>1, FirstUnique
    <2> DEFINE list == made.items
               n == Len(group.items)
    <2>7. /\ Len(list) = n + 1 /\ DOMAIN list = 1..(n + 1) /\ list[n + 1] = e.id /\ n \in Nat
          /\ \A i \in 1..n : list[i] = group.items[i]
          /\ DOMAIN group.items = 1..n
      <3>1. group.items \in Seq(Item) /\ e.id \in Item
        BY <2>1 DEF Screen!Event
      <3>2. QED
        BY <2>1, <3>1
    <2> HIDE DEF list, n
    <2>8. Len(list) = Cardinality(Screen!Books(t, f))
      BY <1>6, <2>4, <2>7 DEF n
    <2>9. \A x \in Screen!Books(t, f) : \E i \in DOMAIN list : list[i] = x
      <3>1. ASSUME NEW x \in Screen!Books(t, f) PROVE \E i \in DOMAIN list : list[i] = x
        <4>1. CASE x = e.id
          <5>1. n + 1 \in DOMAIN list /\ list[n + 1] = e.id
            BY <2>7
          <5>2. QED
            BY <4>1, <5>1
        <4>2. CASE x # e.id
          <5>1. PICK i \in DOMAIN group.items : group.items[i] = x
            BY <1>6, <2>3, <4>2
          <5>2. QED
            BY <2>7, <5>1
        <4>3. QED
          BY <4>1, <4>2
      <3>2. QED
        BY <3>1
    <2>10. \A i \in DOMAIN list : list[i] \in Screen!Books(t, f)
      BY <1>6, <2>3, <2>7
    <2>11. \A i, j \in DOMAIN list : i < j => Screen!FirstAt(t, f, list[i]) < Screen!FirstAt(t, f, list[j])
      <3> SUFFICES ASSUME NEW i \in 1..(n + 1), NEW j \in 1..(n + 1), i < j
                   PROVE  Screen!FirstAt(t, f, list[i]) < Screen!FirstAt(t, f, list[j])
        BY <2>7
      <3>1. i \in 1..n /\ i \in DOMAIN group.items
        BY <2>7
      <3>2. /\ Screen!FirstAt(t, f, list[i]) = Screen!FirstAt(s, f, group.items[i])
            /\ Screen!FirstAt(s, f, group.items[i]) \in DOMAIN s
        BY <1>7, <2>7, <3>1
      <3>3. CASE j = n + 1
        BY <1>1, <2>6, <2>7, <3>2, <3>3
      <3>4. CASE j # n + 1
        <4>1. j \in 1..n /\ j \in DOMAIN group.items
          BY <2>7, <3>4
        <4>2. QED
          BY <1>6, <1>7, <2>7, <3>1, <3>2, <4>1
      <3>5. QED
        BY <3>3, <3>4
    <2>12. QED
      BY <1>4, <2>8, <2>9, <2>10, <2>11 DEF GroupMade, list, t
  <1>10. QED
    BY <1>8, <1>9

LEMMA AddedMade ==
    ASSUME NEW s \in Seq(Screen!Event), NEW e \in Screen!Event, NEW g \in GroupsOf, Made(g, s)
    PROVE  Made(Screen!Added(g, e), Append(s, e))
  <1> SUFFICES ASSUME NEW f \in Feed
               PROVE  GroupMade(Screen!Added(g, e)[f], Append(s, e), f)
    BY DEF Made
  <1>1. /\ e.feed \in Feed /\ (e.id = "error" \/ e.id \in Item)
        /\ Screen!Added(g, e) \in GroupsOf
    BY AddedType DEF Screen!Event
  <1> DEFINE group == g[f]
             made == Screen!Added(g, e)[f]
  <1>2. /\ group \in [items : Seq(Item), failed : BOOLEAN] /\ made \in [items : Seq(Item), failed : BOOLEAN]
        /\ g[e.feed].items \in Seq(Item)
    BY <1>1 DEF GroupsOf
  <1>3. GroupMade(group, s, f)
    BY DEF Made
  <1>4. /\ made.failed = (group.failed \/ (e.feed = f /\ e.id = "error"))
        /\ \/ /\ made.items = group.items
              /\ e.feed # f \/ e.id = "error" \/ \E i \in DOMAIN group.items : group.items[i] = e.id
           \/ /\ made.items = Append(group.items, e.id) /\ e.feed = f /\ e.id # "error"
              /\ ~\E i \in DOMAIN group.items : group.items[i] = e.id
    <2>1. CASE e.id = "error"
      <3>1. made = IF e.feed = f THEN [group EXCEPT !.failed = TRUE] ELSE group
        BY <1>1, <2>1 DEF Screen!Added, GroupsOf
      <3>2. QED
        BY <1>2, <2>1, <3>1
    <2>2. CASE e.id # "error" /\ Screen!Has(g, e)
      <3>1. made = group
        BY <1>1, <2>2 DEF Screen!Added
      <3>2. QED
        BY <1>2, <2>2, <3>1 DEF Screen!Has
    <2>3. CASE e.id # "error" /\ ~Screen!Has(g, e)
      <3>1. made = IF e.feed = f THEN [group EXCEPT !.items = Append(group.items, e.id)] ELSE group
        BY <1>1, <2>3 DEF Screen!Added, GroupsOf
      <3>2. QED
        BY <1>2, <2>3, <3>1 DEF Screen!Has
    <2>4. QED
      BY <2>1, <2>2, <2>3
  <1> HIDE DEF group, made
  <1>5. GroupMade(made, Append(s, e), f)
    BY <1>2, <1>3, <1>4, GroupAdds
  <1>6. QED
    BY <1>5 DEF made

-----------------------------------------------------------------------------
(* What is on screen, and what a page that is loaded has so far.             *)
Upto(r, n) == SubSeq(given[r], 1, n)
ScreenMade == live =>
    /\ screen.of <= taken[token]
    /\ Made(screen.groups, Upto(token, screen.of))
    /\ loader[token].at = "none" => screen.of = taken[token]
    /\ ~screen.hasMore => /\ screen.of = Len(given[token]) /\ pump[token] \in {"closed", "failed"}
                          /\ loader[token].at = "none"
LoaderMade == live /\ loader[token].at # "none" =>
    /\ loader[token].left # 0 /\ loader[token].of = taken[token]
    /\ Made(loader[token].groups, Upto(token, taken[token]))
SearchInv == /\ SearchTypes /\ Screen!SpinnerDriven /\ Screen!HandlesReleased
             /\ ScreenMade /\ LoaderMade

\* A step of the notifier on the page of the current run: l is what is left of
\* the load, s what the screen shows and n the events that it was answered with.
PageSteps(l, s, n) ==
    /\ live /\ UNCHANGED <<token, live, pump, canceled, handles, given>>
    /\ loader' = [loader EXCEPT ![token] = l] /\ screen' = s
    /\ taken' = [taken EXCEPT ![token] = n]
    /\ l \in LoaderOf /\ s \in ScreenOf /\ n \in Nat /\ n <= Len(given[token])
    /\ (s.loading \/ s.more) = (l.at # "none")
    /\ s.of <= n /\ Made(s.groups, Upto(token, s.of))
    /\ l.at = "none" => s.of = n
    /\ l.at # "none" => s.hasMore /\ l.left # 0 /\ l.of = n /\ Made(l.groups, Upto(token, n))
    /\ ~s.hasMore => n = Len(given[token]) /\ pump[token] \in {"closed", "failed"}

LEMMA PageStepKeeps ==
    ASSUME SearchInv, NEW l, NEW s, NEW n, PageSteps(l, s, n)
    PROVE  SearchInv'
  <1>1. token \in Screen!Run /\ token' = token /\ live' = live /\ live
    BY SearchBounds DEF SearchInv, SearchTypes, PageSteps, Screen!Run
  <1>2. /\ loader' = [loader EXCEPT ![token] = l] /\ screen' = s /\ taken' = [taken EXCEPT ![token] = n]
        /\ l \in LoaderOf /\ s \in ScreenOf /\ n \in Nat /\ n <= Len(given[token])
        /\ UNCHANGED <<token, live, pump, canceled, handles, given>>
    BY DEF PageSteps
  <1>3. loader \in [Screen!Run -> LoaderOf] /\ taken \in [Screen!Run -> Nat]
    BY DEF SearchInv, SearchTypes
  <1>4. loader'[token] = l /\ taken'[token] = n
    BY <1>1, <1>2, <1>3
  <1>5. SearchTypes'
    <2>1. loader' \in [Screen!Run -> LoaderOf] /\ taken' \in [Screen!Run -> Nat]
      BY <1>1, <1>2, <1>3
    <2>2. \A r \in Screen!Run : taken'[r] <= Len(given[r])
      BY <1>1, <1>2, <1>3 DEF SearchInv, SearchTypes
    <2>3. \A r \in Screen!Run : r > token => loader'[r].at = "none" /\ taken'[r] = 0
      BY <1>1, <1>2, <1>3 DEF SearchInv, SearchTypes, Screen!Run
    <2>4. QED
      BY <1>1, <1>2, <2>1, <2>2, <2>3 DEF SearchInv, SearchTypes
  <1>6. Screen!SpinnerDriven'
    BY <1>1, <1>2, <1>4 DEF PageSteps, Screen!SpinnerDriven, Screen!Spinning, Screen!Awaits
  <1>7. Screen!HandlesReleased'
    BY <1>2 DEF SearchInv, Screen!HandlesReleased
  <1>8. ScreenMade' /\ LoaderMade'
    <2>1. \A m : Upto(token, m)' = Upto(token, m)
      BY <1>2 DEF Upto
    <2>2. /\ Upto(token, screen.of)' = Upto(token, s.of)
          /\ Upto(token, taken[token])' = Upto(token, n)
      BY <1>1, <1>2, <1>4 DEF Upto
    <2>3. ScreenMade'
      BY <1>1, <1>2, <1>4, <2>2 DEF PageSteps, ScreenMade
    <2>4. LoaderMade'
      BY <1>1, <1>2, <1>4, <2>2 DEF PageSteps, LoaderMade
    <2>5. QED
      BY <2>3, <2>4
  <1>9. QED
    BY <1>5, <1>6, <1>7, <1>8 DEF SearchInv

\* An outdated page ends, or the stream of a run takes a step: the screen and
\* the page of the current run stay.
LEMMA OutdatedKeeps ==
    ASSUME SearchInv, NEW r \in Screen!Run, Screen!Outdated(r)
    PROVE  SearchInv'
  <1>1. /\ r # token /\ loader' = [loader EXCEPT ![r] = Screen!Idle]
        /\ UNCHANGED <<token, screen, live, pump, canceled, handles, given, taken>>
    BY DEF Screen!Outdated, Screen!Load, Screen!streams
  <1>2. loader \in [Screen!Run -> LoaderOf] /\ Screen!Idle \in LoaderOf /\ Screen!Idle.at = "none"
    BY BlankType DEF SearchInv, SearchTypes, Screen!Idle
  <1>3. loader' \in [Screen!Run -> LoaderOf] /\ loader'[token] = loader[token]
        /\ \A q \in Screen!Run : loader'[q] = loader[q] \/ loader'[q].at = "none"
    BY <1>1, <1>2
  <1>4. SearchTypes'
    BY <1>1, <1>3 DEF SearchInv, SearchTypes
  <1>5. Screen!SpinnerDriven'
    BY <1>1, <1>3 DEF SearchInv, Screen!SpinnerDriven, Screen!Spinning, Screen!Awaits
  <1>6. Screen!HandlesReleased'
    BY <1>1 DEF SearchInv, Screen!HandlesReleased
  <1>7. ScreenMade' /\ LoaderMade'
    BY <1>1, <1>3 DEF SearchInv, ScreenMade, LoaderMade, Upto
  <1>8. QED
    BY <1>4, <1>5, <1>6, <1>7 DEF SearchInv

LEMMA PumpKeeps ==
    ASSUME SearchInv, NEW r \in Screen!Run, Screen!PumpStep(r)
    PROVE  SearchInv'
  <1>1. PumpSteps(r) /\ SearchTypes
    BY PumpIsPump DEF SearchInv
  <1>2. SearchTypes'
    BY <1>1, PumpKeepsTypes
  <1>3. UNCHANGED <<token, screen, live, loader, taken, canceled>>
    BY <1>1 DEF PumpSteps
  <1>4. /\ pump \in [Screen!Run -> PumpState] /\ handles \in [Screen!Run -> [opened : Nat, closed : Nat]]
        /\ given \in [Screen!Run -> Seq(Screen!Event)] /\ taken \in [Screen!Run -> Nat]
        /\ (live => token \in Screen!Run) /\ screen.of \in Nat
    BY <1>1, SearchBounds DEF SearchTypes, Screen!Run, ScreenOf
  <1>5. Screen!SpinnerDriven'
    BY <1>3 DEF SearchInv, Screen!SpinnerDriven, Screen!Spinning, Screen!Awaits
  <1>6. Screen!HandlesReleased'
    <2> SUFFICES ASSUME NEW q \in Screen!Run
                 PROVE  /\ pump'[q] \in {"closed", "failed"} => handles'[q].closed = handles'[q].opened
                        /\ canceled[q] /\ pump'[q] = "next" => handles'[q].closed = handles'[q].opened
      BY <1>3 DEF Screen!HandlesReleased
    <2>1. CASE q = r
      BY <1>1, <2>1 DEF PumpSteps
    <2>2. CASE q # r
      <3>1. pump'[q] = pump[q] /\ handles'[q] = handles[q]
        BY <1>1, <1>4, <2>2 DEF PumpSteps
      <3>2. QED
        BY <3>1 DEF SearchInv, Screen!HandlesReleased
    <2>3. QED
      BY <2>1, <2>2
  <1>7. \A m \in Nat : live /\ m <= taken[token] => Upto(token, m)' = Upto(token, m)
    <2> SUFFICES ASSUME NEW m \in Nat, live, m <= taken[token]
                 PROVE  SubSeq(given'[token], 1, m) = SubSeq(given[token], 1, m)
      BY <1>3 DEF Upto
    <2>1. taken[token] <= Len(given[token])
      BY <1>1, <1>4 DEF SearchTypes
    <2>2. CASE given'[token] = given[token]
      BY <2>2
    <2>3. CASE given'[token] # given[token]
      <3>1. PICK b \in Seq(Screen!Event) : given'[token] = given[token] \o b
        BY <1>1, <1>4, <2>3 DEF PumpSteps
      <3>2. m <= Len(given[token]) /\ given[token] \in Seq(Screen!Event)
        BY <1>4, <2>1
      <3>3. QED
        BY <3>1, <3>2
    <2>4. QED
      BY <2>2, <2>3
  <1>8. live /\ ~screen.hasMore => given'[token] = given[token] /\ pump'[token] = pump[token]
    <2> SUFFICES ASSUME live, ~screen.hasMore
                 PROVE  given'[token] = given[token] /\ pump'[token] = pump[token]
      OBVIOUS
    <2>1. pump[token] \in {"closed", "failed"}
      BY DEF SearchInv, ScreenMade
    <2>2. r # token
      BY <1>1, <2>1 DEF PumpSteps
    <2>3. QED
      BY <1>1, <1>4, <2>2 DEF PumpSteps
  <1>9. ScreenMade'
    <2> SUFFICES ASSUME live
                 PROVE  ScreenMade'
      BY <1>3 DEF ScreenMade
    <2>1. ScreenMade
      BY DEF SearchInv
    <2>2. Upto(token, screen.of)' = Upto(token, screen.of)
      <3>1. screen.of <= taken[token]
        BY <2>1 DEF ScreenMade
      <3>2. SubSeq(given'[token], 1, screen.of) = SubSeq(given[token], 1, screen.of)
        BY <1>3, <1>4, <1>7, <3>1 DEF Upto
      <3>3. QED
        BY <1>3, <3>2 DEF Upto
    <2>3. QED
      BY <1>3, <1>8, <2>1, <2>2 DEF ScreenMade
  <1>10. LoaderMade'
    <2> SUFFICES ASSUME live, loader[token].at # "none"
                 PROVE  LoaderMade'
      BY <1>3 DEF LoaderMade
    <2>1. LoaderMade
      BY DEF SearchInv
    <2>2. Upto(token, taken[token])' = Upto(token, taken[token])
      <3>1. SubSeq(given'[token], 1, taken[token]) = SubSeq(given[token], 1, taken[token])
        BY <1>3, <1>4, <1>7 DEF Upto
      <3>2. QED
        BY <1>3, <3>1 DEF Upto
    <2>3. QED
      BY <1>3, <2>1, <2>2 DEF LoaderMade
  <1>11. QED
    BY <1>2, <1>5, <1>6, <1>9, <1>10 DEF SearchInv

LEMMA SubSeqGrows ==
    ASSUME NEW S, NEW s \in Seq(S), NEW n \in Nat, n < Len(s)
    PROVE  SubSeq(s, 1, n + 1) = Append(SubSeq(s, 1, n), s[n + 1])
  <1> DEFINE a == SubSeq(s, 1, n)
             b == SubSeq(s, 1, n + 1)
  <1>1. a \in Seq(S) /\ Len(a) = n /\ \A i \in 1..n : a[i] = s[i]
    OBVIOUS
  <1>2. b \in Seq(S) /\ Len(b) = n + 1 /\ \A i \in 1..(n + 1) : b[i] = s[i]
    OBVIOUS
  <1> HIDE DEF a, b
  <1>3. Append(a, s[n + 1]) \in Seq(S) /\ Len(Append(a, s[n + 1])) = n + 1
        /\ \A i \in 1..(n + 1) : Append(a, s[n + 1])[i] = s[i]
    BY <1>1
  <1> DEFINE c == Append(a, s[n + 1])
  <1>4. c \in Seq(S) /\ Len(c) = n + 1 /\ \A i \in 1..(n + 1) : c[i] = s[i]
    BY <1>3
  <1> HIDE DEF c
  <1>5. b = c
    BY <1>2, <1>4
  <1>6. QED
    BY <1>5 DEF a, b, c

\* The page of the current run, while it is awaited.
LEMMA CurrentPage ==
    ASSUME SearchInv, live
    PROVE  /\ token \in Screen!Run /\ loader[token] \in LoaderOf /\ screen \in ScreenOf
           /\ given[token] \in Seq(Screen!Event) /\ taken[token] \in Nat /\ taken[token] <= Len(given[token])
           /\ (screen.loading \/ screen.more) = (loader[token].at # "none")
  BY SearchBounds DEF SearchInv, SearchTypes, Screen!SpinnerDriven, Screen!Spinning, Screen!Awaits,
                      Screen!Run, ScreenOf

LEMMA LoadMoreKeeps ==
    ASSUME SearchInv, Screen!LoadMore
    PROVE  SearchInv'
  <1> DEFINE l == [at |-> "await", groups |-> screen.groups, of |-> screen.of, left |-> PageSize]
             s == [screen EXCEPT !.more = TRUE]
  <1>1. /\ live /\ screen.hasMore /\ ~Screen!Spinning
        /\ loader' = [loader EXCEPT ![token] = l] /\ screen' = s
        /\ UNCHANGED <<token, live, pump, canceled, handles, given, taken>>
    BY DEF Screen!LoadMore, Screen!Load, Screen!streams
  <1>2. token \in Screen!Run /\ screen \in ScreenOf /\ taken[token] \in Nat /\ taken[token] <= Len(given[token])
    BY <1>1, CurrentPage
  <1>3. loader[token].at = "none"
    BY <1>1, CurrentPage DEF Screen!Spinning
  <1>4. l \in LoaderOf /\ l.at # "none" /\ l.left # 0 /\ l.of = screen.of /\ l.groups = screen.groups
    BY <1>2, SearchBounds DEF LoaderOf, ScreenOf
  <1>5. s \in ScreenOf /\ s.more /\ s.hasMore /\ s.of = screen.of /\ s.groups = screen.groups
    BY <1>1, <1>2 DEF ScreenOf
  <1>6. taken' = [taken EXCEPT ![token] = taken[token]]
    BY <1>1, <1>2 DEF SearchInv, SearchTypes
  <1>7. screen.of = taken[token] /\ Made(screen.groups, Upto(token, screen.of))
    BY <1>1, <1>3 DEF SearchInv, ScreenMade
  <1>8. /\ Made(s.groups, Upto(token, s.of)) /\ Made(l.groups, Upto(token, taken[token]))
        /\ (s.loading \/ s.more) = (l.at # "none")
    <2>1. s.of = taken[token] /\ s.groups = screen.groups /\ l.groups = screen.groups
      BY <1>4, <1>5, <1>7
    <2>2. Made(screen.groups, Upto(token, taken[token]))
      BY <1>7, Zenon
    <2> HIDE DEF l, s
    <2>3. QED
      BY <1>4, <1>5, <2>1, <2>2, Zenon
  <1> HIDE DEF l, s
  <1>9. live /\ UNCHANGED <<token, live, pump, canceled, handles, given>>
    BY <1>1
  <1>10. loader' = [loader EXCEPT ![token] = l] /\ screen' = s
    BY <1>1
  <1>11. l \in LoaderOf /\ s \in ScreenOf /\ taken[token] \in Nat /\ taken[token] <= Len(given[token])
    BY <1>2, <1>4, <1>5
  <1>12. s.of <= taken[token]
    BY <1>2, <1>5, <1>7
  <1>13. (l.at # "none" => s.hasMore /\ l.left # 0 /\ l.of = taken[token])
    BY <1>2, <1>4, <1>5, <1>7
  <1>14. ~s.hasMore => taken[token] = Len(given[token]) /\ pump[token] \in {"closed", "failed"}
    BY <1>5
  <1>15. PageSteps(l, s, taken[token])
    BY <1>4, <1>6, <1>8, <1>9, <1>10, <1>11, <1>12, <1>13, <1>14 DEF PageSteps
  <1>16. QED
    BY <1>15, PageStepKeeps

\* The page is published: s shows what the page has.
LEMMA PublishIs ==
    ASSUME SearchInv, live, NEW p \in LoaderOf, NEW exhausted \in BOOLEAN, NEW goesOn \in BOOLEAN,
           Screen!Publish(p, exhausted, goesOn)
    PROVE  /\ screen' \in ScreenOf /\ screen'.groups = p.groups /\ screen'.of = p.of
           /\ (screen'.loading \/ screen'.more) = goesOn /\ screen'.hasMore = ~exhausted
  <1>1. screen \in ScreenOf
    BY CurrentPage
  <1>2. QED
    BY <1>1 DEF Screen!Publish, ScreenOf, LoaderOf

LEMMA IdlePage == Screen!Idle \in LoaderOf /\ Screen!Idle.at = "none"
  BY BlankType DEF Screen!Idle

LEMMA ConsumeKeeps ==
    ASSUME SearchInv, live, NEW r \in Screen!Run, Screen!Consume(r)
    PROVE  SearchInv'
  <1> DEFINE e == given[token][taken[token] + 1]
             n == taken[token] + 1
             old == loader[token]
             p == [at |-> "timed", groups |-> Screen!Added(old.groups, e), of |-> old.of + 1, left |-> old.left - 1]
             p2 == [p EXCEPT !.at = "await"]
  <1>1. /\ r = token /\ old.at # "none" /\ taken[token] < Len(given[token])
        /\ taken' = [taken EXCEPT ![token] = taken[token] + 1]
        /\ UNCHANGED <<token, live, pump, canceled, handles, given>>
    BY DEF Screen!Consume, Screen!Awaits, Screen!HasEvent
  <1>2. \/ p.left = 0 /\ loader' = [loader EXCEPT ![token] = Screen!Idle] /\ Screen!Publish(p, FALSE, FALSE)
        \/ p.left # 0 /\ loader' = [loader EXCEPT ![token] = p] /\ screen' = screen
        \/ p.left # 0 /\ loader' = [loader EXCEPT ![token] = p2] /\ Screen!Publish(p, FALSE, TRUE)
    BY <1>1, Zenon DEF Screen!Consume, Screen!Load, Screen!Resumed
  <1>3. /\ token \in Screen!Run /\ old \in LoaderOf /\ screen \in ScreenOf
        /\ given[token] \in Seq(Screen!Event) /\ taken[token] \in Nat
        /\ (screen.loading \/ screen.more) = (old.at # "none")
    BY CurrentPage
  <1>4. old.left # 0 /\ old.of = taken[token] /\ Made(old.groups, Upto(token, taken[token]))
    BY <1>1 DEF SearchInv, LoaderMade
  <1>5. screen.of <= taken[token] /\ Made(screen.groups, Upto(token, screen.of)) /\ screen.hasMore
    BY <1>1 DEF SearchInv, ScreenMade
  <1>6. e \in Screen!Event /\ n \in Nat /\ n <= Len(given[token]) /\ screen.of \in Nat
        /\ old.groups \in GroupsOf /\ old.left \in Nat /\ old.of \in Nat
    BY <1>1, <1>3 DEF ScreenOf, LoaderOf
  <1>7. Upto(token, n) = Append(Upto(token, taken[token]), e) /\ Upto(token, taken[token]) \in Seq(Screen!Event)
    <2>1. taken[token] \in 0..(Len(given[token]) - 1)
      BY <1>1, <1>3
    <2>2. SubSeq(given[token], 1, taken[token] + 1) = Append(SubSeq(given[token], 1, taken[token]), given[token][taken[token] + 1])
      BY <1>1, <1>3, SubSeqGrows
    <2>3. SubSeq(given[token], 1, taken[token]) \in Seq(Screen!Event)
      BY <1>3, <2>1
    <2>4. QED
      BY <2>2, <2>3 DEF Upto
  <1>8. Made(Screen!Added(old.groups, e), Upto(token, n)) /\ Screen!Added(old.groups, e) \in GroupsOf
    BY <1>4, <1>6, <1>7, AddedMade, AddedType
  <1> HIDE DEF e
  <1>9. /\ p \in LoaderOf /\ p.at # "none" /\ p.of = n /\ Made(p.groups, Upto(token, n))
        /\ p2 \in LoaderOf /\ p2.at # "none" /\ p2.of = n /\ Made(p2.groups, Upto(token, n)) /\ p2.left = p.left
    <2>1. old.left - 1 \in Nat /\ old.of + 1 \in Nat
      BY <1>4, <1>6
    <2>2. p \in LoaderOf /\ p2 \in LoaderOf
      BY <1>8, <2>1 DEF LoaderOf
    <2>3. QED
      BY <1>4, <1>8, <2>2
  <1> HIDE DEF p, p2, n, old
  <1>10. n = taken[token] + 1
    BY DEF n
  <1>11. taken' = [taken EXCEPT ![token] = n]
    BY <1>1, <1>10
  <1>12. CASE p.left = 0 /\ loader' = [loader EXCEPT ![token] = Screen!Idle] /\ Screen!Publish(p, FALSE, FALSE)
    <2>1. /\ screen' \in ScreenOf /\ screen'.groups = p.groups /\ screen'.of = p.of
          /\ (screen'.loading \/ screen'.more) = FALSE /\ screen'.hasMore = TRUE
      BY <1>9, <1>12, PublishIs
    <2>2. Made(screen'.groups, Upto(token, screen'.of)) /\ screen'.of = n
      BY <1>9, <2>1, Zenon
    <2>3. screen'.of <= n /\ screen'.of = n
      BY <1>6, <2>2
    <2>4. (screen'.loading \/ screen'.more) = (Screen!Idle.at # "none") /\ Screen!Idle.at = "none"
      BY <2>1, IdlePage
    <2>5. PageSteps(Screen!Idle, screen', n)
      BY <1>1, <1>6, <1>11, <1>12, <2>1, <2>2, <2>3, <2>4, IdlePage DEF PageSteps
    <2>6. QED
      BY <2>5, PageStepKeeps
  <1>13. CASE p.left # 0 /\ loader' = [loader EXCEPT ![token] = p] /\ screen' = screen
    <2>1. PageSteps(p, screen, n)
      BY <1>1, <1>3, <1>5, <1>6, <1>9, <1>10, <1>11, <1>13 DEF PageSteps
    <2>2. QED
      BY <2>1, PageStepKeeps
  <1>14. CASE p.left # 0 /\ loader' = [loader EXCEPT ![token] = p2] /\ Screen!Publish(p, FALSE, TRUE)
    <2>1. /\ screen' \in ScreenOf /\ screen'.groups = p.groups /\ screen'.of = p.of
          /\ (screen'.loading \/ screen'.more) = TRUE /\ screen'.hasMore = TRUE
      BY <1>9, <1>14, PublishIs
    <2>2. Made(screen'.groups, Upto(token, screen'.of)) /\ screen'.of = n
      BY <1>9, <2>1, Zenon
    <2>3. screen'.of <= n /\ screen'.of = n
      BY <1>6, <2>2
    <2>4. (screen'.loading \/ screen'.more) = (p2.at # "none") /\ p2.left # 0 /\ p2.at # "none"
      BY <1>9, <1>14, <2>1
    <2>5. PageSteps(p2, screen', n)
      BY <1>1, <1>6, <1>9, <1>11, <1>14, <2>1, <2>2, <2>3, <2>4 DEF PageSteps
    <2>6. QED
      BY <2>5, PageStepKeeps
  <1>15. QED
    BY <1>2, <1>12, <1>13, <1>14

\* The window is over, or the stream: the page is shown as far as it has got.
LEMMA PageEndsKeeps ==
    ASSUME SearchInv, live, NEW r \in Screen!Run,
           Screen!WindowOver(r) \/ Screen!StreamEnds(r) \/ Screen!StreamFails(r)
    PROVE  SearchInv'
  <1> DEFINE old == loader[token]
             p2 == [old EXCEPT !.at = "await"]
  <1>1. r = token /\ old.at # "none" /\ UNCHANGED <<token, live, pump, canceled, handles, given, taken>>
    BY DEF Screen!WindowOver, Screen!StreamEnds, Screen!StreamFails, Screen!Awaits, Screen!streams
  <1>2. /\ token \in Screen!Run /\ old \in LoaderOf /\ screen \in ScreenOf
        /\ taken[token] \in Nat /\ taken[token] <= Len(given[token]) /\ Len(given[token]) \in Nat
    BY CurrentPage
  <1>3. old.left # 0 /\ old.of = taken[token] /\ Made(old.groups, Upto(token, taken[token]))
    BY <1>1 DEF SearchInv, LoaderMade
  <1>4. taken' = [taken EXCEPT ![token] = taken[token]]
    BY <1>1, <1>2 DEF SearchInv, SearchTypes
  <1>5. CASE Screen!WindowOver(r)
    <2>1. Screen!Publish(old, FALSE, TRUE) /\ loader' = [loader EXCEPT ![token] = p2]
      BY <1>1, <1>5 DEF Screen!WindowOver, Screen!Load, Screen!Resumed
    <2>2. p2 \in LoaderOf /\ p2.at # "none" /\ p2.left = old.left /\ p2.of = old.of /\ p2.groups = old.groups
      BY <1>2 DEF LoaderOf
    <2> HIDE DEF p2, old
    <2>3. /\ screen' \in ScreenOf /\ screen'.groups = old.groups /\ screen'.of = old.of
          /\ (screen'.loading \/ screen'.more) = TRUE /\ screen'.hasMore = TRUE
      BY <1>2, <2>1, PublishIs
    <2>4. /\ Made(screen'.groups, Upto(token, screen'.of)) /\ screen'.of = taken[token]
          /\ Made(p2.groups, Upto(token, taken[token]))
      BY <1>3, <2>2, <2>3, Zenon
    <2>5. screen'.of <= taken[token] /\ p2.of = taken[token]
      BY <1>2, <1>3, <2>2, <2>4
    <2>6. (screen'.loading \/ screen'.more) = (p2.at # "none") /\ p2.left # 0 /\ p2.at # "none"
      BY <1>3, <2>2, <2>3
    <2>7. PageSteps(p2, screen', taken[token])
      BY <1>1, <1>2, <1>4, <2>1, <2>2, <2>3, <2>4, <2>5, <2>6 DEF PageSteps
    <2>8. QED
      BY <2>7, PageStepKeeps
  <1>6. CASE Screen!StreamEnds(r)
    <2>1. /\ Screen!Publish(old, TRUE, FALSE) /\ loader' = [loader EXCEPT ![token] = Screen!Idle]
          /\ pump[token] = "closed" /\ ~(taken[token] < Len(given[token]))
      BY <1>1, <1>6 DEF Screen!StreamEnds, Screen!Load, Screen!HasEvent
    <2> HIDE DEF old
    <2>2. /\ screen' \in ScreenOf /\ screen'.groups = old.groups /\ screen'.of = old.of
          /\ (screen'.loading \/ screen'.more) = FALSE /\ screen'.hasMore = FALSE
      BY <1>2, <2>1, PublishIs
    <2>3. taken[token] = Len(given[token])
      BY <1>2, <2>1
    <2>4. PageSteps(Screen!Idle, screen', taken[token])
      BY <1>1, <1>2, <1>3, <1>4, <2>1, <2>2, <2>3, IdlePage DEF PageSteps
    <2>5. QED
      BY <2>4, PageStepKeeps
  <1>7. CASE Screen!StreamFails(r)
    <2>1. /\ screen' = [screen EXCEPT !.groups = old.groups, !.of = old.of, !.loading = FALSE,
                                      !.more = FALSE, !.hasMore = FALSE, !.error = TRUE]
          /\ loader' = [loader EXCEPT ![token] = Screen!Idle]
          /\ pump[token] = "failed" /\ ~(taken[token] < Len(given[token]))
      BY <1>1, <1>7 DEF Screen!StreamFails, Screen!Load, Screen!HasEvent
    <2>2. /\ screen' \in ScreenOf /\ screen'.groups = old.groups /\ screen'.of = old.of
          /\ (screen'.loading \/ screen'.more) = FALSE /\ screen'.hasMore = FALSE
      BY <1>2, <2>1 DEF ScreenOf, LoaderOf
    <2> HIDE DEF old
    <2>3. taken[token] = Len(given[token])
      BY <1>2, <2>1
    <2>4. PageSteps(Screen!Idle, screen', taken[token])
      BY <1>1, <1>2, <1>3, <1>4, <2>1, <2>2, <2>3, IdlePage DEF PageSteps
    <2>5. QED
      BY <2>4, PageStepKeeps
  <1>8. QED
    BY <1>5, <1>6, <1>7

\* A new search, or none: what the one before was given is forgotten.
LEMMA SearchKeeps ==
    ASSUME SearchInv, Screen!Search \/ Screen!Clear
    PROVE  SearchInv'
  <1>0. PICK n \in Nat : n = token + 1
    BY DEF SearchInv, SearchTypes
  <1>1. SearchTypes /\ Screen!HandlesReleased /\ Screen!Dispose /\ token' = n
    <2>1. SearchTypes /\ Screen!HandlesReleased
      BY DEF SearchInv
    <2>2. Screen!Dispose /\ token' = token + 1
      BY Zenon DEF Screen!Search, Screen!Clear
    <2>3. QED
      BY <1>0, <2>1, <2>2
  <1>2. n \in Screen!Run /\ token \in Nat /\ n \in 0..MaxRuns /\ n # 0 /\ token < n
    BY <1>0, <1>1, SearchBounds DEF Screen!Search, Screen!Clear, SearchTypes, Screen!Run
  <1>3. /\ pump \in [Screen!Run -> PumpState] /\ loader \in [Screen!Run -> LoaderOf]
        /\ \A r \in Screen!Run : r > token => loader[r].at = "none" /\ pump[r] = "unheard"
    BY <1>1 DEF SearchTypes
  <1>4. /\ given' \in [Screen!Run -> Seq(Screen!Event)] /\ taken' \in [Screen!Run -> Nat]
        /\ \A r \in Screen!Run : taken'[r] <= Len(given'[r])
        /\ \A r \in Screen!Run : r >= token => given'[r] = <<>> /\ taken'[r] = 0
        /\ canceled' \in [Screen!Run -> BOOLEAN]
        /\ handles' \in [Screen!Run -> [opened : Nat, closed : Nat]]
        /\ \A r \in Screen!Run : handles'[r] = handles[r] \/ handles'[r].closed = handles'[r].opened
        /\ \A r \in Screen!Run : canceled'[r] = canceled[r] \/ handles'[r].closed = handles'[r].opened
    BY <1>1, DisposeTypes
  <1>5. given'[n] = <<>> /\ taken'[n] = 0 /\ SubSeq(given'[n], 1, 0) = <<>>
    <2>1. given'[n] = <<>> /\ taken'[n] = 0
      BY <1>2, <1>4
    <2>2. QED
      BY <2>1
  <1>6. /\ live' \in BOOLEAN /\ screen' \in ScreenOf /\ screen'.groups = Screen!NoGroups /\ screen'.of = 0
        /\ screen'.hasMore /\ (screen'.loading \/ screen'.more) = live'
    <2>1. CASE Screen!Search
      <3>1. live' = TRUE /\ screen' = [Screen!Blank EXCEPT !.loading = TRUE]
        BY <2>1 DEF Screen!Search
      <3>2. QED
        BY <3>1, BlankType DEF Screen!Blank, ScreenOf
    <2>2. CASE Screen!Clear
      <3>1. live' = FALSE /\ screen' = Screen!Blank
        BY <2>2 DEF Screen!Clear
      <3>2. QED
        BY <3>1, BlankType DEF Screen!Blank, ScreenOf
    <2>3. QED
      BY <2>1, <2>2
  <1>7. /\ loader' \in [Screen!Run -> LoaderOf] /\ pump' \in [Screen!Run -> PumpState]
        /\ \A r \in Screen!Run : r > n => loader'[r].at = "none" /\ pump'[r] = "unheard"
        /\ live' => /\ loader'[n].at # "none" /\ loader'[n].left # 0 /\ loader'[n].of = 0
                    /\ loader'[n].groups = Screen!NoGroups
        /\ \A r \in Screen!Run : pump'[r] = pump[r] \/ pump'[r] = "opening"
    <2>1. CASE Screen!Search
      <3> DEFINE l == [Screen!Idle EXCEPT !.at = "await", !.left = PageSize]
      <3>1. loader' = [loader EXCEPT ![n] = l] /\ pump' = [pump EXCEPT ![n] = "opening"]
        BY <1>0, <2>1 DEF Screen!Search, Screen!Load, Screen!Stand
      <3>2. l \in LoaderOf /\ l.at # "none" /\ l.left # 0 /\ l.of = 0 /\ l.groups = Screen!NoGroups
        BY BlankType, SearchBounds DEF Screen!Idle, LoaderOf
      <3> HIDE DEF l
      <3>3. /\ loader'[n] = l /\ \A r \in Screen!Run : r > n => loader'[r] = loader[r] /\ pump'[r] = pump[r]
            /\ loader' \in [Screen!Run -> LoaderOf] /\ pump' \in [Screen!Run -> PumpState]
            /\ \A r \in Screen!Run : pump'[r] = pump[r] \/ pump'[r] = "opening"
        BY <1>2, <1>3, <3>1, <3>2 DEF PumpState, Screen!Run
      <3>4. \A r \in Screen!Run : r > n => r > token
        BY <1>2 DEF Screen!Run
      <3>5. QED
        BY <1>3, <3>2, <3>3, <3>4
    <2>2. CASE Screen!Clear
      <3>1. live' = FALSE /\ UNCHANGED <<loader, pump>>
        BY <2>2 DEF Screen!Clear
      <3>2. \A r \in Screen!Run : r > n => r > token
        BY <1>2 DEF Screen!Run
      <3>3. QED
        BY <1>3, <3>1, <3>2
    <2>3. QED
      BY <2>1, <2>2
  <1>8. ~live' => loader'[n].at = "none"
    BY <1>2, <1>3 DEF Screen!Clear, Screen!Search
  <1>9. \A r \in Screen!Run : r > n => given'[r] = <<>> /\ taken'[r] = 0
    <2>1. \A r \in Screen!Run : r > n => r >= token
      BY <1>2 DEF Screen!Run
    <2>2. QED
      BY <1>4, <2>1
  <1>10. SearchTypes'
    BY <1>1, <1>2, <1>4, <1>6, <1>7, <1>8, <1>9 DEF SearchTypes
  <1>11. Screen!SpinnerDriven'
    BY <1>1, <1>6, <1>7 DEF Screen!SpinnerDriven, Screen!Spinning, Screen!Awaits
  <1>12. Screen!HandlesReleased'
    <2> SUFFICES ASSUME NEW r \in Screen!Run
                 PROVE  /\ pump'[r] \in {"closed", "failed"} => handles'[r].closed = handles'[r].opened
                        /\ canceled'[r] /\ pump'[r] = "next" => handles'[r].closed = handles'[r].opened
      BY DEF Screen!HandlesReleased
    <2>1. /\ pump[r] \in {"closed", "failed"} => handles[r].closed = handles[r].opened
          /\ canceled[r] /\ pump[r] = "next" => handles[r].closed = handles[r].opened
      BY <1>1 DEF Screen!HandlesReleased
    <2>2. QED
      BY <1>4, <1>7, <2>1
  <1>13. ScreenMade'
    <2>1. Made(screen'.groups, SubSeq(given'[n], 1, screen'.of))
      BY <1>5, <1>6, NoneMade, Zenon
    <2>2. SUFFICES ASSUME live'
                   PROVE  /\ screen'.of <= taken'[n] /\ Made(screen'.groups, SubSeq(given'[n], 1, screen'.of))
                          /\ screen'.of = taken'[n] /\ screen'.hasMore
      BY <1>1 DEF ScreenMade, Upto
    <2>3. QED
      BY <1>5, <1>6, <2>1
  <1>14. LoaderMade'
    <2>1. SUFFICES ASSUME live'
                   PROVE  /\ loader'[n].left # 0 /\ loader'[n].of = taken'[n]
                          /\ Made(loader'[n].groups, SubSeq(given'[n], 1, taken'[n]))
      BY <1>1 DEF LoaderMade, Upto
    <2>2. Made(loader'[n].groups, SubSeq(given'[n], 1, taken'[n]))
      BY <1>5, <1>7, <2>1, NoneMade, Zenon
    <2>3. QED
      BY <1>5, <1>7, <2>1, <2>2
  <1>15. QED
    BY <1>10, <1>11, <1>12, <1>13, <1>14 DEF SearchInv

LEMMA SearchInvInit == Screen!SearchInit => SearchInv
  <1> SUFFICES ASSUME Screen!SearchInit
               PROVE  SearchInv
    OBVIOUS
  <1>1. live = FALSE /\ screen = Screen!Blank
    BY DEF Screen!SearchInit
  <1>2. ScreenMade /\ LoaderMade
    BY <1>1 DEF ScreenMade, LoaderMade
  <1>3. Screen!SpinnerDriven
    BY <1>1 DEF Screen!SpinnerDriven, Screen!Spinning, Screen!Blank
  <1>4. Screen!HandlesReleased
    BY DEF Screen!SearchInit, Screen!HandlesReleased
  <1>5. QED
    BY <1>2, <1>3, <1>4, SearchInitTypes DEF SearchInv

LEMMA SearchInvStep ==
    ASSUME SearchInv, Screen!SearchNext
    PROVE  SearchInv'
  <1>1. CASE Screen!Search \/ Screen!Clear
    BY <1>1, SearchKeeps
  <1>2. CASE Screen!LoadMore
    BY <1>2, LoadMoreKeeps
  <1>3. ASSUME NEW r \in Screen!Run, Screen!PumpStep(r)
        PROVE  SearchInv'
    BY <1>3, PumpKeeps
  <1>4. ASSUME NEW r \in Screen!Run, Screen!LoaderStep(r)
        PROVE  SearchInv'
    <2>1. CASE Screen!Outdated(r)
      BY <2>1, OutdatedKeeps
    <2>2. CASE ~Screen!Outdated(r)
      <3>1. r = token /\ Screen!Awaits(r)
        BY <1>4, <2>2 DEF Screen!LoaderStep, Screen!Consume, Screen!WindowOver, Screen!StreamEnds,
                          Screen!StreamFails, Screen!Awaits
      <3>2. live
        BY <3>1 DEF SearchInv, SearchTypes, Screen!Awaits
      <3>3. QED
        BY <1>4, <2>2, <3>2, ConsumeKeeps, PageEndsKeeps DEF Screen!LoaderStep
    <2>3. QED
      BY <2>1, <2>2
  <1>5. QED
    BY <1>1, <1>2, <1>3, <1>4 DEF Screen!SearchNext

LEMMA SearchInvShows ==
    ASSUME SearchInv
    PROVE  Screen!ShownIsRead /\ Screen!HandlesReleased /\ Screen!SpinnerDriven
  <1>1. ASSUME live
        PROVE  /\ screen.of <= taken[token]
               /\ Screen!ShowsEvents(screen.groups, SubSeq(given[token], 1, screen.of))
               /\ ~Screen!Spinning => screen.of = taken[token]
               /\ ~screen.hasMore => screen.of = Len(given[token]) /\ pump[token] \in {"closed", "failed"}
    <2>1. ScreenMade /\ Made(screen.groups, Upto(token, screen.of))
      BY <1>1 DEF SearchInv, ScreenMade
    <2>2. Screen!ShowsEvents(screen.groups, Upto(token, screen.of))
      BY <2>1, MadeShows
    <2>3. ~Screen!Spinning => loader[token].at = "none"
      BY <1>1, CurrentPage DEF Screen!Spinning
    <2>4. QED
      BY <1>1, <2>1, <2>2, <2>3 DEF ScreenMade, Upto
  <1>2. QED
    BY <1>1 DEF Screen!ShownIsRead, SearchInv

-----------------------------------------------------------------------------
(* A thread of comments.                                                     *)

\* The elements of a sequence that has none twice are as many as it is long.
Different(s) == \A i, j \in DOMAIN s : s[i] = s[j] => i = j
Elements(s) == {s[i] : i \in DOMAIN s}
LEMMA DifferentCount ==
    ASSUME NEW A, NEW s \in Seq(A), Different(s)
    PROVE  Cardinality(Elements(s)) = Len(s)
  <1> DEFINE S == {s[i] : i \in DOMAIN s}
             n == Len(s)
             f == [i \in 1..n |-> s[i]]
  <1>1. n \in Nat /\ DOMAIN s = 1..n
    OBVIOUS
  <1>2. f \in Bijection(1..n, S)
    <2>1. f \in [1..n -> S]
      BY <1>1
    <2>2. \A i, j \in 1..n : f[i] = f[j] => i = j
      BY <1>1 DEF Different
    <2>3. \A x \in S : \E i \in 1..n : f[i] = x
      BY <1>1
    <2> HIDE DEF f, S, n
    <2>4. QED
      BY <2>1, <2>2, <2>3 DEF Bijection, Injection, Surjection, IsInjective
  <1>3. Cardinality(S) = n
    <2> HIDE DEF f, S, n
    <2>1. ExistsBijection(1..n, S)
      BY <1>2, Zenon DEF ExistsBijection
    <2>2. QED
      BY <1>1, <2>1, FS_CountingElements
  <1>4. QED
    BY <1>3 DEF Elements

LEMMA DistinctAdds ==
    ASSUME NEW A, NEW s \in Seq(A), NEW x \in A, Different(s)
    PROVE  /\ Thread!Distinct(s, x) \in Seq(A) /\ Different(Thread!Distinct(s, x))
           /\ Elements(Thread!Distinct(s, x)) = Elements(s) \cup {x}
  <1> DEFINE t == Thread!Distinct(s, x)
  <1>1. CASE \E i \in DOMAIN s : s[i] = x
    <2>1. t = s
      BY <1>1 DEF Thread!Distinct
    <2>2. Elements(s) = Elements(s) \cup {x}
      BY <1>1 DEF Elements
    <2> HIDE DEF t
    <2>3. t \in Seq(A) /\ Different(t) /\ Elements(t) = Elements(s) \cup {x}
      BY <2>1, <2>2
    <2>4. QED
      BY <2>3 DEF t
  <1>2. CASE ~\E i \in DOMAIN s : s[i] = x
    <2> DEFINE u == Append(s, x)
    <2>1. /\ u \in Seq(A) /\ Len(u) = Len(s) + 1 /\ DOMAIN u = 1..(Len(s) + 1) /\ DOMAIN s = 1..Len(s)
          /\ \A i \in 1..Len(s) : u[i] = s[i]
          /\ u[Len(s) + 1] = x /\ Len(s) \in Nat
      OBVIOUS
    <2>5. t = u
      BY <1>2 DEF Thread!Distinct
    <2> HIDE DEF u, t
    <2>2. Different(u)
      BY <1>2, <2>1 DEF Different
    <2>3. \A y : y \in Elements(u) <=> y \in Elements(s) \cup {x}
      BY <2>1 DEF Elements
    <2>4. Elements(u) = Elements(s) \cup {x}
      BY <2>3
    <2>6. t \in Seq(A) /\ Different(t) /\ Elements(t) = Elements(s) \cup {x}
      BY <2>1, <2>2, <2>4, <2>5
    <2>7. QED
      BY <2>6 DEF t
  <1>3. QED
    BY <1>1, <1>2

\* A page adds each of its comments that is not there yet, once.
LEMMA WithNewAdds ==
    ASSUME NEW s \in Seq(Comment), NEW p \in Thread!Answer, Different(s)
    PROVE  /\ Thread!WithNew(s, p.ids) \in Seq(Comment) /\ Different(Thread!WithNew(s, p.ids))
           /\ Elements(Thread!WithNew(s, p.ids)) = Elements(s) \cup Elements(p.ids)
  <1>1. \/ p.ids = <<>>
        \/ \E x \in Comment : p.ids = <<x>>
        \/ \E x, y \in Comment : p.ids = <<x, y>>
    BY DEF Thread!Answer
  <1>2. CASE p.ids = <<>>
    <2>1. Thread!WithNew(s, p.ids) = s /\ Elements(p.ids) = {}
      BY <1>2 DEF Thread!WithNew, Elements
    <2>2. QED
      BY <2>1
  <1>3. CASE \E x \in Comment : p.ids = <<x>>
    <2>1. PICK x \in Comment : p.ids = <<x>>
      BY <1>3
    <2>2. Thread!WithNew(s, p.ids) = Thread!Distinct(s, x) /\ Elements(p.ids) = {x}
      BY <2>1 DEF Thread!WithNew, Elements
    <2>3. QED
      BY <2>2, DistinctAdds
  <1>4. CASE \E x, y \in Comment : p.ids = <<x, y>>
    <2>1. PICK x \in Comment, y \in Comment : p.ids = <<x, y>>
      BY <1>4
    <2>2. Thread!WithNew(s, p.ids) = Thread!Distinct(Thread!Distinct(s, x), y)
      BY <2>1 DEF Thread!WithNew
    <2>3. Elements(p.ids) = {x, y}
      <3>1. DOMAIN p.ids = {1, 2} /\ p.ids[1] = x /\ p.ids[2] = y
        BY <2>1
      <3>2. QED
        BY <3>1 DEF Elements
    <2>4. PICK t \in Seq(Comment) : /\ t = Thread!Distinct(s, x) /\ Different(t)
                                    /\ Elements(t) = Elements(s) \cup {x}
      <3>1. /\ Thread!Distinct(s, x) \in Seq(Comment) /\ Different(Thread!Distinct(s, x))
            /\ Elements(Thread!Distinct(s, x)) = Elements(s) \cup {x}
        BY DistinctAdds
      <3>2. QED
        BY <3>1
    <2>5. /\ Thread!Distinct(t, y) \in Seq(Comment) /\ Different(Thread!Distinct(t, y))
          /\ Elements(Thread!Distinct(t, y)) = Elements(t) \cup {y}
      <3>1. y \in Comment /\ t \in Seq(Comment) /\ Different(t)
        BY <2>4
      <3>2. QED
        BY <3>1, DistinctAdds
    <2>7. Thread!WithNew(s, p.ids) = Thread!Distinct(t, y)
      BY <2>2, <2>4
    <2>6. QED
      BY <2>3, <2>4, <2>5, <2>7
  <1>5. QED
    BY <1>1, <1>2, <1>3, <1>4

PageOf == [asked : Cursor \cup {Start}, ids : {p.ids : p \in Thread!Answer}, next : Cursor \cup {Start}]
LoadOf == [at : {"none", "opening", "result", "leave"}, asked : Cursor \cup {Start}]

ThreadTypes ==
    /\ threadGeneration \in 0..MaxGen /\ loading \in BOOLEAN /\ hasMore \in BOOLEAN /\ error \in BOOLEAN
    /\ cursor \in Cursor \cup {Start} /\ cursors \in SUBSET Cursor
    /\ comments \in Seq(Comment) /\ pages \in Seq(PageOf)
    /\ load \in [Thread!Gen -> LoadOf] /\ threadRequests \in SUBSET Thread!Gen
    /\ \A g \in Thread!Gen : g > threadGeneration => load[g].at = "none"

\* The pages are asked for along the cursors, the last of which is kept, and no
\* cursor is met twice; the comments are theirs.
NextOf(s) == IF s = <<>> THEN Start ELSE s[Len(s)].next
PagesChain ==
    /\ cursor = NextOf(pages)
    /\ hasMore <=> pages = <<>> \/ cursor # Start
    /\ \A i \in DOMAIN pages : /\ pages[i].asked = IF i = 1 THEN Start ELSE pages[i - 1].next
                               /\ i < Len(pages) => pages[i].next # Start
                               /\ pages[i].next \in cursors \cup {Start}
    /\ \A i, j \in DOMAIN pages : i < j => pages[i].next # pages[j].next
CommentsOfPages == Different(comments) /\ Elements(comments) = Thread!OfPages
\* A load that may still publish asks with the cursor that is kept.
LoadAsks == load[threadGeneration].at \in {"opening", "result"} =>
                hasMore /\ load[threadGeneration].asked = cursor
ThreadInv == ThreadTypes /\ PagesChain /\ CommentsOfPages /\ LoadAsks /\ Thread!LoadDriven

LEMMA ThreadInvShows ==
    ASSUME ThreadInv
    PROVE  Thread!ThreadOfPages /\ Thread!LoadDriven
  <1>1. \A i, j \in DOMAIN pages : i < j => pages[i].asked # pages[j].asked
    <2> SUFFICES ASSUME NEW i \in DOMAIN pages, NEW j \in DOMAIN pages, i < j
                 PROVE  pages[i].asked # pages[j].asked
      OBVIOUS
    <2>1. /\ i \in Nat /\ j \in Nat /\ i <= Len(pages) /\ j <= Len(pages) /\ i >= 1 /\ j >= 1
          /\ j - 1 \in DOMAIN pages /\ (i > 1 => i - 1 \in DOMAIN pages) /\ j # 1 /\ Len(pages) \in Nat
      BY DEF ThreadInv, ThreadTypes
    <2>2. pages[j].asked = pages[j - 1].next /\ pages[j - 1].next # Start
      BY <2>1 DEF ThreadInv, PagesChain
    <2>3. CASE i = 1
      BY <2>2, <2>3 DEF ThreadInv, PagesChain
    <2>4. CASE i > 1
      <3>1. pages[i].asked = pages[i - 1].next
        BY <2>1, <2>4 DEF ThreadInv, PagesChain
      <3>2. i - 1 < j - 1 /\ i - 1 \in DOMAIN pages /\ j - 1 \in DOMAIN pages
        BY <2>1, <2>4
      <3>3. pages[i - 1].next # pages[j - 1].next
        BY <3>2 DEF ThreadInv, PagesChain
      <3>4. QED
        BY <2>2, <3>1, <3>3
    <2>5. QED
      BY <2>1, <2>3, <2>4
  <1>2. Thread!Shown = Elements(comments) /\ Thread!Cardinality(Thread!Shown) = Len(comments)
    <2>1. Thread!Shown = Elements(comments)
      BY DEF Thread!Shown, Elements
    <2>2. \A S : Thread!Cardinality(S) = Cardinality(S)
      BY Zenon DEF Thread!Cardinality, Cardinality
    <2>3. Cardinality(Elements(comments)) = Len(comments)
      BY DifferentCount DEF ThreadInv, ThreadTypes, CommentsOfPages
    <2>4. QED
      BY <2>1, <2>2, <2>3
  <1>3. hasMore <=> pages = <<>> \/ pages[Len(pages)].next # Start
    BY DEF ThreadInv, PagesChain, NextOf
  <1>4. QED
    BY <1>1, <1>2, <1>3 DEF ThreadInv, PagesChain, CommentsOfPages, Thread!ThreadOfPages

\* What publishes nothing: the comments and their pages stay, a load moves on.
LoadSteps(g, l) ==
    /\ UNCHANGED <<threadGeneration, hasMore, cursor, cursors, comments, pages>>
    /\ load' = [load EXCEPT ![g] = l] /\ l \in LoadOf /\ error' \in BOOLEAN /\ loading' \in BOOLEAN
    /\ g \in Thread!Gen /\ g <= threadGeneration
    /\ g = threadGeneration => /\ l.at \in {"opening", "result"} => hasMore /\ l.asked = cursor
                               /\ loading' <=> l.at # "none"
    /\ g # threadGeneration => loading' = loading
    /\ threadRequests' \in SUBSET Thread!Gen
    /\ \A h \in threadRequests' : h \in threadRequests \/ h = g
    /\ g \in threadRequests' => l.at \in {"result", "leave"}

LEMMA LoadStepKeeps ==
    ASSUME ThreadInv, NEW g, NEW l, LoadSteps(g, l)
    PROVE  ThreadInv'
  <1>1. load \in [Thread!Gen -> LoadOf] /\ load' \in [Thread!Gen -> LoadOf] /\ load'[g] = l
        /\ \A h \in Thread!Gen : h # g => load'[h] = load[h]
    BY DEF ThreadInv, ThreadTypes, LoadSteps
  <1>2. threadGeneration' = threadGeneration /\ threadGeneration \in Thread!Gen
    BY DEF ThreadInv, ThreadTypes, LoadSteps, Thread!Gen
  <1>3. ThreadTypes'
    BY <1>1, <1>2 DEF ThreadInv, ThreadTypes, LoadSteps, Thread!Gen
  <1>4. PagesChain'
    BY DEF ThreadInv, PagesChain, LoadSteps
  <1>5. CommentsOfPages'
    BY DEF ThreadInv, CommentsOfPages, LoadSteps, Thread!OfPages
  <1>6. LoadAsks'
    BY <1>1, <1>2 DEF ThreadInv, LoadAsks, LoadSteps
  <1>7. Thread!LoadDriven'
    BY <1>1, <1>2 DEF ThreadInv, Thread!LoadDriven, LoadSteps
  <1>8. QED
    BY <1>3, <1>4, <1>5, <1>6, <1>7 DEF ThreadInv

LEMMA LoadGoesOn ==
    ASSUME ThreadInv, NEW g \in Thread!Gen, Thread!Opened(g) \/ Thread!OpenFails(g) \/ Thread!Finish(g)
    PROVE  ThreadInv'
  <1>1. /\ load \in [Thread!Gen -> LoadOf] /\ load[g] \in LoadOf /\ loading \in BOOLEAN /\ error \in BOOLEAN
        /\ threadRequests \in SUBSET Thread!Gen /\ threadGeneration \in Thread!Gen
        /\ load[g].at # "none" => g <= threadGeneration
        /\ loading <=> load[threadGeneration].at # "none"
    BY DEF ThreadInv, ThreadTypes, Thread!LoadDriven, Thread!Gen
  <1>2. load[threadGeneration].at \in {"opening", "result"} => hasMore /\ load[threadGeneration].asked = cursor
    BY DEF ThreadInv, LoadAsks
  <1>3. CASE Thread!Opened(g)
    <2> DEFINE l == [load[g] EXCEPT !.at = IF g = threadGeneration THEN "result" ELSE "leave"]
    <2>1. /\ load[g].at = "opening" /\ load' = [load EXCEPT ![g] = l] /\ threadRequests' = threadRequests \cup {g}
          /\ UNCHANGED <<threadGeneration, loading, error, hasMore, cursor, cursors, comments, pages>>
      BY <1>1, <1>3 DEF Thread!Opened, Thread!At, Thread!Current, Thread!thread
    <2>2. /\ l \in LoadOf /\ l.asked = load[g].asked /\ l.at \in {"result", "leave"}
          /\ g = threadGeneration => l.at = "result"
      BY <1>1 DEF LoadOf
    <2> HIDE DEF l
    <2>3. LoadSteps(g, l)
      BY <1>1, <1>2, <2>1, <2>2 DEF LoadSteps
    <2>4. QED
      BY <2>3, LoadStepKeeps
  <1>4. CASE Thread!OpenFails(g)
    <2> DEFINE l == [load[g] EXCEPT !.at = "leave"]
    <2>1. /\ load[g].at = "opening" /\ load' = [load EXCEPT ![g] = l] /\ error' \in BOOLEAN
          /\ UNCHANGED <<threadGeneration, loading, hasMore, cursor, cursors, comments, pages, threadRequests>>
      BY <1>1, <1>4 DEF Thread!OpenFails, Thread!At, Thread!Failed, Thread!thread
    <2>2. l \in LoadOf /\ l.at = "leave"
      BY <1>1 DEF LoadOf
    <2> HIDE DEF l
    <2>3. LoadSteps(g, l)
      BY <1>1, <1>2, <2>1, <2>2 DEF LoadSteps
    <2>4. QED
      BY <2>3, LoadStepKeeps
  <1>5. CASE Thread!Finish(g)
    <2>1. /\ load[g].at = "leave" /\ load' = [load EXCEPT ![g] = Thread!NoLoad]
          /\ threadRequests' = threadRequests \ {g}
          /\ loading' = IF g = threadGeneration THEN FALSE ELSE loading
          /\ UNCHANGED <<threadGeneration, error, hasMore, cursor, cursors, comments, pages>>
      BY <1>1, <1>5 DEF Thread!Finish, Thread!At, Thread!Current, Thread!thread
    <2>2. Thread!NoLoad \in LoadOf /\ Thread!NoLoad.at = "none"
      BY DEF LoadOf, Thread!NoLoad
    <2>3. LoadSteps(g, Thread!NoLoad)
      BY <1>1, <1>2, <2>1, <2>2 DEF LoadSteps
    <2>4. QED
      BY <2>3, LoadStepKeeps
  <1>6. QED
    BY <1>3, <1>4, <1>5

\* A page of the current generation is added to the thread.
LEMMA AcceptKeeps ==
    ASSUME ThreadInv, NEW g \in Thread!Gen, g = threadGeneration, load[g].at = "result",
           load' = [load EXCEPT ![g].at = "leave"],
           UNCHANGED <<threadGeneration, loading, threadRequests, error>>,
           NEW p \in Thread!Answer, p.next \notin cursors, Thread!Accept(g, p)
    PROVE  ThreadInv'
  <1> DEFINE new == [asked |-> load[g].asked, ids |-> p.ids, next |-> p.next]
             n == Len(pages)
  <1>1. /\ load \in [Thread!Gen -> LoadOf] /\ load[g] \in LoadOf /\ load[g].asked = cursor /\ hasMore
        /\ loading /\ pages \in Seq(PageOf) /\ n \in Nat /\ DOMAIN pages = 1..n
        /\ comments \in Seq(Comment) /\ p.next \in Cursor \cup {Start}
        /\ cursors \in SUBSET Cursor /\ cursor = NextOf(pages)
    BY DEF ThreadInv, ThreadTypes, LoadAsks, PagesChain, Thread!LoadDriven, Thread!Gen, LoadOf, Thread!Answer
  <1>2. new \in PageOf /\ new.asked = cursor /\ new.ids = p.ids /\ new.next = p.next
    BY <1>1 DEF PageOf, LoadOf
  <1>3. /\ pages' = Append(pages, new) /\ comments' = Thread!WithNew(comments, p.ids)
        /\ cursor' = p.next /\ hasMore' = (p.next # Start) /\ cursors' = cursors \cup ({p.next} \ {Start})
    BY DEF Thread!Accept
  <1> HIDE DEF new
  <1>4. /\ pages' \in Seq(PageOf) /\ Len(pages') = n + 1 /\ DOMAIN pages' = 1..(n + 1)
        /\ \A i \in 1..n : pages'[i] = pages[i]
        /\ pages'[n + 1] = new
    BY <1>1, <1>2, <1>3
  <1> HIDE DEF n
  <1>5. /\ load' \in [Thread!Gen -> LoadOf] /\ load'[g].at = "leave"
        /\ \A h \in Thread!Gen : h # g => load'[h] = load[h]
    BY <1>1 DEF LoadOf
  <1>6. /\ comments' \in Seq(Comment) /\ Different(comments')
        /\ Elements(comments') = Elements(comments) \cup Elements(p.ids)
    BY <1>1, <1>3, WithNewAdds DEF ThreadInv, CommentsOfPages
  <1>7. ThreadTypes'
    BY <1>1, <1>3, <1>4, <1>5, <1>6 DEF ThreadInv, ThreadTypes
  <1>8. PagesChain'
    <2>1. cursor' = NextOf(pages')
      <3>1. pages' # <<>>
        BY <1>1, <1>4
      <3>2. QED
        BY <3>1, <1>2, <1>3, <1>4 DEF NextOf
    <2>2. hasMore' <=> pages' = <<>> \/ cursor' # Start
      <3>1. pages' # <<>>
        BY <1>1, <1>4
      <3>2. (hasMore' <=> p.next # Start) /\ cursor' = p.next
        BY <1>3
      <3>3. QED
        BY <3>1, <3>2
    <2>3. n # 0 => pages[n].next = cursor /\ cursor # Start
      <3>1. n # 0 => pages # <<>> /\ cursor = pages[n].next
        BY <1>1 DEF NextOf, n
      <3>2. QED
        BY <1>1, <3>1 DEF ThreadInv, PagesChain
    <2>4. \A i \in 1..n : /\ pages[i].asked = IF i = 1 THEN Start ELSE pages[i - 1].next
                          /\ i < n => pages[i].next # Start
                          /\ pages[i].next \in cursors \cup {Start}
      BY <1>1 DEF ThreadInv, PagesChain, n
    <2>5. \A i \in 1..n : pages[i].next # Start /\ pages[i].next \in cursors
      BY <1>1, <2>3, <2>4
    <2>6. \A i \in DOMAIN pages' : /\ pages'[i].asked = IF i = 1 THEN Start ELSE pages'[i - 1].next
                                   /\ i < Len(pages') => pages'[i].next # Start
                                   /\ pages'[i].next \in cursors' \cup {Start}
      <3> SUFFICES ASSUME NEW i \in 1..(n + 1)
                   PROVE  /\ pages'[i].asked = IF i = 1 THEN Start ELSE pages'[i - 1].next
                          /\ i < n + 1 => pages'[i].next # Start
                          /\ pages'[i].next \in cursors' \cup {Start}
        BY <1>4
      <3>1. CASE i \in 1..n
        <4>1. i # 1 => i - 1 \in 1..n
          BY <1>1, <3>1
        <4>2. QED
          BY <1>3, <1>4, <2>4, <2>5, <3>1, <4>1
      <3>2. CASE i = n + 1
        <4>1. i = 1 => cursor = Start
          <5>1. i = 1 => pages = <<>>
            BY <1>1, <3>2 DEF n
          <5>2. QED
            BY <1>1, <5>1 DEF NextOf
        <4>2. i # 1 => n # 0 /\ i - 1 = n /\ pages'[i - 1] = pages[n]
          BY <1>1, <1>4, <3>2
        <4>3. pages'[i].asked = cursor /\ pages'[i].next = p.next /\ ~(i < n + 1)
          BY <1>1, <1>2, <1>4, <3>2
        <4>4. p.next \in cursors' \cup {Start}
          BY <1>3
        <4>5. i # 1 => pages'[i - 1].next = cursor
          BY <2>3, <4>2
        <4>6. QED
          BY <4>1, <4>3, <4>4, <4>5
      <3>3. QED
        BY <1>1, <3>1, <3>2
    <2>7. \A i, j \in DOMAIN pages' : i < j => pages'[i].next # pages'[j].next
      <3> SUFFICES ASSUME NEW i \in 1..(n + 1), NEW j \in 1..(n + 1), i < j
                   PROVE  pages'[i].next # pages'[j].next
        BY <1>4
      <3>1. i \in 1..n
        BY <1>1
      <3>2. CASE j \in 1..n
        BY <1>1, <1>4, <3>1, <3>2 DEF ThreadInv, PagesChain
      <3>3. CASE j = n + 1
        <4>1. pages'[j].next = p.next /\ pages'[i] = pages[i] /\ pages[i].next \in cursors
          BY <1>2, <1>4, <2>5, <3>1, <3>3
        <4>2. pages'[i].next \in cursors
          BY <4>1, Zenon
        <4>3. QED
          BY <4>1, <4>2, Zenon
      <3>4. n \in Nat /\ j \in 1..(n + 1)
        BY <1>1
      <3>5. j \in 1..n \/ j = n + 1
        BY <3>4
      <3>6. QED
        BY <3>2, <3>3, <3>5
    <2>8. QED
      BY <2>1, <2>2, <2>6, <2>7 DEF PagesChain
  <1>9. CommentsOfPages'
    <2>1. \A x : x \in Thread!OfPages' <=> x \in Thread!OfPages \cup Elements(p.ids)
      BY <1>1, <1>2, <1>4 DEF Thread!OfPages, Elements
    <2>2. Thread!OfPages' = Thread!OfPages \cup Elements(p.ids)
      BY <2>1
    <2>3. QED
      BY <1>6, <2>2 DEF ThreadInv, CommentsOfPages
  <1>10. LoadAsks'
    BY <1>5 DEF LoadAsks
  <1>11. Thread!LoadDriven'
    BY <1>1, <1>5 DEF ThreadInv, ThreadTypes, Thread!LoadDriven
  <1>12. QED
    BY <1>7, <1>8, <1>9, <1>10, <1>11 DEF ThreadInv

LEMMA ResultKeeps ==
    ASSUME ThreadInv, NEW g \in Thread!Gen, Thread!Result(g)
    PROVE  ThreadInv'
  <1>1. /\ load \in [Thread!Gen -> LoadOf] /\ load[g] \in LoadOf /\ load[g].at = "result"
        /\ threadGeneration \in Thread!Gen /\ g <= threadGeneration /\ loading \in BOOLEAN /\ error \in BOOLEAN
        /\ loading <=> load[threadGeneration].at # "none"
        /\ load' = [load EXCEPT ![g].at = "leave"]
        /\ UNCHANGED <<threadGeneration, loading, threadRequests>>
        /\ threadRequests \in SUBSET Thread!Gen
    BY DEF ThreadInv, ThreadTypes, Thread!LoadDriven, Thread!Gen, Thread!Result, Thread!At
  <1>2. CASE UNCHANGED Thread!thread /\ error' \in BOOLEAN
    <2> DEFINE l == [load[g] EXCEPT !.at = "leave"]
    <2>1. l \in LoadOf /\ l.at = "leave" /\ load' = [load EXCEPT ![g] = l]
      BY <1>1 DEF LoadOf
    <2> HIDE DEF l
    <2>2. LoadSteps(g, l)
      BY <1>1, <1>2, <2>1 DEF LoadSteps, Thread!thread
    <2>3. QED
      BY <2>2, LoadStepKeeps
  <1>3. ASSUME NEW p \in Thread!Answer, p.next \notin cursors, Thread!Accept(g, p), g = threadGeneration,
               UNCHANGED error
        PROVE  ThreadInv'
    BY <1>1, <1>3, AcceptKeeps
  <1>4. QED
    BY <1>1, <1>2, <1>3 DEF Thread!Result, Thread!Current

\* The page after the last one is asked for.
LEMMA ThreadLoadsMore ==
    ASSUME ThreadInv, Thread!LoadMore
    PROVE  ThreadInv'
  <1>1. /\ load \in [Thread!Gen -> LoadOf] /\ threadGeneration \in Thread!Gen /\ ~loading /\ hasMore
        /\ loading' /\ error' = FALSE /\ load' = [load EXCEPT ![threadGeneration] = Thread!Started]
        /\ UNCHANGED <<threadGeneration, threadRequests, hasMore, cursor, cursors, comments, pages>>
        /\ threadRequests \in SUBSET Thread!Gen
        /\ \A h \in threadRequests : load[h].at \in {"result", "leave"}
        /\ load[threadGeneration].at = "none" /\ loading' \in BOOLEAN /\ threadGeneration \in Nat
    BY DEF ThreadInv, ThreadTypes, Thread!LoadDriven, Thread!Gen, Thread!LoadMore, Thread!thread
  <1>2. Thread!Started \in LoadOf /\ Thread!Started.at = "opening" /\ Thread!Started.asked = cursor
    BY DEF ThreadInv, ThreadTypes, LoadOf, Thread!Started
  <1>3. threadGeneration \notin threadRequests
    BY <1>1
  <1>4. /\ error' \in BOOLEAN /\ threadGeneration <= threadGeneration
        /\ loading' <=> Thread!Started.at # "none"
        /\ threadRequests' \in SUBSET Thread!Gen
        /\ \A h \in threadRequests' : h \in threadRequests \/ h = threadGeneration
        /\ threadGeneration \in threadRequests' => Thread!Started.at \in {"result", "leave"}
    <2>1. error' \in BOOLEAN /\ threadGeneration <= threadGeneration
      <3>1. error' \in BOOLEAN
        BY <1>1
      <3>2. threadGeneration \in Nat
        BY <1>1
      <3>3. QED
        BY <3>1, <3>2
    <2>2. loading' <=> Thread!Started.at # "none"
      <3>1. loading' /\ Thread!Started.at # "none"
        BY <1>1, <1>2
      <3>2. QED
        BY <3>1
    <2>3. threadRequests' = threadRequests
      BY <1>1
    <2>4. QED
      BY <1>1, <1>3, <2>1, <2>2, <2>3
  <1>6. LoadSteps(threadGeneration, Thread!Started)
    BY <1>1, <1>2, <1>4 DEF LoadSteps
  <1>7. QED
    BY <1>6, LoadStepKeeps

LEMMA RefreshKeeps ==
    ASSUME ThreadInv, Thread!Refresh
    PROVE  ThreadInv'
  <1>1. PICK n \in Nat : n = threadGeneration + 1
    BY DEF ThreadInv, ThreadTypes
  <1>2. n \in Thread!Gen /\ n \in 0..MaxGen /\ threadGeneration \in Nat /\ threadGeneration < n
    BY <1>1, ThreadBounds DEF ThreadInv, ThreadTypes, Thread!Refresh, Thread!Gen
  <1>3. /\ comments' = <<>> /\ pages' = <<>> /\ cursors' = {} /\ cursor' = Start
        /\ hasMore' = TRUE /\ error' = FALSE /\ loading' = TRUE /\ threadGeneration' = n
        /\ load' = [load EXCEPT ![n] = [at |-> "opening", asked |-> Start]]
        /\ UNCHANGED threadRequests
    BY <1>1 DEF Thread!Refresh
  <1>4. /\ load \in [Thread!Gen -> LoadOf] /\ threadRequests \in SUBSET Thread!Gen
        /\ \A g \in Thread!Gen : g > threadGeneration => load[g].at = "none"
        /\ \A g \in threadRequests : load[g].at \in {"result", "leave"}
    BY DEF ThreadInv, ThreadTypes, Thread!LoadDriven
  <1>5. /\ load' \in [Thread!Gen -> LoadOf] /\ load'[n].at = "opening" /\ load'[n].asked = Start
        /\ \A g \in Thread!Gen : g # n => load'[g] = load[g]
    BY <1>2, <1>3, <1>4 DEF LoadOf
  <1>6. n \notin threadRequests
    BY <1>2, <1>4
  <1>7. \A g \in Thread!Gen : g > n => load'[g].at = "none"
    BY <1>2, <1>4, <1>5 DEF Thread!Gen
  <1>8. ThreadTypes'
    <2>1. comments' \in Seq(Comment) /\ pages' \in Seq(PageOf) /\ cursors' \in SUBSET Cursor
      BY <1>3
    <2>2. \A g \in Thread!Gen : g > threadGeneration' => load'[g].at = "none"
      BY <1>3, <1>7
    <2>3. /\ threadGeneration' \in 0..MaxGen /\ loading' \in BOOLEAN /\ hasMore' \in BOOLEAN
          /\ error' \in BOOLEAN /\ cursor' \in Cursor \cup {Start}
      BY <1>2, <1>3
    <2>4. QED
      BY <1>3, <1>4, <1>5, <2>1, <2>2, <2>3 DEF ThreadTypes
  <1>9. PagesChain'
    BY <1>3 DEF PagesChain, NextOf
  <1>10. CommentsOfPages'
    BY <1>3 DEF CommentsOfPages, Different, Elements, Thread!OfPages
  <1>11. LoadAsks'
    BY <1>3, <1>5 DEF LoadAsks
  <1>12. Thread!LoadDriven'
    BY <1>3, <1>4, <1>5, <1>6 DEF Thread!LoadDriven
  <1>13. QED
    BY <1>8, <1>9, <1>10, <1>11, <1>12 DEF ThreadInv

LEMMA ThreadInvInit == Thread!ThreadInit => ThreadInv
  <1> SUFFICES ASSUME Thread!ThreadInit
               PROVE  ThreadInv
    OBVIOUS
  <1>1. 0 \in Thread!Gen /\ 0 \in 0..MaxGen /\ Thread!NoLoad \in LoadOf /\ Thread!NoLoad.at = "none"
    BY ThreadBounds DEF Thread!Gen, Thread!NoLoad, LoadOf
  <1>2. ThreadTypes /\ LoadAsks /\ Thread!LoadDriven
    BY <1>1 DEF Thread!ThreadInit, ThreadTypes, LoadAsks, Thread!LoadDriven
  <1>3. PagesChain /\ CommentsOfPages
    BY DEF Thread!ThreadInit, PagesChain, NextOf, CommentsOfPages, Different, Elements, Thread!OfPages
  <1>4. QED
    BY <1>2, <1>3 DEF ThreadInv

LEMMA ThreadInvStep ==
    ASSUME ThreadInv, Thread!ThreadNext
    PROVE  ThreadInv'
  BY ThreadLoadsMore, RefreshKeeps, LoadGoesOn, ResultKeeps DEF Thread!ThreadNext

-----------------------------------------------------------------------------
(* The bookmarks.                                                            *)

\* A sequence in the order of its keys.
Ascends(s, key) == \A i, j \in DOMAIN s : i < j => key[s[i]] < key[s[j]]

LEMMA KeysDiffer ==
    ASSUME NEW S, NEW key \in [S -> Int], NEW x \in S, NEW y \in S, key[x] < key[y]
    PROVE  x # y /\ ~(key[y] < key[x])
  <1>1. PICK a \in Int, b \in Int : a = key[x] /\ b = key[y]
    OBVIOUS
  <1>2. a < b
    BY <1>1
  <1>3. a # b /\ ~(b < a)
    BY <1>2
  <1>4. QED
    BY <1>1, <1>3

LEMMA SameSequence ==
    ASSUME NEW S, NEW n, NEW s \in [1..n -> S], NEW t \in [1..n -> S], \A i \in 1..n : s[i] = t[i]
    PROVE  s = t
  <1>1. s = [i \in 1..n |-> s[i]] /\ t = [i \in 1..n |-> t[i]]
    OBVIOUS
  <1>2. [i \in 1..n |-> s[i]] = [i \in 1..n |-> t[i]]
    OBVIOUS
  <1>3. QED
    BY <1>1, <1>2

\* The elements of a set, all of them, in the order of their keys.
Orders(s, S, n, key) == /\ s \in [1..n -> S] /\ Ascends(s, key)
                        /\ \A x \in S : \E i \in 1..n : s[i] = x

\* There is at most one such sequence.
LEMMA OrderIsOne ==
    ASSUME NEW S, NEW key \in [S -> Int], NEW n \in Nat, NEW s, NEW t,
           Orders(s, S, n, key), Orders(t, S, n, key)
    PROVE  s = t
  <1>1. SUFFICES ASSUME s # t
                 PROVE  FALSE
    OBVIOUS
  <1>0. \A x, y \in S : key[x] < key[y] => x # y /\ ~(key[y] < key[x])
    BY KeysDiffer
  <1>14. s \in [1..n -> S] /\ t \in [1..n -> S]
    BY DEF Orders
  <1> DEFINE T == {i \in 1..n : s[i] # t[i]}
  <1>2. T \in SUBSET Nat /\ T # {}
    <2>1. ~\A i \in 1..n : s[i] = t[i]
      BY <1>1, <1>14, SameSequence
    <2>2. QED
      BY <2>1
  <1>3. PICK k \in T : \A y \in T : k <= y
    BY <1>2, LeastNat
  <1>4. k \in 1..n /\ s[k] # t[k] /\ s[k] \in S /\ t[k] \in S
    BY <1>3, <1>14
  <1>5. \A i \in 1..n : i < k => s[i] = t[i]
    <2> SUFFICES ASSUME NEW i \in 1..n, i < k, s[i] # t[i]
                 PROVE  FALSE
      OBVIOUS
    <2>1. i \in T /\ k <= i
      BY <1>3
    <2>2. QED
      BY <1>4, <2>1
  <1> HIDE DEF T
  <1>6. PICK j \in 1..n : t[j] = s[k]
    BY <1>4 DEF Orders
  <1>7. PICK i \in 1..n : s[i] = t[k]
    BY <1>4 DEF Orders
  <1>8. j > k
    <2>1. j # k
      BY <1>4, <1>6
    <2>2. j < k => FALSE
      <3> SUFFICES ASSUME j < k
                   PROVE  FALSE
        OBVIOUS
      <3>1. s[j] = s[k] /\ key[s[j]] < key[s[k]]
        BY <1>4, <1>5, <1>6, <1>14 DEF Orders, Ascends
      <3>2. QED
        BY <1>0, <1>4, <3>1
    <2>3. QED
      BY <1>4, <1>6, <2>1, <2>2
  <1>9. i > k
    <2>1. i # k
      BY <1>4, <1>7
    <2>2. i < k => FALSE
      <3> SUFFICES ASSUME i < k
                   PROVE  FALSE
        OBVIOUS
      <3>1. t[i] = t[k] /\ key[t[i]] < key[t[k]]
        BY <1>4, <1>5, <1>7, <1>14 DEF Orders, Ascends
      <3>2. QED
        BY <1>0, <1>4, <3>1
    <2>3. QED
      BY <1>4, <1>7, <2>1, <2>2
  <1>10. key[t[k]] < key[s[k]]
    <2>1. key[t[k]] < key[t[j]]
      BY <1>4, <1>6, <1>8, <1>14 DEF Orders, Ascends
    <2>2. QED
      BY <1>6, <2>1
  <1>11. key[s[k]] < key[t[k]]
    <2>1. key[s[k]] < key[s[i]]
      BY <1>4, <1>7, <1>9, <1>14 DEF Orders, Ascends
    <2>2. QED
      BY <1>7, <2>1
  <1>12. QED
    BY <1>0, <1>4, <1>10, <1>11

LEMMA AscendsDifferent ==
    ASSUME NEW S, NEW key \in [S -> Int], NEW s \in Seq(S), Ascends(s, key)
    PROVE  Different(s)
  <1> SUFFICES ASSUME NEW i \in DOMAIN s, NEW j \in DOMAIN s, s[i] = s[j], i # j
               PROVE  FALSE
    BY DEF Different
  <1>1. i \in Nat /\ j \in Nat /\ s[i] \in S /\ s[j] \in S
    OBVIOUS
  <1>2. i < j \/ j < i
    BY <1>1
  <1>3. key[s[i]] < key[s[j]] \/ key[s[j]] < key[s[i]]
    BY <1>2 DEF Ascends
  <1>4. key[s[i]] \in Int
    BY <1>1
  <1>5. QED
    BY <1>3, <1>4

\* A sequence that has the elements of a set in the order of its keys is what
\* InOrder says.
LEMMA InOrderIs ==
    ASSUME NEW S, NEW key \in [S -> Int], NEW s \in Seq(S), Elements(s) = S, Ascends(s, key)
    PROVE  s = Marks!InOrder(S, key)
  <1> DEFINE n == Len(s)
             Good(t) == /\ \A x \in S : \E i \in DOMAIN t : t[i] = x
                        /\ \A i, j \in DOMAIN t : i < j => key[t[i]] < key[t[j]]
  <1>1. Marks!Cardinality(S) = n
    <2>1. Marks!Cardinality(S) = Cardinality(S)
      BY Zenon DEF Marks!Cardinality, Cardinality
    <2>2. QED
      BY <2>1, DifferentCount, AscendsDifferent
  <1>2. n \in Nat /\ s \in [1..n -> S] /\ DOMAIN s = 1..n
    OBVIOUS
  <1>3. Good(s)
    BY DEF Elements, Ascends
  <1>4. Marks!InOrder(S, key) = CHOOSE t \in [1..n -> S] : Good(t)
    BY <1>1, Zenon DEF Marks!InOrder
  <1> HIDE DEF n, Good
  <1>5. PICK t : t = CHOOSE u \in [1..n -> S] : Good(u)
    OBVIOUS
  <1>6. t \in [1..n -> S] /\ Good(t)
    BY <1>2, <1>3, <1>5
  <1>7. DOMAIN t = 1..n
    BY <1>6
  <1>8. t = s
    <2>1. Orders(s, S, n, key)
      BY <1>2, <1>3 DEF Good, Orders
    <2>2. Orders(t, S, n, key)
      BY <1>6, <1>7 DEF Good, Orders, Ascends
    <2>3. QED
      BY <1>2, <2>1, <2>2, OrderIsOne
  <1>9. QED
    BY <1>4, <1>5, <1>8

MarkOf == [id : Nat, book : MarkBook]
Newest(s, R) == /\ s \in Seq(R) /\ Elements(s) = R
                /\ \A i, j \in DOMAIN s : i < j => s[i].id > s[j].id

LEMMA NewestIsOrder ==
    ASSUME NEW R \in SUBSET MarkOf, NEW s, Newest(s, R)
    PROVE  s = Marks!InOrder(R, [m \in R |-> 0 - m.id])
  <1> DEFINE key == [m \in R |-> 0 - m.id]
  <1>1. \A m \in R : m.id \in Nat
    BY DEF MarkOf
  <1>2. s \in Seq(R) /\ Elements(s) = R /\ \A i, j \in DOMAIN s : i < j => s[i].id > s[j].id
    BY DEF Newest
  <1>4. key \in [R -> Int] /\ \A m \in R : key[m] = 0 - m.id
    BY <1>1
  <1> HIDE DEF key
  <1>5. Ascends(s, key)
    <2> SUFFICES ASSUME NEW i \in DOMAIN s, NEW j \in DOMAIN s, i < j
                 PROVE  key[s[i]] < key[s[j]]
      BY DEF Ascends
    <2>1. s[i] \in R /\ s[j] \in R /\ s[i].id > s[j].id
      BY <1>2
    <2>2. s[i].id \in Nat /\ s[j].id \in Nat /\ key[s[i]] = 0 - s[i].id /\ key[s[j]] = 0 - s[j].id
      BY <1>1, <1>4, <2>1
    <2>3. QED
      BY <2>1, <2>2
  <1>6. s = Marks!InOrder(R, key)
    BY <1>2, <1>4, <1>5, InOrderIs
  <1>7. QED
    BY <1>6 DEF key

LEMMA NewestIsList ==
    ASSUME markRows \in SUBSET MarkOf, NEW b, NEW s, Newest(s, Marks!RowsOf(b))
    PROVE  s = Marks!ListOf(b)
  <1>1. Marks!RowsOf(b) \in SUBSET MarkOf
    BY DEF Marks!RowsOf
  <1>2. PICK R : R = Marks!RowsOf(b)
    OBVIOUS
  <1>3. s = Marks!InOrder(R, [m \in R |-> 0 - m.id])
    BY <1>1, <1>2, NewestIsOrder
  <1>4. QED
    BY <1>2, <1>3 DEF Marks!ListOf

\* A new bookmark goes on top.
LEMMA NewestAdds ==
    ASSUME NEW R \in SUBSET MarkOf, NEW s, Newest(s, R), NEW x \in MarkOf, \A m \in R : m.id < x.id
    PROVE  Newest(<<x>> \o s, R \cup {x})
  <1> DEFINE t == <<x>> \o s
             n == Len(s)
  <1>1. s \in Seq(R) /\ Elements(s) = R /\ \A i, j \in DOMAIN s : i < j => s[i].id > s[j].id
    BY DEF Newest
  <1>2. n \in Nat /\ DOMAIN s = 1..n
    BY <1>1
  <1>3. s \in Seq(R \cup {x}) /\ <<x>> \in Seq(R \cup {x}) /\ Len(<<x>>) = 1 /\ <<x>>[1] = x
    BY <1>1
  <1>4. /\ t \in Seq(R \cup {x}) /\ Len(t) = n + 1 /\ DOMAIN t = 1..(n + 1)
        /\ t[1] = x /\ \A i \in 2..(n + 1) : t[i] = s[i - 1]
    BY <1>2, <1>3
  <1> HIDE DEF t, n
  <1>5. \A y : y \in Elements(t) <=> y \in R \cup {x}
    <2> SUFFICES ASSUME NEW y
                 PROVE  y \in Elements(t) <=> y \in R \cup {x}
      OBVIOUS
    <2>1. y \in Elements(t) <=> \E i \in 1..(n + 1) : t[i] = y
      BY <1>4 DEF Elements
    <2>2. y \in R <=> \E i \in 1..n : s[i] = y
      BY <1>1, <1>2 DEF Elements
    <2>3. (\E i \in 1..n : s[i] = y) => \E i \in 1..(n + 1) : t[i] = y
      <3> SUFFICES ASSUME NEW i \in 1..n, s[i] = y
                   PROVE  \E j \in 1..(n + 1) : t[j] = y
        OBVIOUS
      <3>1. i + 1 \in 2..(n + 1) /\ i + 1 \in 1..(n + 1) /\ (i + 1) - 1 = i
        BY <1>2
      <3>2. QED
        BY <1>4, <3>1
    <2>4. (\E i \in 1..(n + 1) : t[i] = y) => y = x \/ \E i \in 1..n : s[i] = y
      <3> SUFFICES ASSUME NEW i \in 1..(n + 1), t[i] = y, i # 1
                   PROVE  \E j \in 1..n : s[j] = y
        BY <1>4
      <3>1. i \in 2..(n + 1) /\ i - 1 \in 1..n
        BY <1>2
      <3>2. QED
        BY <1>4, <3>1
    <2>5. y = x => \E i \in 1..(n + 1) : t[i] = y
      <3>1. 1 \in 1..(n + 1)
        BY <1>2
      <3>2. QED
        BY <1>4, <3>1
    <2>6. QED
      BY <2>1, <2>2, <2>3, <2>4, <2>5
  <1>6. \A i, j \in DOMAIN t : i < j => t[i].id > t[j].id
    <2> SUFFICES ASSUME NEW i \in 1..(n + 1), NEW j \in 1..(n + 1), i < j
                 PROVE  t[i].id > t[j].id
      BY <1>4
    <2>1. j \in 2..(n + 1) /\ j - 1 \in 1..n /\ t[j] = s[j - 1]
      BY <1>2, <1>4
    <2>2. CASE i = 1
      <3>1. s[j - 1] \in R
        BY <1>1, <1>2, <2>1
      <3>2. s[j - 1].id < x.id /\ s[j - 1].id \in Nat /\ x.id \in Nat
        BY <3>1 DEF MarkOf
      <3>3. QED
        BY <1>4, <2>1, <2>2, <3>2
    <2>3. CASE i # 1
      <3>1. i \in 2..(n + 1) /\ i - 1 \in 1..n /\ t[i] = s[i - 1] /\ i - 1 < j - 1
        BY <1>2, <1>4, <2>3
      <3>2. QED
        BY <1>1, <1>2, <2>1, <3>1
    <2>4. QED
      BY <2>2, <2>3
  <1>7. Elements(t) = R \cup {x}
    BY <1>5
  <1>8. QED
    BY <1>4, <1>6, <1>7 DEF Newest, t

\* One of the bookmarks goes.
Cut(s, k) == [i \in 1..(Len(s) - 1) |-> s[IF i < k THEN i ELSE i + 1]]
LEMMA NewestLoses ==
    ASSUME NEW R \in SUBSET MarkOf, NEW s, Newest(s, R), NEW k \in DOMAIN s
    PROVE  Newest(Cut(s, k), {m \in R : m.id # s[k].id})
  <1> DEFINE n == Len(s)
             t == Cut(s, k)
             Left == {m \in R : m.id # s[k].id}
             at(i) == IF i < k THEN i ELSE i + 1
  <1>1. s \in Seq(R) /\ Elements(s) = R /\ \A i, j \in DOMAIN s : i < j => s[i].id > s[j].id
    BY DEF Newest
  <1>2. n \in Nat /\ DOMAIN s = 1..n /\ k \in 1..n /\ n - 1 \in Nat
    BY <1>1
  <1>3. \A i \in 1..n : s[i] \in R /\ s[i].id \in Nat
    BY <1>1, <1>2 DEF MarkOf
  <1>4. /\ DOMAIN t = 1..(n - 1) /\ \A i \in 1..(n - 1) : t[i] = s[at(i)]
        /\ \A i \in 1..(n - 1) : at(i) \in 1..n /\ at(i) # k
        /\ \A i, j \in 1..(n - 1) : i < j => at(i) < at(j)
    BY <1>2 DEF Cut
  <1>5. \A i \in 1..n : i # k => s[i] \in Left
    <2> SUFFICES ASSUME NEW i \in 1..n, i # k
                 PROVE  s[i].id # s[k].id
      BY <1>3
    <2>1. i < k \/ k < i
      BY <1>2
    <2>2. s[i].id > s[k].id \/ s[k].id > s[i].id
      BY <1>1, <1>2, <2>1
    <2>3. QED
      BY <1>2, <1>3, <2>2
  <1>6. \A m \in Left : \E i \in 1..n : i # k /\ s[i] = m
    BY <1>1, <1>2 DEF Elements
  <1>7. \A i \in 1..n : i # k => \E j \in 1..(n - 1) : at(j) = i
    <2> SUFFICES ASSUME NEW i \in 1..n, i # k
                 PROVE  \E j \in 1..(n - 1) : at(j) = i
      OBVIOUS
    <2>1. CASE i < k
      <3>1. i \in 1..(n - 1) /\ at(i) = i
        BY <1>2, <2>1
      <3>2. QED
        BY <3>1
    <2>2. CASE i > k
      <3>1. i - 1 \in 1..(n - 1) /\ at(i - 1) = i
        BY <1>2, <2>2
      <3>2. QED
        BY <3>1
    <2>3. QED
      BY <1>2, <2>1, <2>2
  <1> HIDE DEF t, Left, n, at
  <1>8. \A i \in 1..(n - 1) : t[i] \in Left
    BY <1>4, <1>5
  <1>9. t \in Seq(Left)
    <2>1. t = [i \in 1..(n - 1) |-> t[i]]
      BY DEF t, Cut, n
    <2>2. t \in [1..(n - 1) -> Left]
      BY <1>8, <2>1
    <2>3. QED
      BY <1>2, <2>2
  <1>10. Elements(t) = Left
    <2>1. \A m \in Left : \E j \in 1..(n - 1) : t[j] = m
      <3> SUFFICES ASSUME NEW m \in Left
                   PROVE  \E j \in 1..(n - 1) : t[j] = m
        OBVIOUS
      <3>1. PICK i \in 1..n : i # k /\ s[i] = m
        BY <1>6
      <3>2. PICK j \in 1..(n - 1) : at(j) = i
        BY <1>7, <3>1
      <3>3. QED
        BY <1>4, <3>1, <3>2
    <2>2. QED
      BY <1>4, <1>8, <2>1 DEF Elements
  <1>11. \A i, j \in DOMAIN t : i < j => t[i].id > t[j].id
    <2> SUFFICES ASSUME NEW i \in 1..(n - 1), NEW j \in 1..(n - 1), i < j
                 PROVE  t[i].id > t[j].id
      BY <1>4
    <2>1. at(i) \in 1..n /\ at(j) \in 1..n /\ at(i) < at(j) /\ t[i] = s[at(i)] /\ t[j] = s[at(j)]
      BY <1>4
    <2>2. QED
      BY <1>1, <1>2, <2>1
  <1>12. QED
    BY <1>9, <1>10, <1>11 DEF Newest, t, Left

\* To keep all but one of the bookmarks is to cut that one out.
LEMMA WithoutIs ==
    ASSUME NEW R \in SUBSET MarkOf, NEW s, Newest(s, R), NEW k \in DOMAIN s,
           NEW call, call.answer # <<>>, call.id = s[k].id
    PROVE  Marks!Without(s, call) = Cut(s, k)
  <1> DEFINE n == Len(s)
             K == Marks!Kept(s, call.id)
             key == [i \in K |-> i]
             e == [i \in 1..(n - 1) |-> IF i < k THEN i ELSE i + 1]
  <1>1. s \in Seq(R) /\ Elements(s) = R /\ \A i, j \in DOMAIN s : i < j => s[i].id > s[j].id
    BY DEF Newest
  <1>2. n \in Nat /\ DOMAIN s = 1..n /\ k \in 1..n /\ n - 1 \in Nat
    BY <1>1
  <1>3. \A i \in 1..n : s[i] \in R /\ s[i].id \in Nat
    BY <1>1, <1>2 DEF MarkOf
  <1>4. \A i \in 1..n : s[i].id # s[k].id <=> i # k
    <2> SUFFICES ASSUME NEW i \in 1..n, i # k
                 PROVE  s[i].id # s[k].id
      OBVIOUS
    <2>1. i < k \/ k < i
      BY <1>2
    <2>2. s[i].id > s[k].id \/ s[k].id > s[i].id
      BY <1>1, <1>2, <2>1
    <2>3. QED
      BY <1>2, <1>3, <2>2
  <1>5. K = (1..n) \ {k}
    BY <1>2, <1>4 DEF Marks!Kept
  <1>6. Marks!Without(s, call) = LET kept == Marks!InOrder(K, key) IN [i \in DOMAIN kept |-> s[kept[i]]]
    BY DEF Marks!Without
  <1> HIDE DEF K
  <1>7. key \in [K -> Int] /\ \A i \in K : key[i] = i
    BY <1>5
  <1>8. /\ DOMAIN e = 1..(n - 1) /\ \A i \in 1..(n - 1) : e[i] = IF i < k THEN i ELSE i + 1
        /\ \A i \in 1..(n - 1) : e[i] \in K
    BY <1>2, <1>5
  <1>9. e \in Seq(K)
    <2>1. e \in [1..(n - 1) -> K]
      BY <1>8
    <2>2. QED
      BY <1>2, <2>1
  <1>10. Cut(s, k) = [i \in DOMAIN e |-> s[e[i]]]
    <2>1. \A i \in 1..(n - 1) : s[IF i < k THEN i ELSE i + 1] = s[e[i]]
      BY <1>8
    <2>2. QED
      BY <1>8, <2>1 DEF Cut
  <1> HIDE DEF key, e
  <1>11. Elements(e) = K
    <2>1. \A i \in K : \E j \in 1..(n - 1) : e[j] = i
      <3> SUFFICES ASSUME NEW i \in 1..n, i # k
                   PROVE  \E j \in 1..(n - 1) : e[j] = i
        BY <1>5
      <3>1. CASE i < k
        <4>1. i \in 1..(n - 1) /\ e[i] = i
          BY <1>2, <1>8, <3>1
        <4>2. QED
          BY <4>1
      <3>2. CASE i > k
        <4>1. i - 1 \in 1..(n - 1)
          BY <1>2, <3>2
        <4>2. e[i - 1] = i
          BY <1>2, <1>8, <3>2, <4>1
        <4>3. QED
          BY <4>1, <4>2
      <3>3. QED
        BY <1>2, <3>1, <3>2
    <2>2. QED
      BY <1>8, <2>1 DEF Elements
  <1>12. Ascends(e, key)
    <2> SUFFICES ASSUME NEW i \in 1..(n - 1), NEW j \in 1..(n - 1), i < j
                 PROVE  key[e[i]] < key[e[j]]
      BY <1>8 DEF Ascends
    <2>1. e[i] < e[j]
      BY <1>2, <1>8
    <2>2. QED
      BY <1>7, <1>8, <2>1
  <1>13. e = Marks!InOrder(K, key)
    BY <1>7, <1>9, <1>11, <1>12, InOrderIs
  <1>14. QED
    BY <1>6, <1>10, <1>13

MarkCall(c) == c = [n |-> c.n, kind |-> c.kind, book |-> c.book, id |-> c.id, stage |-> c.stage, answer |-> c.answer]
MarkTypes ==
    /\ markRows \in SUBSET MarkOf /\ nextMark \in Nat /\ \A m \in markRows : m.id < nextMark
    /\ markBook \in MarkBook \cup {""} /\ crossed \in BOOLEAN
    /\ \A c \in markCalls : /\ MarkCall(c) /\ c.kind \in {"list", "add", "remove"}
                            /\ c.stage \in {"sent", "done", "failed"}
                            /\ c.kind = "add" => c.book \in MarkBook
    /\ \A b \in MarkBook : \E s : Newest(s, Marks!RowsOf(b))

\* The sheet between the calls, and what a call that overlaps with no other
\* leaves to be done with its answer.
ShowsBook == shownMarks = IF markBook = "" THEN <<>> ELSE Marks!ListOf(markBook)
CallTells(c) ==
    /\ markBook \in MarkBook
    /\ c.kind = "list" => c.book = markBook /\ (c.stage = "done" => c.answer = Marks!ListOf(markBook))
    /\ c.kind = "add" => /\ c.book = markBook
                         /\ IF c.stage = "done" THEN c.answer \o shownMarks = Marks!ListOf(markBook)
                                                ELSE ShowsBook
    /\ c.kind = "remove" => IF c.stage = "done" THEN Marks!Without(shownMarks, c) = Marks!ListOf(markBook)
                            ELSE ShowsBook /\ \E k \in DOMAIN shownMarks : shownMarks[k].id = c.id
MarksInv == /\ MarkTypes
            /\ ~crossed => /\ markCalls = {} => ShowsBook
                           /\ \A c \in markCalls : markCalls = {c} /\ CallTells(c)

LEMMA MarksInvShows == MarksInv => Marks!MarksShown
  BY DEF MarksInv, ShowsBook, Marks!MarksShown

LEMMA MarksInvInit == Marks!MarksInit => MarksInv
  <1> SUFFICES ASSUME Marks!MarksInit
               PROVE  MarksInv
    OBVIOUS
  <1>1. \A b \in MarkBook : Newest(<<>>, Marks!RowsOf(b))
    <2>1. \A b \in MarkBook : Marks!RowsOf(b) = {}
      BY DEF Marks!MarksInit, Marks!RowsOf
    <2>2. <<>> \in Seq({}) /\ Elements(<<>>) = {} /\ DOMAIN <<>> = {}
      BY DEF Elements
    <2>3. Newest(<<>>, {})
      BY <2>2 DEF Newest
    <2>4. QED
      BY <2>1, <2>3
  <1>2. MarkTypes
    BY <1>1 DEF Marks!MarksInit, MarkTypes
  <1>3. QED
    BY <1>2 DEF Marks!MarksInit, MarksInv, ShowsBook

LEMMA SendTypes ==
    ASSUME MarkTypes, NEW kind \in {"list", "add", "remove"}, NEW b, NEW id, Marks!MarkSend(kind, b, id),
           kind = "add" => b \in MarkBook, UNCHANGED <<markRows, nextMark>>, markBook' \in MarkBook \cup {""}
    PROVE  /\ MarkTypes'
           /\ ~crossed' => /\ markCalls = {} /\ (crossed => kind = "list")
                           /\ \A c \in markCalls' : markCalls' = {c} /\ c.kind = kind /\ c.book = b /\ c.id = id
                                                    /\ c.stage = "sent"
  <1> DEFINE new == [n |-> markSent, kind |-> kind, book |-> b, id |-> id, stage |-> "sent", answer |-> <<>>]
  <1>1. markCalls' = markCalls \cup {new} /\ crossed' = (markCalls # {} \/ (crossed /\ kind # "list"))
    BY DEF Marks!MarkSend
  <1>2. MarkCall(new) /\ new.kind = kind /\ new.book = b /\ new.id = id /\ new.stage = "sent"
    BY DEF MarkCall
  <1> HIDE DEF new
  <1>3. \A c \in markCalls' : /\ MarkCall(c) /\ c.kind \in {"list", "add", "remove"}
                              /\ c.stage \in {"sent", "done", "failed"}
                              /\ c.kind = "add" => c.book \in MarkBook
    BY <1>1, <1>2 DEF MarkTypes
  <1>4. crossed' \in BOOLEAN
    BY <1>1
  <1>5. MarkTypes'
    BY <1>3, <1>4 DEF MarkTypes, Marks!RowsOf
  <1>6. ~crossed' => markCalls = {} /\ (crossed => kind = "list")
    BY <1>1
  <1>7. QED
    BY <1>1, <1>2, <1>5, <1>6

\* A call leaves for the native side.
LEMMA SendKeeps ==
    ASSUME MarksInv, \/ \E b \in MarkBook : Marks!LoadMarks(b)
                     \/ Marks!AddMark
                     \/ \E i \in DOMAIN shownMarks : Marks!RemoveMark(shownMarks[i])
    PROVE  MarksInv'
  <1>1. MarkTypes /\ markBook \in MarkBook \cup {""}
    BY DEF MarksInv, MarkTypes
  <1>2. ASSUME NEW b \in MarkBook, Marks!LoadMarks(b)
        PROVE  MarksInv'
    <2>1. /\ MarkTypes'
          /\ ~crossed' => \A c \in markCalls' : markCalls' = {c} /\ c.kind = "list" /\ c.book = b
                                                /\ c.stage = "sent"
      <3>1. Marks!MarkSend("list", b, 0) /\ markBook' = b /\ UNCHANGED <<markRows, nextMark>>
        BY <1>2 DEF Marks!LoadMarks
      <3>2. QED
        BY <1>1, <3>1, SendTypes
    <2>2. markBook' = b /\ markCalls' # {}
      BY <1>2 DEF Marks!LoadMarks, Marks!MarkSend
    <2>3. \A c \in markCalls' : ~crossed' => CallTells(c)'
      BY <2>1, <2>2 DEF CallTells
    <2>4. QED
      BY <2>1, <2>2, <2>3 DEF MarksInv
  <1>3. CASE Marks!AddMark
    <2>1. /\ Marks!MarkSend("add", markBook, 0) /\ markBook \in MarkBook
          /\ UNCHANGED <<markRows, nextMark, markBook, shownMarks>>
      BY <1>1, <1>3 DEF Marks!AddMark
    <2>2. /\ MarkTypes'
          /\ ~crossed' => /\ markCalls = {} /\ ~crossed
                          /\ \A c \in markCalls' : markCalls' = {c} /\ c.kind = "add" /\ c.book = markBook
                                                   /\ c.stage = "sent"
      BY <1>1, <2>1, SendTypes
    <2>3. markCalls' # {}
      BY <2>1 DEF Marks!MarkSend
    <2>4. ~crossed' => ShowsBook'
      BY <2>1, <2>2 DEF MarksInv, ShowsBook, Marks!ListOf, Marks!RowsOf
    <2>5. \A c \in markCalls' : ~crossed' => CallTells(c)'
      BY <2>1, <2>2, <2>4 DEF CallTells
    <2>6. QED
      BY <2>2, <2>3, <2>5 DEF MarksInv
  <1>4. ASSUME NEW i \in DOMAIN shownMarks, Marks!RemoveMark(shownMarks[i])
        PROVE  MarksInv'
    <2>1. /\ Marks!MarkSend("remove", shownMarks[i].book, shownMarks[i].id)
          /\ UNCHANGED <<markRows, nextMark, markBook, shownMarks>>
      BY <1>4 DEF Marks!RemoveMark
    <2>2. /\ MarkTypes'
          /\ ~crossed' => /\ markCalls = {} /\ ~crossed
                          /\ \A c \in markCalls' : markCalls' = {c} /\ c.kind = "remove"
                                                   /\ c.id = shownMarks[i].id /\ c.stage = "sent"
      <3>1. PICK b, id : b = shownMarks[i].book /\ id = shownMarks[i].id
        OBVIOUS
      <3>2. Marks!MarkSend("remove", b, id)
        BY <2>1, <3>1
      <3>3. markBook' \in MarkBook \cup {""}
        BY <1>1, <2>1
      <3>4. /\ MarkTypes'
            /\ ~crossed' => /\ markCalls = {} /\ (crossed => "remove" = "list")
                            /\ \A c \in markCalls' : markCalls' = {c} /\ c.kind = "remove" /\ c.book = b
                                                     /\ c.id = id /\ c.stage = "sent"
        BY <1>1, <2>1, <3>2, <3>3, SendTypes
      <3>5. QED
        BY <3>1, <3>4
    <2>3. markCalls' # {}
      BY <2>1 DEF Marks!MarkSend
    <2>4. ~crossed' => ShowsBook' /\ markBook' \in MarkBook
      <3>1. ~crossed' => ShowsBook
        BY <2>2 DEF MarksInv
      <3>2. ShowsBook => markBook # ""
        <4>1. DOMAIN shownMarks # {}
          BY <1>4
        <4>2. DOMAIN <<>> = {}
          OBVIOUS
        <4>3. QED
          BY <4>1, <4>2 DEF ShowsBook
      <3>3. ShowsBook => ShowsBook'
        BY <2>1 DEF ShowsBook, Marks!ListOf, Marks!RowsOf
      <3>4. QED
        BY <1>1, <2>1, <3>1, <3>2, <3>3
    <2>5. \A c \in markCalls' : ~crossed' => CallTells(c)'
      BY <1>4, <2>1, <2>2, <2>4 DEF CallTells
    <2>6. QED
      BY <2>2, <2>3, <2>5 DEF MarksInv
  <1>5. QED
    BY <1>2, <1>3, <1>4

\* Removing by id keeps the books' lists.
LEMMA RowsWithout ==
    ASSUME MarkTypes, NEW id, NEW b \in MarkBook, markRows' = {m \in markRows : m.id # id}
    PROVE  \E s : Newest(s, Marks!RowsOf(b)')
  <1> DEFINE R == Marks!RowsOf(b)
  <1>1. R \in SUBSET MarkOf
    BY DEF MarkTypes, Marks!RowsOf
  <1>2. PICK s : Newest(s, R)
    BY DEF MarkTypes
  <1>3. Marks!RowsOf(b)' = {m \in R : m.id # id}
    BY DEF Marks!RowsOf
  <1> HIDE DEF R
  <1>4. Elements(s) = R
    BY <1>2 DEF Newest
  <1>5. CASE \E k \in DOMAIN s : s[k].id = id
    <2>1. PICK k \in DOMAIN s : s[k].id = id
      BY <1>5
    <2>2. Newest(Cut(s, k), {m \in R : m.id # id})
      BY <1>1, <1>2, <2>1, NewestLoses
    <2>3. QED
      BY <1>3, <2>2
  <1>6. CASE ~\E k \in DOMAIN s : s[k].id = id
    <2>1. {m \in R : m.id # id} = R
      BY <1>4, <1>6 DEF Elements
    <2>2. QED
      BY <1>2, <1>3, <2>1
  <1>7. QED
    BY <1>5, <1>6

\* What a call that was handled becomes.
Becomes(call, stage, answer, d) ==
    /\ d = [call EXCEPT !.stage = stage, !.answer = answer] /\ stage \in {"done", "failed"}
    /\ markCalls' = (markCalls \ {call}) \cup {d}
LEMMA DoneTypes ==
    ASSUME MarkTypes, NEW call \in markCalls, NEW answer, NEW stage, NEW d, Becomes(call, stage, answer, d)
    PROVE  /\ \A c \in markCalls' : /\ MarkCall(c) /\ c.kind \in {"list", "add", "remove"}
                                    /\ c.stage \in {"sent", "done", "failed"}
                                    /\ c.kind = "add" => c.book \in MarkBook
           /\ d.kind = call.kind /\ d.book = call.book /\ d.id = call.id /\ d.stage = stage
           /\ d.answer = answer
           /\ markCalls = {call} => markCalls' = {d}
  <1>1. call = [n |-> call.n, kind |-> call.kind, book |-> call.book, id |-> call.id, stage |-> call.stage,
                answer |-> call.answer]
    BY DEF MarkTypes, MarkCall
  <1>2. d = [n |-> call.n, kind |-> call.kind, book |-> call.book, id |-> call.id, stage |-> stage,
             answer |-> answer]
    BY <1>1 DEF Becomes
  <1>3. d.kind = call.kind /\ d.book = call.book /\ d.id = call.id /\ d.stage = stage /\ d.answer = answer
    BY <1>2
  <1>4. MarkCall(d)
    BY <1>2 DEF MarkCall
  <1>5. QED
    BY <1>3, <1>4 DEF MarkTypes, Becomes

LEMMA HandleKeeps ==
    ASSUME MarksInv, NEW call \in markCalls, Marks!HandleMark(call)
    PROVE  MarksInv'
  <1>1. /\ MarkTypes /\ call.stage = "sent" /\ UNCHANGED <<markSent, markBook, shownMarks, crossed>>
        /\ ~crossed => markCalls = {call} /\ CallTells(call)
        /\ markRows \in SUBSET MarkOf
    BY DEF MarksInv, MarkTypes, Marks!HandleMark
  <1>2. \E k \in {"list", "add", "remove"} : call.kind = k
    BY <1>1 DEF MarkTypes
  <1>3. CASE call.kind = "list" /\ Marks!Done(call, Marks!ListOf(call.book)) /\ UNCHANGED <<markRows, nextMark>>
    <2> DEFINE d == [call EXCEPT !.stage = "done", !.answer = Marks!ListOf(call.book)]
    <2>1. markCalls' = (markCalls \ {call}) \cup {d}
      BY <1>3 DEF Marks!Done
    <2>2. PICK e : e = d
      OBVIOUS
    <2>3. PICK a : a = Marks!ListOf(call.book)
      OBVIOUS
    <2>4. /\ e = [call EXCEPT !.stage = "done", !.answer = a] /\ markCalls' = (markCalls \ {call}) \cup {e}
      BY <2>1, <2>2, <2>3
    <2> HIDE DEF d
    <2>5. /\ \A c \in markCalls' : /\ MarkCall(c) /\ c.kind \in {"list", "add", "remove"}
                                   /\ c.stage \in {"sent", "done", "failed"}
                                   /\ c.kind = "add" => c.book \in MarkBook
          /\ e.kind = call.kind /\ e.book = call.book /\ e.id = call.id /\ e.stage = "done" /\ e.answer = a
          /\ markCalls = {call} => markCalls' = {e}
      <3>1. MarkTypes /\ Becomes(call, "done", a, e)
        BY <1>1, <2>4 DEF Becomes
      <3>2. QED
        BY <3>1, DoneTypes
    <2>6. MarkTypes'
      BY <1>1, <1>3, <2>5 DEF MarkTypes, Marks!RowsOf
    <2>7. Marks!ListOf(markBook)' = Marks!ListOf(markBook)
      BY <1>1, <1>3 DEF Marks!ListOf, Marks!RowsOf
    <2>8. ~crossed' => markCalls' = {e} /\ CallTells(e)'
      BY <1>1, <1>3, <2>3, <2>5, <2>7 DEF CallTells
    <2>9. QED
      BY <2>6, <2>8 DEF MarksInv
  <1>4. CASE /\ call.kind = "add" /\ nextMark <= MaxMarks /\ nextMark' = nextMark + 1
             /\ markRows' = markRows \cup {[id |-> nextMark, book |-> call.book]}
             /\ Marks!Done(call, <<[id |-> nextMark, book |-> call.book]>>)
    <2> DEFINE x == [id |-> nextMark, book |-> call.book]
    <2>1. x \in MarkOf /\ x.id = nextMark /\ x.book = call.book /\ call.book \in MarkBook /\ nextMark \in Nat
      BY <1>1, <1>4 DEF MarkTypes, MarkOf
    <2> HIDE DEF x
    <2>2. PICK e : e = [call EXCEPT !.stage = "done", !.answer = <<x>>]
      OBVIOUS
    <2>3. markCalls' = (markCalls \ {call}) \cup {e} /\ markRows' = markRows \cup {x} /\ nextMark' = nextMark + 1
      BY <1>4, <2>2 DEF Marks!Done, x
    <2>4. PICK a : a = <<x>>
      OBVIOUS
    <2>5. e = [call EXCEPT !.stage = "done", !.answer = a]
      BY <2>2, <2>4
    <2>6. /\ \A c \in markCalls' : /\ MarkCall(c) /\ c.kind \in {"list", "add", "remove"}
                                   /\ c.stage \in {"sent", "done", "failed"}
                                   /\ c.kind = "add" => c.book \in MarkBook
          /\ e.kind = call.kind /\ e.book = call.book /\ e.id = call.id /\ e.stage = "done" /\ e.answer = a
          /\ markCalls = {call} => markCalls' = {e}
      <3>1. MarkTypes /\ Becomes(call, "done", a, e)
        BY <1>1, <2>3, <2>5 DEF Becomes
      <3>2. QED
        BY <3>1, DoneTypes
    <2>7. \A b \in MarkBook : \A s : Newest(s, Marks!RowsOf(b)) =>
             IF b = call.book THEN Newest(<<x>> \o s, Marks!RowsOf(b)') ELSE Newest(s, Marks!RowsOf(b)')
      <3> SUFFICES ASSUME NEW b \in MarkBook, NEW s, Newest(s, Marks!RowsOf(b))
                   PROVE  IF b = call.book THEN Newest(<<x>> \o s, Marks!RowsOf(b)')
                                           ELSE Newest(s, Marks!RowsOf(b)')
        OBVIOUS
      <3>1. CASE b = call.book
        <4>1. Marks!RowsOf(b)' = Marks!RowsOf(b) \cup {x}
          BY <2>1, <2>3, <3>1 DEF Marks!RowsOf
        <4>2. Marks!RowsOf(b) \in SUBSET MarkOf /\ \A m \in Marks!RowsOf(b) : m.id < x.id
          BY <1>1, <2>1 DEF MarkTypes, Marks!RowsOf
        <4>3. PICK R : R = Marks!RowsOf(b)
          OBVIOUS
        <4>4. R \in SUBSET MarkOf /\ Newest(s, R) /\ \A m \in R : m.id < x.id
          BY <4>2, <4>3
        <4>5. Newest(<<x>> \o s, R \cup {x})
          BY <2>1, <4>4, NewestAdds
        <4>6. QED
          BY <3>1, <4>1, <4>3, <4>5
      <3>2. CASE b # call.book
        <4>1. Marks!RowsOf(b)' = Marks!RowsOf(b)
          BY <2>1, <2>3, <3>2 DEF Marks!RowsOf
        <4>2. QED
          BY <3>2, <4>1
      <3>3. QED
        BY <3>1, <3>2
    <2>8. \A b \in MarkBook : \E s : Newest(s, Marks!RowsOf(b)')
      BY <1>1, <2>7 DEF MarkTypes
    <2>9. MarkTypes'
      <3>1. /\ markRows' \in SUBSET MarkOf /\ nextMark' \in Nat /\ \A m \in markRows' : m.id < nextMark'
        <4>1. \A m \in markRows : m.id \in Nat /\ m.id < nextMark
          BY <1>1 DEF MarkTypes, MarkOf
        <4>2. QED
          BY <1>1, <2>1, <2>3, <4>1
      <3>2. QED
        BY <1>1, <2>6, <2>8, <3>1 DEF MarkTypes
    <2>10. ~crossed' => markCalls' = {e} /\ CallTells(e)'
      <3> SUFFICES ASSUME ~crossed
                   PROVE  markCalls' = {e} /\ CallTells(e)'
        BY <1>1
      <3>1. markBook \in MarkBook /\ call.book = markBook /\ ShowsBook /\ markBook # ""
        BY <1>1, <1>4, MarkBounds DEF CallTells
      <3>2. PICK s : Newest(s, Marks!RowsOf(markBook))
        BY <1>1, <3>1 DEF MarkTypes
      <3>3. s = shownMarks
        BY <1>1, <3>1, <3>2, NewestIsList DEF ShowsBook
      <3>4. Newest(<<x>> \o s, Marks!RowsOf(markBook)')
        BY <1>1, <2>7, <3>1, <3>2
      <3>5. <<x>> \o s = Marks!ListOf(markBook)'
        <4>1. PICK t : t = <<x>> \o s
          OBVIOUS
        <4>2. Newest(t, Marks!RowsOf(markBook))'
          BY <1>1, <3>4, <4>1
        <4>3. (markRows \in SUBSET MarkOf)'
          BY <2>9 DEF MarkTypes
        <4>4. t = Marks!ListOf(markBook)'
          <5>1. PICK R1 : R1 = Marks!RowsOf(markBook)'
            OBVIOUS
          <5>2. R1 \in SUBSET MarkOf /\ Newest(t, R1)
            BY <4>2, <4>3, <5>1 DEF Marks!RowsOf
          <5>3. t = Marks!InOrder(R1, [m \in R1 |-> 0 - m.id])
            BY <5>2, NewestIsOrder
          <5>4. QED
            BY <5>1, <5>3 DEF Marks!ListOf
        <4>5. QED
          BY <4>1, <4>4
      <3>6. e.answer \o shownMarks' = Marks!ListOf(markBook)'
        BY <1>1, <2>4, <2>6, <3>3, <3>5
      <3>7. QED
        BY <1>1, <1>4, <2>6, <3>1, <3>6 DEF CallTells
    <2>11. QED
      BY <2>9, <2>10 DEF MarksInv
  <1>5. CASE /\ call.kind = "remove" /\ markRows' = {m \in markRows : m.id # call.id} /\ UNCHANGED nextMark
             /\ Marks!Done(call, IF \E m \in markRows : m.id = call.id THEN <<call.id>> ELSE <<>>)
    <2>1. PICK a : a = IF \E m \in markRows : m.id = call.id THEN <<call.id>> ELSE <<>>
      OBVIOUS
    <2>2. PICK e : e = [call EXCEPT !.stage = "done", !.answer = a]
      OBVIOUS
    <2>3. markCalls' = (markCalls \ {call}) \cup {e}
      BY <1>5, <2>1, <2>2 DEF Marks!Done
    <2>4. /\ \A c \in markCalls' : /\ MarkCall(c) /\ c.kind \in {"list", "add", "remove"}
                                   /\ c.stage \in {"sent", "done", "failed"}
                                   /\ c.kind = "add" => c.book \in MarkBook
          /\ e.kind = call.kind /\ e.book = call.book /\ e.id = call.id /\ e.stage = "done" /\ e.answer = a
          /\ markCalls = {call} => markCalls' = {e}
      <3>1. MarkTypes /\ Becomes(call, "done", a, e)
        BY <1>1, <2>2, <2>3 DEF Becomes
      <3>2. QED
        BY <3>1, DoneTypes
    <2>5. \A b \in MarkBook : \E s : Newest(s, Marks!RowsOf(b)')
      BY <1>1, <1>5, RowsWithout
    <2>6. MarkTypes'
      BY <1>1, <1>5, <2>4, <2>5 DEF MarkTypes
    <2>7. ~crossed' => markCalls' = {e} /\ CallTells(e)'
      <3> SUFFICES ASSUME ~crossed
                   PROVE  markCalls' = {e} /\ CallTells(e)'
        BY <1>1
      <3>1. markBook \in MarkBook /\ ShowsBook /\ markBook # "" /\ \E k \in DOMAIN shownMarks : shownMarks[k].id = call.id
        BY <1>1, <1>5, MarkBounds DEF CallTells
      <3>2. PICK s : Newest(s, Marks!RowsOf(markBook))
        BY <1>1, <3>1 DEF MarkTypes
      <3>3. s = shownMarks
        BY <1>1, <3>1, <3>2, NewestIsList DEF ShowsBook
      <3>4. PICK k \in DOMAIN s : s[k].id = call.id
        BY <3>1, <3>3
      <3>5. PICK R : R = Marks!RowsOf(markBook)
        OBVIOUS
      <3>6. R \in SUBSET MarkOf /\ Newest(s, R) /\ R \in SUBSET markRows
        BY <1>1, <3>2, <3>5 DEF Marks!RowsOf
      <3>7. Newest(Cut(s, k), {m \in R : m.id # s[k].id})
        BY <3>4, <3>6, NewestLoses
      <3>8. a # <<>>
        <4>1. s[k] \in markRows
          BY <3>6, <3>4 DEF Newest
        <4>2. a = <<call.id>>
          BY <2>1, <3>4, <4>1
        <4>3. QED
          BY <4>2
      <3>9. Marks!Without(s, e) = Cut(s, k)
        BY <2>4, <3>4, <3>6, <3>8, WithoutIs
      <3>10. Cut(s, k) = Marks!ListOf(markBook)'
        <4>1. PICK t : t = Cut(s, k)
          OBVIOUS
        <4>2. Marks!RowsOf(markBook)' = {m \in R : m.id # s[k].id}
          BY <1>1, <1>5, <3>4, <3>5 DEF Marks!RowsOf
        <4>3. Newest(t, Marks!RowsOf(markBook))'
          BY <3>7, <4>1, <4>2
        <4>4. (markRows \in SUBSET MarkOf)'
          BY <2>6 DEF MarkTypes
        <4>5. t = Marks!ListOf(markBook)'
          <5>1. PICK R1 : R1 = Marks!RowsOf(markBook)'
            OBVIOUS
          <5>2. R1 \in SUBSET MarkOf /\ Newest(t, R1)
            BY <4>3, <4>4, <5>1 DEF Marks!RowsOf
          <5>3. t = Marks!InOrder(R1, [m \in R1 |-> 0 - m.id])
            BY <5>2, NewestIsOrder
          <5>4. QED
            BY <5>1, <5>3 DEF Marks!ListOf
        <4>6. QED
          BY <4>1, <4>5
      <3>11. Marks!Without(shownMarks', e) = Marks!ListOf(markBook)'
        BY <1>1, <3>3, <3>9, <3>10
      <3>12. QED
        BY <1>1, <1>5, <2>4, <3>1, <3>11 DEF CallTells
    <2>8. QED
      BY <2>6, <2>7 DEF MarksInv
  <1>6. CASE /\ markCalls' = (markCalls \ {call}) \cup {[call EXCEPT !.stage = "failed"]}
             /\ UNCHANGED <<markRows, nextMark>>
    <2>1. PICK e : e = [call EXCEPT !.stage = "failed", !.answer = call.answer]
      OBVIOUS
    <2>2. e = [call EXCEPT !.stage = "failed"]
      <3>1. call = [n |-> call.n, kind |-> call.kind, book |-> call.book, id |-> call.id, stage |-> call.stage,
                    answer |-> call.answer]
        BY <1>1 DEF MarkTypes, MarkCall
      <3>2. QED
        BY <2>1, <3>1
    <2>3. /\ \A c \in markCalls' : /\ MarkCall(c) /\ c.kind \in {"list", "add", "remove"}
                                   /\ c.stage \in {"sent", "done", "failed"}
                                   /\ c.kind = "add" => c.book \in MarkBook
          /\ e.kind = call.kind /\ e.book = call.book /\ e.id = call.id /\ e.stage = "failed"
          /\ markCalls = {call} => markCalls' = {e}
      <3>1. PICK a : a = call.answer
        OBVIOUS
      <3>2. MarkTypes /\ Becomes(call, "failed", a, e)
        BY <1>1, <1>6, <2>1, <2>2, <3>1 DEF Becomes
      <3>3. QED
        BY <3>2, DoneTypes
    <2>4. MarkTypes'
      BY <1>1, <1>6, <2>3 DEF MarkTypes, Marks!RowsOf
    <2>5. ShowsBook => ShowsBook'
      BY <1>1, <1>6 DEF ShowsBook, Marks!ListOf, Marks!RowsOf
    <2>6. ~crossed' => markCalls' = {e} /\ CallTells(e)'
      BY <1>1, <2>3, <2>5 DEF CallTells
    <2>7. QED
      BY <2>4, <2>6 DEF MarksInv
  <1>7. QED
    BY <1>3, <1>4, <1>5, <1>6 DEF Marks!HandleMark

LEMMA AnsweredKeeps ==
    ASSUME MarksInv, NEW call \in markCalls, Marks!Answered(call)
    PROVE  MarksInv'
  <1>1. /\ MarkTypes /\ call.stage # "sent" /\ markCalls' = markCalls \ {call}
        /\ UNCHANGED <<markRows, nextMark, markSent, markBook>>
        /\ crossed' = (crossed \/ (call.stage = "failed" /\ call.kind = "list"))
        /\ crossed \in BOOLEAN /\ call.kind \in {"list", "add", "remove"} /\ call.stage \in {"done", "failed"}
    BY DEF MarksInv, MarkTypes, Marks!Answered
  <1>2. MarkTypes'
    BY <1>1 DEF MarkTypes, Marks!RowsOf
  <1>3. ~crossed' => markCalls = {call} /\ CallTells(call) /\ ~(call.stage = "failed" /\ call.kind = "list")
    BY <1>1 DEF MarksInv
  <1>4. Marks!ListOf(markBook)' = Marks!ListOf(markBook)
    BY <1>1 DEF Marks!ListOf, Marks!RowsOf
  <1>5. ~crossed' => ShowsBook'
    <2> SUFFICES ASSUME ~crossed'
                 PROVE  ShowsBook'
      OBVIOUS
    <2>1. markBook \in MarkBook /\ markBook # ""
      BY <1>3, MarkBounds DEF CallTells
    <2>2. CASE call.stage = "failed"
      <3>1. shownMarks' = shownMarks
        BY <2>2 DEF Marks!Answered
      <3>2. call.kind \in {"add", "remove"} /\ CallTells(call) /\ call.stage # "done"
        BY <1>1, <1>3, <2>2
      <3>3. ShowsBook
        BY <3>2 DEF CallTells
      <3>4. QED
        BY <1>1, <1>4, <3>1, <3>3 DEF ShowsBook
    <2>3. CASE call.stage = "done"
      <3>1. shownMarks' = Marks!ListOf(markBook)
        BY <1>1, <1>3, <2>3 DEF Marks!Answered, CallTells, Marks!WithNew
      <3>2. QED
        BY <1>1, <1>4, <2>1, <3>1 DEF ShowsBook
    <2>4. QED
      BY <1>1, <2>2, <2>3
  <1>6. QED
    BY <1>1, <1>2, <1>3, <1>5 DEF MarksInv

LEMMA MarksInvStep ==
    ASSUME MarksInv, Marks!MarksNext
    PROVE  MarksInv'
  BY SendKeeps, HandleKeeps, AnsweredKeeps DEF Marks!MarksNext

-----------------------------------------------------------------------------
(* The transformer settings.                                                 *)

Conf == Settings!Configuration
\* What the application begins with.
Firstly == IF older = Absent THEN Settings!Default ELSE older
SettingsTypes ==
    /\ stored \in Conf \cup {Absent} /\ legacy \in Conf \cup {Absent} /\ older \in Conf \cup {Absent}
    /\ shown \in Conf \cup {Absent} /\ confirmed \in Conf \cup {Absent} /\ first \in Conf \cup {Absent}
    /\ engine \in Engine /\ lapsed \in BOOLEAN
    /\ loads \in [Engine -> [phase : {"none", "check", "write", "answered", "done"},
                             imported : Conf \cup {Absent}]]
    /\ saves \in [Page -> [phase : {"none", "begun", "written"}, next : Conf \cup {Absent}]]
\* Nothing replaces what was stored first but a save, and what is stored builds.
StoredFirst ==
    /\ legacy \in {older, Absent} /\ (legacy # older => first = older)
    /\ first # Absent => first = Firstly
    /\ first = Absent <=> stored = Absent
    /\ stored # Absent => Settings!Validate(stored)
    /\ shown # Absent \/ confirmed # Absent => stored # Absent
\* A load carries the older copy until what it would write was validated.
LoadsCarry == \A e \in Engine :
    /\ loads[e].phase = "check" => loads[e].imported = older
    /\ loads[e].phase = "write" => loads[e].imported = Firstly /\ Settings!Validate(loads[e].imported)
    /\ loads[e].phase = "answered" => loads[e].imported # Absent /\ stored # Absent
    /\ e > engine => loads[e].phase = "none"
SavesCarry == \A p \in Page : saves[p].phase # "none" => saves[p].next # Absent /\ stored # Absent
\* One save at a time, between one start and the next, keeps the screen true.
InStep == ~lapsed =>
    /\ \A p, q \in Page : saves[p].phase # "none" /\ saves[q].phase # "none" => p = q
    /\ (\A p \in Page : saves[p].phase # "written") => confirmed \in {Absent, stored} /\ shown \in {Absent, stored}
    /\ \A p \in Page : /\ saves[p].phase # "none" => shown # Absent
                       /\ saves[p].phase = "written" => saves[p].next = stored
    /\ loads[engine].phase \in {"check", "write", "answered"} => shown = Absent
    /\ loads[engine].phase = "answered" => loads[engine].imported = stored
SettingsInv == SettingsTypes /\ StoredFirst /\ LoadsCarry /\ SavesCarry /\ InStep

LEMMA SettingsInvShows == SettingsInv => Settings!SettingsTrue
  <1> SUFFICES ASSUME SettingsInv
               PROVE  Settings!SettingsTrue
    OBVIOUS
  <1>1. ~lapsed /\ shown # Absent /\ (\A p \in Page : saves[p].phase = "none")
            => shown = stored /\ confirmed \in {Absent, stored}
    BY DEF SettingsInv, InStep
  <1>2. QED
    BY <1>1 DEF SettingsInv, StoredFirst, Firstly, Settings!SettingsTrue

LEMMA DefaultType == Settings!Default \in Conf /\ Settings!Default # Absent
  <1>1. Settings!Default \in Conf
    BY DEF Settings!Default, Settings!Configuration, Conf
  <1>2. QED
    BY <1>1, SettingsBounds DEF Conf

LEMMA SettingsInvInit == Settings!SettingsInit => SettingsInv
  <1> SUFFICES ASSUME Settings!SettingsInit
               PROVE  SettingsInv
    OBVIOUS
  <1>1. legacy \in Conf \cup {Absent}
    BY DEF Settings!SettingsInit, Settings!Configuration, Conf
  <1>2. /\ Settings!NoLoad \in [phase : {"none", "check", "write", "answered", "done"}, imported : Conf \cup {Absent}]
        /\ Settings!NoSave \in [phase : {"none", "begun", "written"}, next : Conf \cup {Absent}]
        /\ Settings!NoLoad.phase = "none" /\ Settings!NoSave.phase = "none"
    BY DEF Settings!NoLoad, Settings!NoSave
  <1>3. /\ stored = Absent /\ shown = Absent /\ engine = 1 /\ lapsed = FALSE /\ confirmed = Absent
        /\ loads = [e \in Engine |-> Settings!NoLoad] /\ saves = [p \in Page |-> Settings!NoSave]
        /\ older = legacy /\ first = Absent
    BY DEF Settings!SettingsInit
  <1>4. SettingsTypes
    BY <1>1, <1>2, <1>3, SettingsBounds DEF SettingsTypes
  <1>5. StoredFirst
    BY <1>3 DEF StoredFirst
  <1>6. LoadsCarry /\ SavesCarry /\ InStep
    BY <1>2, <1>3, SettingsBounds DEF LoadsCarry, SavesCarry, InStep
  <1>7. QED
    BY <1>4, <1>5, <1>6 DEF SettingsInv

\* A step of a load: l is what becomes of it, s what is stored then, sh what is shown.
LoadMoves(e, l, s, sh) ==
    /\ e \in Engine /\ l \in [phase : {"none", "check", "write", "answered", "done"}, imported : Conf \cup {Absent}]
    /\ loads' = [loads EXCEPT ![e] = l] /\ stored' = s /\ shown' = sh
    /\ s \in Conf \cup {Absent} /\ sh \in Conf \cup {Absent}
    /\ UNCHANGED <<saves, confirmed, older, lapsed, engine>>
    /\ stored # Absent => s = stored /\ first' = first
    /\ s # Absent => Settings!Validate(s)
    /\ stored = Absent => first' = s /\ (s # Absent => s = Firstly)
    /\ legacy' = legacy \/ (legacy' = Absent /\ stored # Absent)
    /\ e <= engine
    /\ l.phase = "check" => l.imported = older
    /\ l.phase = "write" => l.imported = Firstly /\ Settings!Validate(l.imported)
    /\ l.phase = "answered" => l.imported # Absent /\ s # Absent
    /\ sh = shown \/ (e = engine /\ s # Absent /\ l.phase = "done" /\ (~lapsed => sh = s /\ shown = Absent))
    /\ e = engine /\ ~lapsed /\ l.phase \in {"check", "write", "answered"} => sh = Absent
    /\ e = engine /\ ~lapsed /\ l.phase = "answered" => l.imported = s

LEMMA LoadMoveKeeps ==
    ASSUME SettingsInv, NEW e, NEW l, NEW s, NEW sh, LoadMoves(e, l, s, sh)
    PROVE  SettingsInv'
  <1>1. /\ loads \in [Engine -> [phase : {"none", "check", "write", "answered", "done"},
                                 imported : Conf \cup {Absent}]]
        /\ engine \in Engine /\ Engine \in SUBSET Nat /\ e \in Engine
    BY SettingsBounds DEF SettingsInv, SettingsTypes, LoadMoves
  <1>2. loads'[e] = l /\ \A f \in Engine : f # e => loads'[f] = loads[f]
    BY <1>1 DEF LoadMoves
  <1>3. first' \in Conf \cup {Absent} /\ legacy' \in Conf \cup {Absent}
    BY DEF SettingsInv, SettingsTypes, StoredFirst, LoadMoves
  <1>4. SettingsTypes'
    BY <1>1, <1>3 DEF SettingsInv, SettingsTypes, LoadMoves
  <1>5. Firstly' = Firstly
    BY DEF LoadMoves, Firstly
  <1>6. stored # Absent => stored' = stored /\ first' = first
    BY DEF LoadMoves
  <1>7. StoredFirst'
    <2>1. /\ legacy \in {older, Absent} /\ (legacy # older => first = older) /\ (first # Absent => first = Firstly)
          /\ (first = Absent <=> stored = Absent)
          /\ (shown # Absent \/ confirmed # Absent => stored # Absent)
      BY DEF SettingsInv, StoredFirst
    <2>2. /\ stored' = s /\ shown' = sh /\ UNCHANGED <<confirmed, older>>
          /\ stored = Absent => first' = s /\ (s # Absent => s = Firstly)
          /\ legacy' = legacy \/ (legacy' = Absent /\ stored # Absent)
          /\ sh = shown \/ s # Absent
      BY DEF LoadMoves
    <2>3. first' = Absent <=> stored' = Absent
      BY <1>6, <2>1, <2>2
    <2>4. first' # Absent => first' = Firstly'
      BY <1>5, <1>6, <2>1, <2>2
    <2>5. legacy' # older' => first' = older'
      <3>1. CASE legacy' = legacy
        <4>1. legacy # older => first = older /\ first # Absent
          <5>1. CASE legacy # older
            <6>1. legacy = Absent /\ older # Absent
              BY <2>1, <5>1
            <6>2. QED
              BY <2>1, <6>1
          <5>2. QED
            BY <5>1
        <4>2. QED
          BY <1>6, <2>1, <2>2, <3>1, <4>1
      <3>2. CASE legacy' = Absent /\ stored # Absent
        BY <1>6, <2>1, <2>2, <3>2 DEF Firstly
      <3>3. QED
        BY <2>2, <3>1, <3>2
    <2>6. shown' # Absent \/ confirmed' # Absent => stored' # Absent
      BY <1>6, <2>1, <2>2
    <2>7. stored' # Absent => Settings!Validate(stored')
      <3>1. s # Absent => Settings!Validate(s)
        BY DEF LoadMoves
      <3>2. QED
        BY <2>2, <3>1
    <2>8. (stored # Absent => Settings!Validate(stored))'
      BY <2>7, Zenon
    <2>9. legacy' \in {older', Absent}
      BY <2>1, <2>2
    <2>10. QED
      BY <2>3, <2>4, <2>5, <2>6, <2>8, <2>9 DEF StoredFirst
  <1>8. LoadsCarry'
    <2> SUFFICES ASSUME NEW f \in Engine
                 PROVE  (/\ loads[f].phase = "check" => loads[f].imported = older
                         /\ loads[f].phase = "write" => loads[f].imported = Firstly /\ Settings!Validate(loads[f].imported)
                         /\ loads[f].phase = "answered" => loads[f].imported # Absent /\ stored # Absent
                         /\ f > engine => loads[f].phase = "none")'
      BY DEF LoadsCarry
    <2>1. CASE f = e
      BY <1>1, <1>2, <1>5, <2>1 DEF LoadMoves
    <2>2. CASE f # e
      BY <1>2, <1>5, <1>6, <2>2 DEF LoadMoves, SettingsInv, LoadsCarry
    <2>3. QED
      BY <2>1, <2>2
  <1>9. SavesCarry'
    BY <1>6 DEF SettingsInv, SavesCarry, LoadMoves
  <1>10. InStep'
    <2> SUFFICES ASSUME ~lapsed
                 PROVE  InStep'
      BY DEF InStep, LoadMoves
    <2>1. /\ \A p, q \in Page : saves[p].phase # "none" /\ saves[q].phase # "none" => p = q
          /\ (\A p \in Page : saves[p].phase # "written") => confirmed \in {Absent, stored} /\ shown \in {Absent, stored}
          /\ \A p \in Page : /\ saves[p].phase # "none" => shown # Absent
                             /\ saves[p].phase = "written" => saves[p].next = stored
          /\ loads[engine].phase \in {"check", "write", "answered"} => shown = Absent
          /\ loads[engine].phase = "answered" => loads[engine].imported = stored
      BY DEF SettingsInv, InStep
    <2>2. /\ stored' = s /\ shown' = sh /\ UNCHANGED <<confirmed, saves, engine, lapsed>>
          /\ sh = shown \/ (e = engine /\ s # Absent /\ l.phase = "done" /\ sh = s /\ shown = Absent)
          /\ e = engine /\ l.phase \in {"check", "write", "answered"} => sh = Absent
          /\ e = engine /\ l.phase = "answered" => l.imported = s
      BY DEF LoadMoves
    <2>3. shown # Absent => stored # Absent /\ stored' = stored
      BY <1>6 DEF SettingsInv, StoredFirst
    <2>4. confirmed # Absent => stored # Absent /\ stored' = stored
      BY <1>6 DEF SettingsInv, StoredFirst
    <2>5. \A p \in Page : saves[p].phase # "none" => shown # Absent /\ sh = shown
      BY <2>1, <2>2
    <2>6. (\A p \in Page : saves'[p].phase # "written") => confirmed' \in {Absent, stored'} /\ shown' \in {Absent, stored'}
      BY <2>1, <2>2, <2>3, <2>4
    <2>7. \A p \in Page : /\ saves'[p].phase # "none" => shown' # Absent
                          /\ saves'[p].phase = "written" => saves'[p].next = stored'
      BY <2>1, <2>2, <2>3, <2>5
    <2>8. /\ loads'[engine].phase \in {"check", "write", "answered"} => shown' = Absent
          /\ loads'[engine].phase = "answered" => loads'[engine].imported = stored'
      <3>1. CASE engine = e
        BY <1>2, <2>2, <3>1
      <3>2. CASE engine # e
        <4>1. loads'[engine] = loads[engine]
          BY <1>1, <1>2, <3>2
        <4>2. sh = shown
          BY <2>2, <3>2
        <4>3. loads[engine].phase = "answered" => stored' = stored
          BY <1>1, <1>6 DEF SettingsInv, LoadsCarry
        <4>4. QED
          BY <2>1, <2>2, <4>1, <4>2, <4>3
      <3>3. QED
        BY <3>1, <3>2
    <2>9. QED
      BY <2>1, <2>2, <2>6, <2>7, <2>8 DEF InStep
  <1>11. QED
    BY <1>4, <1>7, <1>8, <1>9, <1>10 DEF SettingsInv

LEMMA LoadKeeps ==
    ASSUME SettingsInv, NEW e \in Engine,
           Settings!LoadRead(e) \/ Settings!InitializeCheck(e) \/ Settings!InitializeTx(e) \/ Settings!ImportDone(e)
    PROVE  SettingsInv'
  <1> DEFINE L == [phase : {"none", "check", "write", "answered", "done"}, imported : Conf \cup {Absent}]
  <1>1. /\ loads \in [Engine -> L] /\ loads[e] \in L /\ e \in Nat /\ engine \in Nat /\ engine \in Engine
        /\ stored \in Conf \cup {Absent} /\ shown \in Conf \cup {Absent} /\ legacy \in Conf \cup {Absent}
        /\ lapsed \in BOOLEAN
    BY SettingsBounds DEF SettingsInv, SettingsTypes
  <1>2. /\ legacy \in {older, Absent} /\ (legacy # older => first = older) /\ (first # Absent => first = Firstly)
        /\ (first = Absent <=> stored = Absent) /\ (stored # Absent => Settings!Validate(stored))
        /\ (shown # Absent => stored # Absent)
    BY DEF SettingsInv, StoredFirst
  <1>3. /\ loads[e].phase = "check" => loads[e].imported = older
        /\ loads[e].phase = "write" => loads[e].imported = Firstly /\ Settings!Validate(loads[e].imported)
        /\ loads[e].phase = "answered" => loads[e].imported # Absent /\ stored # Absent
        /\ loads[e].phase # "none" => e <= engine
    BY <1>1 DEF SettingsInv, LoadsCarry
  <1>4. ~lapsed => /\ loads[engine].phase \in {"check", "write", "answered"} => shown = Absent
                   /\ loads[engine].phase = "answered" => loads[engine].imported = stored
    BY DEF SettingsInv, InStep
  <1>5. Firstly # Absent
    BY DefaultType DEF Firstly
  <1> HIDE DEF L
  <1>6. CASE Settings!LoadRead(e)
    <2>1. /\ e = engine /\ loads[e].phase = "none" /\ shown = Absent
          /\ UNCHANGED <<stored, legacy, engine, lapsed, older, first, saves, confirmed>>
      BY <1>6 DEF Settings!LoadRead, Settings!Running, Settings!SavesIdle
    <2>2. CASE stored # Absent
      <3> DEFINE l == [loads[e] EXCEPT !.phase = "done"]
      <3>1. loads' = [loads EXCEPT ![e] = l] /\ shown' = stored
        BY <1>1, <1>6, <2>2 DEF Settings!LoadRead, Settings!ToLoad
      <3>2. l \in L /\ l.phase = "done"
        BY <1>1 DEF L
      <3> HIDE DEF l
      <3>3. LoadMoves(e, l, stored, stored)
        BY <1>1, <1>2, <2>1, <2>2, <3>1, <3>2 DEF LoadMoves, L
      <3>4. QED
        BY <3>3, LoadMoveKeeps
    <2>3. CASE stored = Absent
      <3> DEFINE l == [phase |-> "check", imported |-> legacy]
      <3>1. loads' = [loads EXCEPT ![e] = l] /\ shown' = shown
        BY <1>6, <2>3 DEF Settings!LoadRead
      <3>2. l \in L /\ l.phase = "check" /\ l.imported = legacy
        BY <1>1 DEF L
      <3>3. legacy = older
        <4>1. CASE legacy # older
          <5>1. legacy = Absent /\ first = older /\ first = Absent
            BY <1>2, <2>3, <4>1
          <5>2. QED
            BY <5>1
        <4>2. QED
          BY <4>1
      <3> HIDE DEF l
      <3>4. LoadMoves(e, l, stored, shown)
        BY <1>1, <1>2, <2>1, <2>3, <3>1, <3>2, <3>3 DEF LoadMoves, L
      <3>5. QED
        BY <3>4, LoadMoveKeeps
    <2>4. QED
      BY <2>2, <2>3
  <1>7. CASE Settings!InitializeCheck(e)
    <2> DEFINE c == IF loads[e].imported = Absent THEN Settings!Default ELSE loads[e].imported
    <2>1. /\ loads[e].phase = "check" /\ loads[e].imported = older
          /\ UNCHANGED <<stored, legacy, engine, lapsed, older, first, saves, confirmed, shown>>
      BY <1>3, <1>7 DEF Settings!InitializeCheck, Settings!SavesIdle
    <2>2. c = Firstly /\ c \in Conf \cup {Absent}
      BY <1>1, <2>1, DefaultType DEF Firstly, L
    <2>3. \/ stored # Absent /\ loads' = [loads EXCEPT ![e] = [phase |-> "answered", imported |-> stored]]
          \/ stored = Absent /\ Settings!Validate(c) /\ loads' = [loads EXCEPT ![e] = [phase |-> "write", imported |-> c]]
          \/ stored = Absent /\ loads' = [loads EXCEPT ![e] = Settings!NoLoad]
      BY <1>7 DEF Settings!InitializeCheck
    <2> HIDE DEF c
    <2>4. CASE stored # Absent /\ loads' = [loads EXCEPT ![e] = [phase |-> "answered", imported |-> stored]]
      <3> DEFINE l == [phase |-> "answered", imported |-> stored]
      <3>1. l \in L /\ l.phase = "answered" /\ l.imported = stored /\ loads' = [loads EXCEPT ![e] = l]
        BY <1>1, <2>4 DEF L
      <3> HIDE DEF l
      <3>2. LoadMoves(e, l, stored, shown)
        BY <1>1, <1>2, <1>3, <1>4, <2>1, <2>4, <3>1 DEF LoadMoves, L
      <3>3. QED
        BY <3>2, LoadMoveKeeps
    <2>5. CASE stored = Absent /\ Settings!Validate(c) /\ loads' = [loads EXCEPT ![e] = [phase |-> "write", imported |-> c]]
      <3> DEFINE l == [phase |-> "write", imported |-> c]
      <3>1. l \in L /\ l.phase = "write" /\ l.imported = c /\ loads' = [loads EXCEPT ![e] = l]
        BY <1>1, <2>2, <2>5 DEF L
      <3> HIDE DEF l
      <3>2. Settings!Validate(l.imported)
        BY <2>5, <3>1
      <3>3. LoadMoves(e, l, stored, shown)
        BY <1>1, <1>2, <1>3, <1>4, <2>1, <2>2, <2>5, <3>1, <3>2 DEF LoadMoves, L
      <3>4. QED
        BY <3>3, LoadMoveKeeps
    <2>6. CASE stored = Absent /\ loads' = [loads EXCEPT ![e] = Settings!NoLoad]
      <3>1. Settings!NoLoad \in L /\ Settings!NoLoad.phase = "none"
        BY DEF Settings!NoLoad, L
      <3>2. LoadMoves(e, Settings!NoLoad, stored, shown)
        BY <1>1, <1>2, <1>3, <1>4, <2>1, <2>6, <3>1 DEF LoadMoves, L
      <3>3. QED
        BY <3>2, LoadMoveKeeps
    <2>7. QED
      BY <2>3, <2>4, <2>5, <2>6
  <1>8. CASE Settings!InitializeTx(e)
    <2> DEFINE s == IF stored = Absent THEN loads[e].imported ELSE stored
               l == [phase |-> "answered", imported |-> s]
    <2>1. /\ loads[e].phase = "write" /\ loads[e].imported = Firstly /\ Settings!Validate(loads[e].imported)
          /\ stored' = s /\ first' = (IF first = Absent THEN s ELSE first)
          /\ UNCHANGED <<legacy, engine, lapsed, older, saves, confirmed, shown>>
          /\ loads' = [loads EXCEPT ![e] = l]
      BY <1>3, <1>8 DEF Settings!InitializeTx, Settings!SavesIdle
    <2>2. s \in Conf \cup {Absent} /\ s # Absent /\ loads[e].imported \in Conf \cup {Absent}
      BY <1>1, <1>5, <2>1 DEF L
    <2>3. Settings!Validate(s)
      BY <1>2, <2>1, Zenon
    <2>4. (stored # Absent => s = stored) /\ (stored = Absent => s = Firstly)
      BY <2>1
    <2> HIDE DEF s
    <2>5. l \in L /\ l.phase = "answered" /\ l.imported = s
      BY <2>2 DEF L
    <2> HIDE DEF l
    <2>6. LoadMoves(e, l, s, shown)
      BY <1>1, <1>2, <1>3, <1>4, <2>1, <2>2, <2>3, <2>4, <2>5 DEF LoadMoves, L
    <2>7. QED
      BY <2>6, LoadMoveKeeps
  <1>9. CASE Settings!ImportDone(e)
    <2> DEFINE l == [loads[e] EXCEPT !.phase = "done"]
    <2>1. /\ e = engine /\ loads[e].phase = "answered" /\ legacy' = Absent /\ shown' = loads[e].imported
          /\ UNCHANGED <<stored, engine, lapsed, older, first, saves, confirmed>>
          /\ loads' = [loads EXCEPT ![e] = l]
      BY <1>1, <1>9 DEF Settings!ImportDone, Settings!Running, Settings!SavesIdle, Settings!ToLoad
    <2>2. l \in L /\ l.phase = "done" /\ loads[e].imported \in Conf \cup {Absent}
      BY <1>1 DEF L
    <2> HIDE DEF l
    <2>3. LoadMoves(e, l, stored, loads[e].imported)
      BY <1>1, <1>2, <1>3, <1>4, <2>1, <2>2 DEF LoadMoves, L
    <2>4. QED
      BY <2>3, LoadMoveKeeps
  <1>10. QED
    BY <1>6, <1>7, <1>8, <1>9

LEMMA RestartKeeps ==
    ASSUME SettingsInv, Settings!Restart
    PROVE  SettingsInv'
  <1>1. /\ engine' = engine + 1 /\ engine + 1 \in Engine /\ shown' = Absent /\ engine \in Nat
        /\ lapsed' = (lapsed \/ \E p \in Page : saves[p].phase # "none")
        /\ saves' = [p \in Page |-> IF saves[p].phase = "written" THEN Settings!NoSave ELSE saves[p]]
        /\ UNCHANGED <<stored, legacy, loads, confirmed, older, first>>
    BY SettingsBounds DEF Settings!Restart, SettingsInv, SettingsTypes
  <1>2. /\ Settings!NoSave \in [phase : {"none", "begun", "written"}, next : Conf \cup {Absent}]
        /\ Settings!NoSave.phase = "none"
    BY DEF Settings!NoSave
  <1>3. SettingsTypes'
    <2>1. saves' \in [Page -> [phase : {"none", "begun", "written"}, next : Conf \cup {Absent}]]
      BY <1>1, <1>2 DEF SettingsInv, SettingsTypes
    <2>2. lapsed' \in BOOLEAN
      BY <1>1 DEF SettingsInv, SettingsTypes
    <2>3. QED
      BY <1>1, <2>1, <2>2 DEF SettingsInv, SettingsTypes
  <1>4. StoredFirst'
    BY <1>1 DEF SettingsInv, StoredFirst, Firstly
  <1>5. LoadsCarry'
    <2>1. \A e \in Engine : e > engine' => e > engine
      BY <1>1, SettingsBounds
    <2>2. QED
      BY <1>1, <2>1 DEF SettingsInv, LoadsCarry, Firstly
  <1>6. SavesCarry'
    BY <1>1, <1>2 DEF SettingsInv, SavesCarry
  <1>7. InStep'
    <2> SUFFICES ASSUME ~lapsed'
                 PROVE  InStep'
      BY DEF InStep
    <2>1. ~lapsed /\ \A p \in Page : saves[p].phase = "none"
      BY <1>1 DEF SettingsInv, SettingsTypes
    <2>2. confirmed \in {Absent, stored}
      BY <2>1 DEF SettingsInv, InStep
    <2>3. \A p \in Page : saves'[p] = saves[p]
      BY <1>1, <2>1
    <2>4. loads[engine + 1].phase = "none"
      BY <1>1 DEF SettingsInv, LoadsCarry
    <2>5. QED
      BY <1>1, <2>1, <2>2, <2>3, <2>4 DEF InStep
  <1>8. QED
    BY <1>3, <1>4, <1>5, <1>6, <1>7 DEF SettingsInv

LEMMA WithEntriesType ==
    ASSUME NEW c \in Conf, NEW scope, NEW list \in EntryLists, NEW inherit \in BOOLEAN
    PROVE  Settings!WithEntries(c, scope, list, inherit) \in Conf
  BY DEF Conf, Settings!Configuration, Settings!WithEntries

LEMMA SaveKeeps ==
    ASSUME SettingsInv, NEW p \in Page,
           \/ \E list \in EntryLists, scope \in {"application", "book"}, inherit \in BOOLEAN :
                 Settings!BeginSave(p, scope, list, inherit)
           \/ Settings!SaveTx(p) \/ Settings!SaveShown(p)
    PROVE  SettingsInv'
  <1> DEFINE S == [phase : {"none", "begun", "written"}, next : Conf \cup {Absent}]
  <1>1. /\ saves \in [Page -> S] /\ saves[p] \in S /\ lapsed \in BOOLEAN /\ shown \in Conf \cup {Absent}
        /\ stored \in Conf \cup {Absent}
    BY DEF SettingsInv, SettingsTypes
  <1>2. /\ (first = Absent <=> stored = Absent) /\ (shown # Absent \/ confirmed # Absent => stored # Absent)
    BY DEF SettingsInv, StoredFirst
  <1>3. saves[p].phase # "none" => saves[p].next # Absent /\ stored # Absent
    BY DEF SettingsInv, SavesCarry
  <1> HIDE DEF S
  <1>4. ASSUME NEW list \in EntryLists, NEW scope \in {"application", "book"}, NEW inherit \in BOOLEAN,
               Settings!BeginSave(p, scope, list, inherit)
        PROVE  SettingsInv'
    <2> DEFINE n == [phase |-> "begun", next |-> Settings!WithEntries(shown, scope, list, inherit)]
    <2>1. /\ shown # Absent /\ saves[p].phase = "none" /\ saves' = [saves EXCEPT ![p] = n]
          /\ lapsed' = (lapsed \/ \E other \in Page : saves[other].phase # "none")
          /\ UNCHANGED <<stored, legacy, engine, shown, loads, confirmed, older, first>>
      BY <1>4 DEF Settings!BeginSave
    <2>2. n \in S /\ n.phase = "begun" /\ n.next # Absent
      <3>1. Settings!WithEntries(shown, scope, list, inherit) \in Conf
        BY <1>1, <2>1, WithEntriesType
      <3>2. QED
        BY <3>1, SettingsBounds DEF S, Conf
    <2> HIDE DEF n
    <2>3. /\ saves' \in [Page -> S] /\ saves'[p] = n /\ \A q \in Page : q # p => saves'[q] = saves[q]
      BY <1>1, <2>1, <2>2
    <2>4. SettingsTypes'
      <3>1. lapsed' \in BOOLEAN
        BY <2>1
      <3>2. QED
        BY <2>1, <2>3, <3>1 DEF SettingsInv, SettingsTypes, S
    <2>5. StoredFirst' /\ LoadsCarry'
      BY <2>1 DEF SettingsInv, StoredFirst, LoadsCarry, Firstly
    <2>6. SavesCarry'
      BY <1>2, <2>1, <2>2, <2>3 DEF SettingsInv, SavesCarry
    <2>7. InStep'
      <3> SUFFICES ASSUME ~lapsed'
                   PROVE  InStep'
        BY DEF InStep
      <3>1. ~lapsed /\ \A q \in Page : saves[q].phase = "none"
        BY <2>1
      <3>2. confirmed \in {Absent, stored} /\ shown \in {Absent, stored}
        BY <3>1 DEF SettingsInv, InStep
      <3>3. ~(loads[engine].phase \in {"check", "write", "answered"})
        BY <2>1, <3>1 DEF SettingsInv, InStep
      <3>4. QED
        BY <2>1, <2>2, <2>3, <3>1, <3>2, <3>3 DEF InStep
    <2>8. QED
      BY <2>4, <2>5, <2>6, <2>7 DEF SettingsInv
  <1>5. CASE Settings!SaveTx(p)
    <2> DEFINE w == [saves[p] EXCEPT !.phase = "written"]
    <2>1. /\ saves[p].phase = "begun"
          /\ UNCHANGED <<legacy, engine, shown, loads, lapsed, confirmed, older, first>>
      BY <1>5 DEF Settings!SaveTx
    <2>2. CASE Settings!Validate(saves[p].next)
      <3>1. stored' = saves[p].next /\ saves' = [saves EXCEPT ![p] = w]
        BY <1>1, <1>5, <2>2 DEF Settings!SaveTx
      <3>2. w \in S /\ w.phase = "written" /\ w.next = saves[p].next /\ saves[p].next \in Conf \cup {Absent}
        BY <1>1 DEF S
      <3>3. stored # Absent /\ stored' # Absent
        BY <1>3, <2>1, <3>1
      <3> HIDE DEF w
      <3>4. /\ saves' \in [Page -> S] /\ saves'[p] = w /\ \A q \in Page : q # p => saves'[q] = saves[q]
        BY <1>1, <3>1, <3>2
      <3>5. SettingsTypes'
        BY <2>1, <3>1, <3>2, <3>4 DEF SettingsInv, SettingsTypes, S
      <3>6. StoredFirst'
        <4>1. (stored # Absent => Settings!Validate(stored))'
          BY <2>2, <3>1
        <4>2. QED
          BY <2>1, <3>3, <4>1 DEF SettingsInv, StoredFirst, Firstly
      <3>7. LoadsCarry'
        BY <2>1, <3>3 DEF SettingsInv, LoadsCarry, Firstly
      <3>8. SavesCarry'
        BY <1>3, <2>1, <3>2, <3>3, <3>4 DEF SettingsInv, SavesCarry
      <3>9. InStep'
        <4> SUFFICES ASSUME ~lapsed
                     PROVE  InStep'
          BY <2>1 DEF InStep
        <4>1. /\ \A q \in Page : q # p => saves[q].phase = "none"
              /\ shown # Absent /\ ~(loads[engine].phase \in {"check", "write", "answered"})
          BY <2>1 DEF SettingsInv, InStep
        <4>2. QED
          BY <2>1, <3>1, <3>2, <3>4, <4>1 DEF InStep
      <3>10. QED
        BY <3>5, <3>6, <3>7, <3>8, <3>9 DEF SettingsInv
    <2>3. CASE ~Settings!Validate(saves[p].next)
      <3>1. saves' = [saves EXCEPT ![p] = Settings!NoSave] /\ stored' = stored
        BY <1>5, <2>3 DEF Settings!SaveTx
      <3>2. Settings!NoSave \in S /\ Settings!NoSave.phase = "none"
        BY DEF Settings!NoSave, S
      <3>3. /\ saves' \in [Page -> S] /\ saves'[p].phase = "none" /\ \A q \in Page : q # p => saves'[q] = saves[q]
        BY <1>1, <3>1, <3>2
      <3>4. SettingsTypes'
        BY <2>1, <3>1, <3>3 DEF SettingsInv, SettingsTypes, S
      <3>5. StoredFirst' /\ LoadsCarry'
        BY <2>1, <3>1 DEF SettingsInv, StoredFirst, LoadsCarry, Firstly
      <3>6. SavesCarry'
        BY <3>1, <3>3 DEF SettingsInv, SavesCarry
      <3>7. InStep'
        <4> SUFFICES ASSUME ~lapsed
                     PROVE  InStep'
          BY <2>1 DEF InStep
        <4>1. \A q \in Page : q # p => saves[q].phase = "none"
          BY <2>1 DEF SettingsInv, InStep
        <4>2. \A q \in Page : saves'[q].phase = "none"
          BY <3>3, <4>1
        <4>3. confirmed \in {Absent, stored} /\ shown \in {Absent, stored}
          BY <2>1, <4>1 DEF SettingsInv, InStep
        <4>4. ~(loads[engine].phase \in {"check", "write", "answered"})
          BY <2>1 DEF SettingsInv, InStep
        <4>5. QED
          BY <2>1, <3>1, <4>2, <4>3, <4>4 DEF InStep
      <3>8. QED
        BY <3>4, <3>5, <3>6, <3>7 DEF SettingsInv
    <2>4. QED
      BY <2>2, <2>3
  <1>6. CASE Settings!SaveShown(p)
    <2>1. /\ saves[p].phase = "written" /\ shown' = saves[p].next /\ confirmed' = saves[p].next
          /\ saves' = [saves EXCEPT ![p] = Settings!NoSave]
          /\ UNCHANGED <<stored, legacy, engine, loads, lapsed, older, first>>
      BY <1>6 DEF Settings!SaveShown
    <2>2. Settings!NoSave \in S /\ Settings!NoSave.phase = "none" /\ saves[p].next \in Conf \cup {Absent}
      BY <1>1 DEF Settings!NoSave, S
    <2>3. /\ saves' \in [Page -> S] /\ saves'[p].phase = "none" /\ \A q \in Page : q # p => saves'[q] = saves[q]
      BY <1>1, <2>1, <2>2
    <2>4. SettingsTypes'
      BY <2>1, <2>2, <2>3 DEF SettingsInv, SettingsTypes, S
    <2>5. StoredFirst' /\ LoadsCarry'
      BY <1>3, <2>1 DEF SettingsInv, StoredFirst, LoadsCarry, Firstly
    <2>6. SavesCarry'
      BY <2>1, <2>3 DEF SettingsInv, SavesCarry
    <2>7. InStep'
      <3> SUFFICES ASSUME ~lapsed
                   PROVE  InStep'
        BY <2>1 DEF InStep
      <3>1. /\ \A q \in Page : q # p => saves[q].phase = "none"
            /\ saves[p].next = stored
            /\ ~(loads[engine].phase \in {"check", "write", "answered"})
        BY <2>1 DEF SettingsInv, InStep
      <3>2. QED
        BY <2>1, <2>3, <3>1 DEF InStep
    <2>8. QED
      BY <2>4, <2>5, <2>6, <2>7 DEF SettingsInv
  <1>7. QED
    BY <1>4, <1>5, <1>6

LEMMA SettingsInvStep ==
    ASSUME SettingsInv, Settings!SettingsNext
    PROVE  SettingsInv'
  <1>1. CASE \E e \in Engine : \/ Settings!LoadRead(e) \/ Settings!InitializeCheck(e)
                               \/ Settings!InitializeTx(e) \/ Settings!ImportDone(e)
    BY <1>1, LoadKeeps
  <1>2. CASE Settings!Restart
    BY <1>2, RestartKeeps
  <1>3. ASSUME NEW p \in Page,
               \/ \E list \in EntryLists, scope \in {"application", "book"}, inherit \in BOOLEAN :
                     Settings!BeginSave(p, scope, list, inherit)
               \/ Settings!SaveTx(p) \/ Settings!SaveShown(p)
        PROVE  SettingsInv'
    BY <1>3, SaveKeeps
  <1>4. ASSUME NEW chapter, Settings!OpenChapter(chapter)
        PROVE  SettingsInv'
    <2>1. UNCHANGED <<stored, legacy, engine, shown, loads, saves, lapsed, confirmed, older, first>>
      BY <1>4 DEF Settings!OpenChapter, Settings!SavesIdle
    <2>2. SettingsTypes' /\ StoredFirst' /\ LoadsCarry' /\ SavesCarry' /\ InStep'
      BY <2>1 DEF SettingsInv, SettingsTypes, StoredFirst, LoadsCarry, SavesCarry, InStep, Firstly
    <2>3. QED
      BY <2>2 DEF SettingsInv
  <1>5. QED
    BY <1>1, <1>2, <1>3, <1>4 DEF Settings!SettingsNext

-----------------------------------------------------------------------------
(* The badges of the shelf. *)
ShelfItem == [book : Book, new : Nat, failed : BOOLEAN]
ShelfAt == {"none", "opening", "over", "threw", "next", "adopt", "ended"}
ShelfCheck == [at : ShelfAt, todo : SUBSET Book, base : [Book -> Int], book : SUBSET Book,
               fresh : Nat, out : Seq(ShelfItem), listening : BOOLEAN,
               badges : [Book -> Nat], failed : SUBSET Book]
ShelfFlow == [at : {"none", "undo", "mirror"}, target : SUBSET Book]
ShelfShown == [checking : BOOLEAN, badges : [Book -> Nat], failed : SUBSET Book]

ShelfTypes == /\ count \in [Book -> Nat] /\ cached \in [Book -> Nat] /\ seen \in [Book -> Int]
              /\ shelf \subseteq Book /\ raced \subseteq Book /\ gone \subseteq Book
              /\ marks \subseteq [book : Book, n : Nat]
              /\ checkGeneration \in 0..MaxChecks
              /\ updates \in ShelfShown
              /\ checks \in [Shelf!Gen -> ShelfCheck]
              /\ flow \in [Shelf!View -> ShelfFlow]

\* A number of new chapters is one of chapters that exist, after a baseline.
IsNews(base, new, n) == new > 0 => base # Shelf!Unseen /\ base + new <= n
\* A check that has its snapshot, and one that has none or nothing of it left.
Snapshot(c) == c.at \in {"next", "adopt", "ended"}
Blank(c) == c.out = <<>> /\ c.badges = Shelf!Zero /\ c.todo = {} /\ c.book = {} /\ c.failed = {}
Announces(c, n) ==
    /\ \A b \in Book : IsNews(c.base[b], c.badges[b], n[b])
    /\ \A i \in DOMAIN c.out : IsNews(c.base[c.out[i].book], c.out[i].new, n[c.out[i].book])
    /\ c.at = "adopt" => \A b \in c.book : c.base[b] = Shelf!Unseen
    /\ c.book \cap c.todo = {}
\* The snapshot holds the baselines, but for those the check itself has set.
Anchored(c, s, r) == Snapshot(c) => \A b \in Book \ r :
    c.base[b] = s[b] \/ (c.base[b] = Shelf!Unseen /\ b \notin c.todo \cup c.book)
Avoids(c, t) == /\ c.todo \cap t = {} /\ c.book \cap t = {} /\ c.failed \cap t = {}
                /\ \A b \in t : c.badges[b] = 0
                /\ \A i \in DOMAIN c.out : c.out[i].book \notin t

ChecksTrue == \A g \in Shelf!Gen : /\ Announces(checks[g], count)
                                   /\ Anchored(checks[g], seen, raced)
                                   /\ (~Snapshot(checks[g]) => Blank(checks[g]))
                                   /\ (g > checkGeneration => checks[g] = Shelf!NoCheck)
LatestTrue == /\ Shelf!CheckDriven
              /\ (checkGeneration # 0 => Avoids(checks[checkGeneration], gone))
              /\ (checkGeneration # 0 /\ checks[checkGeneration].at = "opening"
                  => updates.badges = Shelf!Zero)
MarksRace == \A m \in marks :
                 /\ \A g \in Shelf!Gen : Snapshot(checks[g]) => m.book \in raced
                 /\ m.book \in raced \/ updates.badges[m.book] = 0
BadgesAreNews == \A b \in Book \ (raced \cup Shelf!Leaving) :
                     IsNews(seen[b], updates.badges[b], count[b])
GoneIsGone == /\ gone \cap shelf = {} /\ gone \cap updates.failed = {}
              /\ \A b \in gone : updates.badges[b] = 0

ShelfInv == ShelfTypes /\ ChecksTrue /\ LatestTrue /\ MarksRace /\ BadgesAreNews /\ GoneIsGone

LEMMA ShelfInvShows == ShelfInv => Shelf!CheckDriven /\ Shelf!BadgeIsNews /\ Shelf!RemovedStaysClean
  <1> SUFFICES ASSUME ShelfInv
               PROVE  Shelf!CheckDriven /\ Shelf!BadgeIsNews /\ Shelf!RemovedStaysClean
    OBVIOUS
  <1>1. Shelf!CheckDriven
    BY DEF ShelfInv, LatestTrue
  <1>2. Shelf!BadgeIsNews
    BY DEF ShelfInv, ShelfTypes, BadgesAreNews, IsNews, Shelf!BadgeIsNews
  <1>3. Shelf!RemovedStaysClean
    BY DEF ShelfInv, GoneIsGone, Shelf!RemovedStaysClean
  <1>4. QED
    BY <1>1, <1>2, <1>3

LEMMA CheckType ==
  ASSUME NEW at \in ShelfAt, NEW todo \in SUBSET Book, NEW base \in [Book -> Int], NEW book \in SUBSET Book,
         NEW fresh \in Nat, NEW out \in Seq(ShelfItem), NEW listening \in BOOLEAN,
         NEW badges \in [Book -> Nat], NEW failed \in SUBSET Book
  PROVE  [at |-> at, todo |-> todo, base |-> base, book |-> book, fresh |-> fresh, out |-> out,
          listening |-> listening, badges |-> badges, failed |-> failed] \in ShelfCheck
  BY SMT DEF ShelfCheck
LEMMA ShelfConstants == /\ {} \in SUBSET Book /\ 0 \in Nat /\ FALSE \in BOOLEAN /\ TRUE \in BOOLEAN
                        /\ "none" \in ShelfAt /\ "opening" \in ShelfAt /\ "over" \in ShelfAt /\ "threw" \in ShelfAt
                        /\ "next" \in ShelfAt /\ "adopt" \in ShelfAt /\ "ended" \in ShelfAt
                        /\ <<>> \in Seq(ShelfItem)
                        /\ Shelf!Zero \in [Book -> Nat] /\ Shelf!Zero \in [Book -> Int]
                        /\ \A b \in Book : Shelf!Zero[b] = 0
  <1>1. /\ Shelf!Zero \in [Book -> Nat] /\ Shelf!Zero \in [Book -> Int]
        /\ \A b \in Book : Shelf!Zero[b] = 0
    BY DEF Shelf!Zero
  <1>2. <<>> \in Seq(ShelfItem)
    OBVIOUS
  <1>3. QED
    BY <1>1, <1>2 DEF ShelfAt
LEMMA NoCheckType == /\ Shelf!NoCheck \in ShelfCheck /\ ~Snapshot(Shelf!NoCheck) /\ Blank(Shelf!NoCheck)
                     /\ Shelf!NoCheck.at = "none" /\ Shelf!NoCheck.listening = FALSE
  <1>1. Shelf!NoCheck \in ShelfCheck
    BY CheckType, ShelfConstants, Zenon DEF Shelf!NoCheck
  <1>2. QED
    BY <1>1 DEF Shelf!NoCheck, Snapshot, Blank

\* A check with nothing of a snapshot announces nothing.
LEMMA BlankIsTrue ==
  ASSUME NEW c \in ShelfCheck, Blank(c), NEW n, NEW t \in SUBSET Book
  PROVE  Announces(c, n) /\ Avoids(c, t)
  <1>1. DOMAIN c.out = {}
    BY DEF Blank
  <1>2. \A b \in Book : c.badges[b] = 0
    BY ShelfConstants DEF Blank
  <1>3. QED
    BY <1>1, <1>2 DEF Blank, Announces, Avoids, IsNews

LEMMA ShelfInvInit == Shelf!UpdatesInit => ShelfInv
  <1> SUFFICES ASSUME Shelf!UpdatesInit
               PROVE  ShelfInv
    OBVIOUS
  <1> USE DEF Shelf!UpdatesInit
  <1>1. ShelfTypes
    <2>1. updates \in ShelfShown /\ flow \in [Shelf!View -> ShelfFlow]
      BY ShelfConstants DEF ShelfShown, ShelfFlow, Shelf!NoFlow
    <2>2. checks \in [Shelf!Gen -> ShelfCheck] /\ cached \in [Book -> Nat]
      BY NoCheckType, ShelfConstants
    <2>3. seen \in [Book -> Int] /\ count \in [Book -> Nat] /\ checkGeneration \in 0..MaxChecks
      BY ShelfBounds DEF Shelf!Unseen
    <2>4. QED
      BY <2>1, <2>2, <2>3 DEF ShelfTypes
  <1>2. ChecksTrue
    BY NoCheckType, BlankIsTrue DEF ChecksTrue, Anchored
  <1>3. LatestTrue /\ MarksRace /\ GoneIsGone
    BY DEF LatestTrue, MarksRace, GoneIsGone, Shelf!CheckDriven
  <1>4. BadgesAreNews
    BY ShelfConstants DEF BadgesAreNews, IsNews
  <1>5. QED
    BY <1>1, <1>2, <1>3, <1>4 DEF ShelfInv

\* What a stream has sent with one more result.
LEMMA SentIs ==
  ASSUME NEW c \in ShelfCheck, NEW item \in ShelfItem
  PROVE  LET d == Shelf!Sent(c, item)
         IN  /\ d \in ShelfCheck /\ d.at = "next" /\ d.book = {} /\ d.todo = c.todo /\ d.base = c.base
             /\ d.badges = c.badges /\ d.failed = c.failed /\ d.listening = c.listening
             /\ \A i \in DOMAIN d.out : d.out[i] = item \/ (i \in DOMAIN c.out /\ d.out[i] = c.out[i])
  <1> DEFINE o == Append(c.out, item)
             d == Shelf!Sent(c, item)
  <1>1. c.out \in Seq(ShelfItem) /\ Len(c.out) \in Nat /\ DOMAIN c.out = 1..Len(c.out)
    BY DEF ShelfCheck
  <1>5. o \in Seq(ShelfItem) /\ Len(o) = Len(c.out) + 1 /\ DOMAIN o = 1..Len(o)
    BY <1>1
  <1>6. \A i \in 1..(Len(c.out) + 1) : o[i] = IF i <= Len(c.out) THEN c.out[i] ELSE item
    BY <1>1
  <1>3. d = [c EXCEPT !.at = "next", !.book = {}, !.out = o]
    BY DEF Shelf!Sent
  <1> HIDE DEF o
  <1>2. /\ o \in Seq(ShelfItem)
        /\ \A i \in DOMAIN o : o[i] = item \/ (i \in DOMAIN c.out /\ o[i] = c.out[i])
    <2>1. o \in Seq(ShelfItem)
      BY <1>5
    <2>2. ASSUME NEW i \in DOMAIN o
          PROVE  o[i] = item \/ (i \in DOMAIN c.out /\ o[i] = c.out[i])
      <3>1. i \in 1..(Len(c.out) + 1)
        BY <1>5, <2>2
      <3>2. o[i] = IF i <= Len(c.out) THEN c.out[i] ELSE item
        BY <1>6, <3>1
      <3>3. i <= Len(c.out) => i \in DOMAIN c.out
        BY <1>1, <3>1
      <3>4. QED
        BY <1>1, <3>1, <3>2, <3>3
    <2>3. QED
      BY <2>1, <2>2
  <1> HIDE DEF d
  <1>4. /\ d.at = "next" /\ d.book = {} /\ d.todo = c.todo /\ d.base = c.base /\ d.out = o
        /\ d.badges = c.badges /\ d.failed = c.failed /\ d.listening = c.listening
    BY <1>3 DEF ShelfCheck
  <1>7. d \in ShelfCheck
    BY <1>2, <1>3, ShelfConstants DEF ShelfCheck
  <1>8. QED
    BY <1>2, <1>4, <1>7 DEF d
LEMMA SentTells ==
  ASSUME NEW c \in ShelfCheck, NEW item \in ShelfItem, NEW n,
         Announces(c, n), IsNews(c.base[item.book], item.new, n[item.book])
  PROVE  Announces(Shelf!Sent(c, item), n)
  <1> DEFINE d == Shelf!Sent(c, item)
  <1>1. /\ d.base = c.base /\ d.badges = c.badges /\ d.book = {} /\ d.at = "next"
        /\ \A i \in DOMAIN d.out : d.out[i] = item \/ (i \in DOMAIN c.out /\ d.out[i] = c.out[i])
    BY SentIs
  <1> HIDE DEF d
  <1>2. Announces(d, n)
    BY <1>1 DEF Announces
  <1>3. QED
    BY <1>2 DEF d
LEMMA SentAvoids ==
  ASSUME NEW c \in ShelfCheck, NEW item \in ShelfItem, NEW t, Avoids(c, t), item.book \notin t
  PROVE  Avoids(Shelf!Sent(c, item), t)
  <1> DEFINE d == Shelf!Sent(c, item)
  <1>1. /\ d.book = {} /\ d.todo = c.todo /\ d.badges = c.badges /\ d.failed = c.failed
        /\ \A i \in DOMAIN d.out : d.out[i] = item \/ (i \in DOMAIN c.out /\ d.out[i] = c.out[i])
    BY SentIs
  <1> HIDE DEF d
  <1>2. Avoids(d, t)
    BY <1>1 DEF Avoids
  <1>3. QED
    BY <1>2 DEF d

\* What a step of a native stream makes of its check.
Goes(c, d) == /\ d \in ShelfCheck /\ d.listening = c.listening /\ c.at # "none" /\ d.at # "opening"
              /\ Announces(d, count)
              /\ ~Snapshot(d) => Blank(d)
              /\ \A t \in SUBSET Book : t \cap shelf = {} /\ Avoids(c, t) => Avoids(d, t)

\* The snapshot stays, and the check turns back to no book.
Keeps(c, d) == d.base = c.base /\ d.todo \subseteq c.todo /\ d.book \subseteq c.book \cup c.todo

LEMMA OpenGoes ==
  ASSUME ShelfTypes, ChecksTrue, NEW g \in Shelf!Gen, Shelf!OpenStream(g)
  PROVE  \E d : /\ checks' = [checks EXCEPT ![g] = d] /\ Goes(checks[g], d) /\ d.base = seen
                /\ checks[g].at = "opening"
  <1>1. PICK paused \in SUBSET ShelfFeed :
          checks' = [checks EXCEPT ![g] = [checks[g] EXCEPT !.at = "next", !.base = seen,
                                   !.todo = {b \in shelf : FeedOf[b] \notin paused}]]
    BY DEF Shelf!OpenStream, Shelf!Native
  <1>2. PICK c : c = checks[g]
    OBVIOUS
  <1>3. PICK t : t = {b \in shelf : FeedOf[b] \notin paused}
    OBVIOUS
  <1>4. PICK d : d = [c EXCEPT !.at = "next", !.base = seen, !.todo = t]
    OBVIOUS
  <1>5. c \in ShelfCheck /\ c.at = "opening" /\ seen \in [Book -> Int] /\ shelf \subseteq Book
    BY <1>2 DEF ShelfTypes, Shelf!OpenStream
  <1>6. t \in SUBSET Book /\ t \subseteq shelf
    BY <1>3, <1>5
  <1>7. d \in ShelfCheck
    BY <1>4, <1>5, <1>6, ShelfConstants DEF ShelfCheck
  <1>8. /\ d.at = "next" /\ d.base = seen /\ d.todo = t /\ d.book = c.book /\ d.out = c.out
        /\ d.badges = c.badges /\ d.failed = c.failed /\ d.listening = c.listening
    BY <1>4, <1>5 DEF ShelfCheck
  <1>9. Blank(c)
    BY <1>2, <1>5 DEF ChecksTrue, Snapshot
  <1>10. Announces(d, count)
    <2>1. DOMAIN d.out = {} /\ d.book = {} /\ \A b \in Book : d.badges[b] = 0
      BY <1>8, <1>9, ShelfConstants DEF Blank
    <2>2. QED
      BY <2>1 DEF Announces, IsNews
  <1>11. ASSUME NEW r \in SUBSET Book, r \cap shelf = {}, Avoids(c, r)
         PROVE  Avoids(d, r)
    BY <1>6, <1>8, <1>11 DEF Avoids
  <1>12. Goes(c, d)
    BY <1>5, <1>7, <1>8, <1>10, <1>11 DEF Goes, Snapshot
  <1>13. QED
    BY <1>1, <1>2, <1>3, <1>4, <1>5, <1>8, <1>12

\* The steps that keep the snapshot a check has.
LEMMA AtGoes ==
  ASSUME NEW c \in ShelfCheck, NEW at \in ShelfAt, c.at # "none", at # "opening",
         at # "adopt",
         Announces(c, count), ~Snapshot(c) => Blank(c), at \in {"next", "ended"} \/ ~Snapshot(c)
  PROVE  LET d == [c EXCEPT !.at = at] IN Goes(c, d) /\ d.at = at /\ Keeps(c, d)
  <1>1. PICK d : d = [c EXCEPT !.at = at]
    OBVIOUS
  <1>2. d \in ShelfCheck
    BY <1>1 DEF ShelfCheck
  <1>3. /\ d.at = at /\ d.base = c.base /\ d.todo = c.todo /\ d.book = c.book /\ d.out = c.out
        /\ d.badges = c.badges /\ d.failed = c.failed /\ d.listening = c.listening
    BY <1>1 DEF ShelfCheck
  <1>4. Announces(d, count)
    BY <1>3 DEF Announces
  <1>5. ~Snapshot(d) => Blank(d)
    BY <1>3 DEF Snapshot, Blank
  <1>6. ASSUME NEW t, Avoids(c, t)
        PROVE  Avoids(d, t)
    BY <1>3, <1>6 DEF Avoids
  <1>7. Goes(c, d) /\ Keeps(c, d)
    BY <1>2, <1>3, <1>4, <1>5, <1>6 DEF Goes, Keeps
  <1>8. QED
    BY <1>1, <1>3, <1>7

LEMMA FetchGoes ==
  ASSUME ShelfTypes, ChecksTrue, NEW g \in Shelf!Gen, NEW b \in Book, Shelf!Fetch(g, b)
  PROVE  /\ \E d : /\ checks' = [checks EXCEPT ![g] = d] /\ Goes(checks[g], d) /\ Keeps(checks[g], d)
                   /\ Snapshot(checks[g])
         /\ cached' \in [Book -> Nat]
  <1>1. PICK e : e = checks[g]
    OBVIOUS
  <1>2. PICK c : c = [e EXCEPT !.todo = @ \ {b}]
    OBVIOUS
  <1>3. e \in ShelfCheck /\ e.at = "next" /\ Announces(e, count) /\ count \in [Book -> Nat] /\ b \in e.todo
    <2>1. c.at = "next" /\ b \in e.todo
      BY <1>1, <1>2 DEF Shelf!Fetch
    <2>2. e \in ShelfCheck /\ Announces(e, count) /\ count \in [Book -> Nat]
      BY <1>1 DEF ShelfTypes, ChecksTrue
    <2>3. QED
      BY <1>2, <2>1, <2>2 DEF ShelfCheck
  <1>4. c \in ShelfCheck
    BY <1>2, <1>3 DEF ShelfCheck
  <1>5. /\ c.at = e.at /\ c.base = e.base /\ c.todo = e.todo \ {b} /\ c.book = e.book /\ c.out = e.out
        /\ c.badges = e.badges /\ c.failed = e.failed /\ c.listening = e.listening
    BY <1>2, <1>3 DEF ShelfCheck
  <1>6. Announces(c, count)
    BY <1>3, <1>5 DEF Announces
  <1>7. ASSUME NEW t \in SUBSET Book, Avoids(e, t)
        PROVE  Avoids(c, t) /\ b \notin t
    BY <1>3, <1>5, <1>7 DEF Avoids
  <1>8. ASSUME NEW new \in Nat, NEW failed \in BOOLEAN, IsNews(e.base[b], new, count[b])
        PROVE  LET d == Shelf!Sent(c, Shelf!Found(b, new, failed)) IN Goes(e, d) /\ Keeps(e, d)
    <2>1. PICK item : item = Shelf!Found(b, new, failed)
      OBVIOUS
    <2>2. item \in ShelfItem /\ item.book = b /\ item.new = new
      BY <1>8, <2>1 DEF Shelf!Found, ShelfItem
    <2>3. PICK d : d = Shelf!Sent(c, item)
      OBVIOUS
    <2>4. d \in ShelfCheck /\ d.at = "next" /\ d.listening = e.listening /\ Keeps(e, d)
      BY <1>4, <1>5, <2>2, <2>3, SentIs DEF Keeps
    <2>5. Announces(d, count)
      BY <1>4, <1>5, <1>6, <1>8, <2>2, <2>3, SentTells
    <2>6. ASSUME NEW t \in SUBSET Book, Avoids(e, t)
          PROVE  Avoids(d, t)
      BY <1>4, <1>7, <2>2, <2>3, <2>6, SentAvoids
    <2>7. Goes(e, d)
      BY <1>3, <2>4, <2>5, <2>6 DEF Goes, Snapshot
    <2>8. QED
      BY <2>1, <2>3, <2>4, <2>7
  <1>9. CASE Shelf!Native(g, Shelf!Sent(c, Shelf!Found(b, 0, TRUE))) /\ UNCHANGED cached
    <2>1. IsNews(e.base[b], 0, count[b])
      BY DEF IsNews
    <2>2. PICK d : d = Shelf!Sent(c, Shelf!Found(b, 0, TRUE))
      OBVIOUS
    <2>3. Goes(e, d) /\ Keeps(e, d)
      BY <1>8, <2>1, <2>2
    <2>4. checks' = [checks EXCEPT ![g] = d] /\ cached' = cached
      BY <1>9, <2>2 DEF Shelf!Native
    <2>5. QED
      BY <1>1, <1>3, <2>3, <2>4 DEF Snapshot, ShelfTypes
  <1>10. CASE /\ cached' = [cached EXCEPT ![b] = count[b]]
              /\ e.base[b] = Shelf!Unseen
              /\ Shelf!Native(g, [c EXCEPT !.at = "adopt", !.book = {b}, !.fresh = count[b]])
    <2>1. PICK d : d = [c EXCEPT !.at = "adopt", !.book = {b}, !.fresh = count[b]]
      OBVIOUS
    <2>2. d \in ShelfCheck
      <3>1. {b} \in SUBSET Book /\ count[b] \in Nat
        BY <1>3
      <3>2. QED
        BY <1>4, <2>1, <3>1, ShelfConstants DEF ShelfCheck
    <2>3. /\ d.at = "adopt" /\ d.base = c.base /\ d.todo = c.todo /\ d.book = {b} /\ d.out = c.out
          /\ d.badges = c.badges /\ d.failed = c.failed /\ d.listening = c.listening
      BY <1>4, <2>1 DEF ShelfCheck
    <2>4. Announces(d, count)
      <3>1. c.base[b] = Shelf!Unseen /\ b \notin c.todo
        BY <1>5, <1>10
      <3>2. QED
        BY <1>6, <2>3, <3>1 DEF Announces
    <2>5. ASSUME NEW t \in SUBSET Book, Avoids(e, t)
          PROVE  Avoids(d, t)
      <3>1. Avoids(c, t) /\ b \notin t
        BY <1>7, <2>5
      <3>2. QED
        BY <2>3, <3>1 DEF Avoids
    <2>6. Goes(e, d) /\ Keeps(e, d)
      BY <1>3, <1>5, <2>2, <2>3, <2>4, <2>5 DEF Goes, Snapshot, Keeps
    <2>7. checks' = [checks EXCEPT ![g] = d] /\ cached' \in [Book -> Nat]
      BY <1>3, <1>10, <2>1 DEF Shelf!Native, ShelfTypes
    <2>8. QED
      BY <1>1, <1>3, <2>6, <2>7 DEF Snapshot
  <1>11. CASE /\ cached' = [cached EXCEPT ![b] = count[b]]
              /\ e.base[b] # Shelf!Unseen
              /\ Shelf!Native(g, Shelf!Sent(c, Shelf!Found(b, IF count[b] > e.base[b] THEN count[b] - e.base[b] ELSE 0, FALSE)))
    <2>1. PICK new : new = IF count[b] > e.base[b] THEN count[b] - e.base[b] ELSE 0
      OBVIOUS
    <2>2. new \in Nat /\ IsNews(e.base[b], new, count[b])
      <3>1. count[b] \in Nat /\ e.base[b] \in Int
        BY <1>3 DEF ShelfCheck
      <3>2. QED
        BY <1>11, <2>1, <3>1 DEF IsNews
    <2>3. PICK d : d = Shelf!Sent(c, Shelf!Found(b, new, FALSE))
      OBVIOUS
    <2>4. Goes(e, d) /\ Keeps(e, d)
      BY <1>8, <2>2, <2>3
    <2>5. checks' = [checks EXCEPT ![g] = d] /\ cached' \in [Book -> Nat]
      BY <1>3, <1>11, <2>1, <2>3 DEF Shelf!Native, ShelfTypes
    <2>6. QED
      BY <1>1, <1>3, <2>4, <2>5 DEF Snapshot
  <1>12. QED
    BY <1>1, <1>2, <1>5, <1>9, <1>10, <1>11 DEF Shelf!Fetch

LEMMA AdoptGoes ==
  ASSUME ShelfTypes, ChecksTrue, NEW g \in Shelf!Gen, NEW b \in Book, Shelf!Adopt(g, b)
  PROVE  \E d : /\ checks' = [checks EXCEPT ![g] = d] /\ Goes(checks[g], d) /\ Keeps(checks[g], d)
                /\ Snapshot(checks[g]) /\ b \notin d.todo \cup d.book
                /\ checks[g].base[b] = Shelf!Unseen /\ b \in checks[g].book /\ checks[g].fresh \in Nat
  <1>1. PICK c : c = checks[g]
    OBVIOUS
  <1>2. c \in ShelfCheck /\ c.at = "adopt" /\ b \in c.book /\ Announces(c, count)
    BY <1>1 DEF ShelfTypes, ChecksTrue, Shelf!Adopt
  <1>3. PICK item : item = Shelf!Found(b, 0, FALSE)
    OBVIOUS
  <1>4. item \in ShelfItem /\ item.book = b /\ item.new = 0
    BY <1>3 DEF Shelf!Found, ShelfItem
  <1>5. PICK d : d = Shelf!Sent(c, item)
    OBVIOUS
  <1>6. d \in ShelfCheck /\ d.at = "next" /\ d.listening = c.listening /\ Keeps(c, d) /\ d.book = {} /\ d.todo = c.todo
    BY <1>2, <1>4, <1>5, SentIs DEF Keeps
  <1>7. Announces(d, count)
    <2>1. IsNews(c.base[item.book], item.new, count[item.book])
      BY <1>4 DEF IsNews
    <2>2. QED
      BY <1>2, <1>4, <1>5, <2>1, SentTells
  <1>8. ASSUME NEW t \in SUBSET Book, Avoids(c, t)
        PROVE  Avoids(d, t)
    <2>1. b \notin t
      BY <1>2, <1>8 DEF Avoids
    <2>2. QED
      BY <1>2, <1>4, <1>5, <1>8, <2>1, SentAvoids
  <1>9. Goes(c, d)
    BY <1>2, <1>6, <1>7, <1>8 DEF Goes, Snapshot
  <1>10. checks' = [checks EXCEPT ![g] = d]
    BY <1>1, <1>3, <1>5 DEF Shelf!Adopt, Shelf!Native
  <1>11. c.base[b] = Shelf!Unseen /\ b \notin d.todo \cup d.book /\ c.fresh \in Nat
    BY <1>2, <1>6 DEF Announces, ShelfCheck
  <1>12. QED
    BY <1>1, <1>2, <1>6, <1>9, <1>10, <1>11 DEF Snapshot

LEMMA AbandonGoes ==
  ASSUME ShelfTypes, ChecksTrue, NEW g \in Shelf!Gen, Shelf!Abandon(g)
  PROVE  \E d : /\ checks' = [checks EXCEPT ![g] = d] /\ Goes(checks[g], d) /\ ~Snapshot(d)
  <1>1. PICK d : d = [Shelf!NoCheck EXCEPT !.at = "over"]
    OBVIOUS
  <1>2. checks' = [checks EXCEPT ![g] = d] /\ checks[g].listening = FALSE /\ checks[g].at = "next"
    BY <1>1 DEF Shelf!Abandon, Shelf!Native, ShelfTypes, ShelfCheck
  <1>3. d \in ShelfCheck /\ Blank(d) /\ d.at = "over" /\ d.listening = FALSE
    <2>1. Shelf!NoCheck \in ShelfCheck /\ Blank(Shelf!NoCheck) /\ Shelf!NoCheck.listening = FALSE
      BY NoCheckType
    <2>2. d \in ShelfCheck
      BY <1>1, <2>1, ShelfConstants DEF ShelfCheck
    <2>3. /\ d.at = "over" /\ d.todo = Shelf!NoCheck.todo /\ d.book = Shelf!NoCheck.book
          /\ d.out = Shelf!NoCheck.out /\ d.badges = Shelf!NoCheck.badges
          /\ d.failed = Shelf!NoCheck.failed /\ d.listening = Shelf!NoCheck.listening
      BY <1>1, <2>1 DEF ShelfCheck
    <2>4. QED
      BY <2>1, <2>2, <2>3 DEF Blank
  <1>4. Goes(checks[g], d)
    BY <1>2, <1>3, BlankIsTrue DEF Goes
  <1>5. QED
    BY <1>2, <1>3, <1>4 DEF Snapshot

-----------------------------------------------------------------------------
(* The steps of a native stream keep the invariant.                          *)

\* What the others keep of a step of the check of generation g.
LEMMA GoesKeeps ==
  ASSUME ShelfInv, NEW g \in Shelf!Gen, NEW d, Goes(checks[g], d), checks' = [checks EXCEPT ![g] = d],
         UNCHANGED <<count, shelf, marks, checkGeneration, updates, flow, gone>>,
         cached' \in [Book -> Nat], seen' \in [Book -> Int], raced' \subseteq Book,
         Anchored(d, seen', raced'),
         \A h \in Shelf!Gen \ {g} : Anchored(checks[h], seen', raced'),
         BadgesAreNews',
         \A m \in marks : /\ \A h \in Shelf!Gen : Snapshot(checks'[h]) => m.book \in raced'
                          /\ m.book \in raced' \/ updates.badges[m.book] = 0
  PROVE  ShelfInv'
  <1> USE DEF ShelfInv
  <1>1. /\ \A h \in Shelf!Gen : checks'[h] = IF h = g THEN d ELSE checks[h]
        /\ checks' \in [Shelf!Gen -> ShelfCheck]
    BY DEF ShelfTypes, Goes
  <1>2. ShelfTypes'
    BY <1>1 DEF ShelfTypes, Shelf!Gen, Shelf!View
  <1>3. checkGeneration \in Nat /\ (checkGeneration # 0 => checkGeneration \in Shelf!Gen)
    BY ShelfBounds DEF ShelfTypes, Shelf!Gen
  <1>4. ~(g > checkGeneration)
    BY NoCheckType DEF ChecksTrue, Goes
  <1>5. ChecksTrue'
    <2>1. \A h \in Shelf!Gen : /\ Announces(checks'[h], count)
                               /\ Anchored(checks'[h], seen', raced')
                               /\ (~Snapshot(checks'[h]) => Blank(checks'[h]))
                               /\ (h > checkGeneration => checks'[h] = Shelf!NoCheck)
      BY <1>1, <1>4 DEF ChecksTrue, Goes
    <2>2. QED
      BY <2>1 DEF ChecksTrue, Announces, Anchored, Snapshot, Blank, Shelf!Gen, Shelf!NoCheck, Shelf!Zero
  <1>6. LatestTrue'
    <2>1. checkGeneration # 0 => checks'[checkGeneration].listening = checks[checkGeneration].listening
      BY <1>1, <1>3 DEF Goes
    <2>2. checkGeneration # 0 => Avoids(checks'[checkGeneration], gone)
      <3>1. gone \in SUBSET Book /\ gone \cap shelf = {}
        BY DEF ShelfTypes, GoneIsGone
      <3>2. QED
        BY <1>1, <1>3, <3>1 DEF LatestTrue, Goes
    <2>3. checkGeneration # 0 /\ checks'[checkGeneration].at = "opening" => updates.badges = Shelf!Zero
      BY <1>1, <1>3 DEF LatestTrue, Goes
    <2>4. updates.checking <=> checkGeneration # 0 /\ checks'[checkGeneration].listening
      BY <2>1 DEF LatestTrue, Shelf!CheckDriven
    <2>5. Shelf!CheckDriven'
      BY <2>4 DEF Shelf!CheckDriven
    <2>6. (checkGeneration # 0 => Avoids(checks[checkGeneration], gone))'
      BY <2>2 DEF Avoids
    <2>7. (checkGeneration # 0 /\ checks[checkGeneration].at = "opening" => updates.badges = Shelf!Zero)'
      BY <2>3 DEF Shelf!Zero
    <2>8. QED
      BY <2>5, <2>6, <2>7 DEF LatestTrue
  <1>7. MarksRace'
    BY DEF MarksRace, Snapshot, Shelf!Gen
  <1>8. GoneIsGone'
    BY DEF GoneIsGone
  <1>9. QED
    BY <1>2, <1>5, <1>6, <1>7, <1>8

\* A step that leaves the baselines alone, from a check that has a snapshot.
LEMMA GoesAloneKeeps ==
  ASSUME ShelfInv, NEW g \in Shelf!Gen, NEW d, Goes(checks[g], d), checks' = [checks EXCEPT ![g] = d],
         UNCHANGED <<count, shelf, marks, checkGeneration, updates, flow, gone, seen, raced>>,
         cached' \in [Book -> Nat],
         Snapshot(d) => Snapshot(checks[g]) /\ Keeps(checks[g], d)
  PROVE  ShelfInv'
  <1> USE DEF ShelfInv
  <1>1. seen' \in [Book -> Int] /\ raced' \subseteq Book
    BY DEF ShelfTypes
  <1>2. Anchored(d, seen', raced') /\ \A h \in Shelf!Gen \ {g} : Anchored(checks[h], seen', raced')
    BY DEF ChecksTrue, Anchored, Keeps
  <1>3. BadgesAreNews'
    BY DEF BadgesAreNews, Shelf!Leaving, Shelf!View, IsNews
  <1>4. \A m \in marks : /\ \A h \in Shelf!Gen : Snapshot(checks'[h]) => m.book \in raced'
                         /\ m.book \in raced' \/ updates.badges[m.book] = 0
    <2>1. \A h \in Shelf!Gen : Snapshot(checks'[h]) => Snapshot(checks[h])
      BY DEF ShelfTypes
    <2>2. QED
      BY <2>1 DEF MarksRace
  <1>5. QED
    BY <1>1, <1>2, <1>3, <1>4, GoesKeeps

\* The check takes its snapshot.
LEMMA OpenKeeps ==
  ASSUME ShelfInv, NEW g \in Shelf!Gen, Shelf!OpenStream(g)
  PROVE  ShelfInv'
  <1> USE DEF ShelfInv
  <1>1. PICK d : /\ checks' = [checks EXCEPT ![g] = d] /\ Goes(checks[g], d) /\ d.base = seen
                 /\ checks[g].at = "opening"
    BY OpenGoes
  <1>2. /\ UNCHANGED <<count, shelf, marks, checkGeneration, updates, flow, gone, cached, seen>>
        /\ raced' = (IF g # checkGeneration \/ \E h \in Shelf!Gen : Shelf!Open(h) THEN raced ELSE {})
                    \cup {m.book : m \in marks}
    BY DEF Shelf!OpenStream, Shelf!Native
  <1>3. cached' \in [Book -> Nat] /\ seen' \in [Book -> Int] /\ raced' \subseteq Book
    BY <1>2 DEF ShelfTypes
  <1>4. Anchored(d, seen', raced')
    BY <1>1, <1>2 DEF Anchored
  <1>5. \A m \in marks : m.book \in raced'
    BY <1>2
  <1>6. CASE g # checkGeneration \/ \E h \in Shelf!Gen : Shelf!Open(h)
    <2>1. raced \subseteq raced'
      BY <1>2, <1>6
    <2>2. \A h \in Shelf!Gen \ {g} : Anchored(checks[h], seen', raced')
      BY <1>2, <2>1 DEF ChecksTrue, Anchored
    <2>3. BadgesAreNews'
      BY <1>2, <2>1 DEF BadgesAreNews, Shelf!Leaving, Shelf!View, IsNews
    <2>4. QED
      BY <1>1, <1>2, <1>3, <1>4, <1>5, <2>2, <2>3, GoesKeeps
  <1>7. CASE g = checkGeneration /\ ~\E h \in Shelf!Gen : Shelf!Open(h)
    <2>1. \A h \in Shelf!Gen : ~Snapshot(checks[h])
      BY <1>7 DEF Shelf!Open, Snapshot
    <2>2. \A h \in Shelf!Gen \ {g} : Anchored(checks[h], seen', raced')
      BY <2>1 DEF Anchored
    <2>3. updates.badges = Shelf!Zero
      BY <1>1, <1>7, ShelfBounds DEF LatestTrue, Shelf!Gen
    <2>4. BadgesAreNews'
      <3>1. \A b \in Book : updates'.badges[b] = 0
        BY <1>2, <2>3, ShelfConstants
      <3>2. QED
        BY <3>1 DEF BadgesAreNews, IsNews
    <2>5. QED
      BY <1>1, <1>2, <1>3, <1>4, <1>5, <2>2, <2>4, GoesKeeps
  <1>8. QED
    BY <1>6, <1>7

\* The check sets the baseline of a book that had none.
LEMMA AdoptKeeps ==
  ASSUME ShelfInv, NEW g \in Shelf!Gen, NEW b \in Book, Shelf!Adopt(g, b)
  PROVE  ShelfInv'
  <1> USE DEF ShelfInv
  <1>1. PICK d : /\ checks' = [checks EXCEPT ![g] = d] /\ Goes(checks[g], d) /\ Keeps(checks[g], d)
                 /\ Snapshot(checks[g]) /\ b \notin d.todo \cup d.book
                 /\ checks[g].base[b] = Shelf!Unseen /\ b \in checks[g].book /\ checks[g].fresh \in Nat
    BY AdoptGoes
  <1>2. /\ UNCHANGED <<count, shelf, marks, checkGeneration, updates, flow, gone, cached>>
        /\ seen' = IF b \in shelf THEN [seen EXCEPT ![b] = checks[g].fresh] ELSE seen
        /\ raced' = IF \E h \in Shelf!Gen \ {g} : Shelf!Open(h) THEN raced \cup {b} ELSE raced
    BY DEF Shelf!Adopt, Shelf!Native, Shelf!Baseline, Shelf!Raced
  <1>3. cached' \in [Book -> Nat] /\ seen' \in [Book -> Int] /\ raced' \subseteq Book /\ seen \in [Book -> Int]
    BY <1>1, <1>2 DEF ShelfTypes
  <1>4. \A x \in Book : x # b => seen'[x] = seen[x]
    BY <1>2, <1>3
  <1>5. raced \subseteq raced'
    BY <1>2
  <1>6. Anchored(checks[g], seen, raced)
    BY DEF ChecksTrue
  <1>7. Anchored(d, seen', raced')
    <2>1. ASSUME NEW x \in Book \ raced', x # b
          PROVE  d.base[x] = seen'[x] \/ (d.base[x] = Shelf!Unseen /\ x \notin d.todo \cup d.book)
      BY <1>1, <1>4, <1>5, <1>6, <2>1 DEF Anchored, Keeps
    <2>2. d.base[b] = Shelf!Unseen /\ b \notin d.todo \cup d.book
      BY <1>1 DEF Keeps
    <2>3. QED
      BY <2>1, <2>2 DEF Anchored
  <1>8. ASSUME NEW h \in Shelf!Gen \ {g}
        PROVE  Anchored(checks[h], seen', raced')
    <2>1. SUFFICES ASSUME Snapshot(checks[h])
                   PROVE  Anchored(checks[h], seen', raced')
      BY DEF Anchored
    <2>2. Shelf!Open(h)
      BY <2>1 DEF Shelf!Open, Snapshot
    <2>3. b \in raced'
      BY <1>2, <1>8, <2>2
    <2>4. Anchored(checks[h], seen, raced)
      BY DEF ChecksTrue
    <2>5. QED
      BY <1>4, <1>5, <2>3, <2>4 DEF Anchored
  <1>9. BadgesAreNews'
    <2>1. Shelf!Leaving' = Shelf!Leaving
      BY <1>2 DEF Shelf!Leaving, Shelf!View
    <2>2. ASSUME NEW x \in Book \ (raced' \cup Shelf!Leaving)
          PROVE  IsNews(seen'[x], updates.badges[x], count[x])
      <3>1. IsNews(seen[x], updates.badges[x], count[x])
        BY <1>5, <2>2 DEF BadgesAreNews
      <3>2. CASE x # b
        BY <1>4, <3>1, <3>2
      <3>3. CASE x = b
        <4>1. seen[b] = Shelf!Unseen
          BY <1>1, <1>5, <1>6, <2>2, <3>3 DEF Anchored
        <4>2. ~(updates.badges[b] > 0)
          BY <3>1, <3>3, <4>1 DEF IsNews
        <4>3. QED
          BY <3>3, <4>2 DEF IsNews
      <3>4. QED
        BY <3>2, <3>3
    <2>3. QED
      BY <1>2, <2>1, <2>2 DEF BadgesAreNews, IsNews
  <1>10. \A m \in marks : /\ \A h \in Shelf!Gen : Snapshot(checks'[h]) => m.book \in raced'
                          /\ m.book \in raced' \/ updates.badges[m.book] = 0
    <2>1. \A h \in Shelf!Gen : Snapshot(checks'[h]) => Snapshot(checks[h])
      BY <1>1 DEF ShelfTypes
    <2>2. QED
      BY <1>5, <2>1 DEF MarksRace
  <1>11. QED
    BY <1>1, <1>2, <1>3, <1>7, <1>8, <1>9, <1>10, GoesKeeps

\* Every step of a native stream.
LEMMA NativeKeeps ==
  ASSUME ShelfInv, NEW g \in Shelf!Gen, Shelf!NativeStep(g)
  PROVE  ShelfInv'
  <1> USE DEF ShelfInv
  <1>1. checks[g] \in ShelfCheck /\ Announces(checks[g], count) /\ (~Snapshot(checks[g]) => Blank(checks[g]))
    BY DEF ShelfTypes, ChecksTrue
  <1>2. CASE Shelf!OpenStream(g)
    BY <1>2, OpenKeeps
  <1>3. CASE Shelf!OpenFails(g)
    <2>1. PICK d : d = [checks[g] EXCEPT !.at = "threw"]
      OBVIOUS
    <2>2. /\ checks' = [checks EXCEPT ![g] = d] /\ checks[g].at = "opening"
          /\ UNCHANGED <<count, shelf, marks, checkGeneration, updates, flow, gone, seen, raced, cached>>
      BY <1>3, <2>1 DEF Shelf!OpenFails, Shelf!Native
    <2>3. Goes(checks[g], d) /\ d.at = "threw" /\ Keeps(checks[g], d)
      BY <1>1, <2>1, <2>2, AtGoes, ShelfConstants DEF Snapshot
    <2>4. cached' \in [Book -> Nat] /\ ~Snapshot(d)
      BY <2>2, <2>3 DEF ShelfTypes, Snapshot
    <2>5. QED
      BY <2>2, <2>3, <2>4, GoesAloneKeeps
  <1>4. CASE Shelf!EndStream(g)
    <2>1. PICK d : d = [checks[g] EXCEPT !.at = "ended"]
      OBVIOUS
    <2>2. /\ checks' = [checks EXCEPT ![g] = d] /\ checks[g].at = "next"
          /\ UNCHANGED <<count, shelf, marks, checkGeneration, updates, flow, gone, seen, raced, cached>>
      BY <1>4, <2>1 DEF Shelf!EndStream, Shelf!Native
    <2>3. Goes(checks[g], d) /\ Keeps(checks[g], d)
      BY <1>1, <2>1, <2>2, AtGoes, ShelfConstants
    <2>4. cached' \in [Book -> Nat] /\ Snapshot(checks[g])
      BY <2>2 DEF ShelfTypes, Snapshot
    <2>5. QED
      BY <2>2, <2>3, <2>4, GoesAloneKeeps
  <1>5. CASE Shelf!Abandon(g)
    <2>1. PICK d : checks' = [checks EXCEPT ![g] = d] /\ Goes(checks[g], d) /\ ~Snapshot(d)
      BY <1>5, AbandonGoes
    <2>2. /\ UNCHANGED <<count, shelf, marks, checkGeneration, updates, flow, gone, seen, raced, cached>>
          /\ cached' \in [Book -> Nat]
      BY <1>5 DEF Shelf!Abandon, Shelf!Native, ShelfTypes
    <2>3. QED
      BY <2>1, <2>2, GoesAloneKeeps
  <1>6. ASSUME NEW b \in Book, Shelf!Fetch(g, b)
        PROVE  ShelfInv'
    <2>1. /\ \E d : /\ checks' = [checks EXCEPT ![g] = d] /\ Goes(checks[g], d) /\ Keeps(checks[g], d)
                    /\ Snapshot(checks[g])
          /\ cached' \in [Book -> Nat]
      BY <1>6, FetchGoes
    <2>2. PICK d : /\ checks' = [checks EXCEPT ![g] = d] /\ Goes(checks[g], d) /\ Keeps(checks[g], d)
                   /\ Snapshot(checks[g])
      BY <2>1
    <2>3. UNCHANGED <<count, shelf, marks, checkGeneration, updates, flow, gone, seen, raced>>
      BY <1>6 DEF Shelf!Fetch, Shelf!Native
    <2>4. QED
      BY <2>1, <2>2, <2>3, GoesAloneKeeps
  <1>7. ASSUME NEW b \in Book, Shelf!Adopt(g, b)
        PROVE  ShelfInv'
    BY <1>7, AdoptKeeps
  <1>8. QED
    BY <1>2, <1>3, <1>4, <1>5, <1>6, <1>7 DEF Shelf!NativeStep

-----------------------------------------------------------------------------
(* The steps of the notifier keep the invariant.                             *)

\* What the notifier makes of the check of generation g.
LEMMA HeardKeeps ==
  ASSUME ShelfInv, NEW g \in Shelf!Gen, NEW d \in ShelfCheck, checks' = [checks EXCEPT ![g] = d],
         UNCHANGED <<count, cached, seen, shelf, marks, raced, gone, flow, checkGeneration>>,
         updates' \in ShelfShown,
         Announces(d, count), Anchored(d, seen, raced), ~Snapshot(d) => Blank(d),
         g <= checkGeneration, d.at # "opening", Snapshot(d) => Snapshot(checks[g]),
         g = checkGeneration => Avoids(d, gone) /\ (updates'.checking <=> d.listening),
         g # checkGeneration => updates' = updates,
         BadgesAreNews', GoneIsGone',
         \A m \in marks : m.book \in raced \/ updates'.badges[m.book] = 0
  PROVE  ShelfInv'
  <1> USE DEF ShelfInv
  <1>1. /\ \A h \in Shelf!Gen : checks'[h] = IF h = g THEN d ELSE checks[h]
        /\ checks' \in [Shelf!Gen -> ShelfCheck]
    BY DEF ShelfTypes
  <1>2. ShelfTypes'
    BY <1>1 DEF ShelfTypes, Shelf!Gen, Shelf!View
  <1>3. /\ checkGeneration \in Nat /\ (checkGeneration # 0 => checkGeneration \in Shelf!Gen)
        /\ g \in Nat /\ g # 0
    BY ShelfBounds DEF ShelfTypes, Shelf!Gen
  <1>5. ChecksTrue'
    <2>1. \A h \in Shelf!Gen : /\ Announces(checks'[h], count)
                               /\ Anchored(checks'[h], seen, raced)
                               /\ (~Snapshot(checks'[h]) => Blank(checks'[h]))
                               /\ (h > checkGeneration => checks'[h] = Shelf!NoCheck)
      BY <1>1, <1>3 DEF ChecksTrue
    <2>2. (\A h \in Shelf!Gen : Announces(checks[h], count))'
      BY <2>1 DEF Announces, Shelf!Gen
    <2>3. (\A h \in Shelf!Gen : Anchored(checks[h], seen, raced))'
      BY <2>1 DEF Anchored, Snapshot, Shelf!Gen
    <2>4. (\A h \in Shelf!Gen : (~Snapshot(checks[h]) => Blank(checks[h])))'
      BY <2>1 DEF Blank, Snapshot, Shelf!Gen, Shelf!Zero
    <2>5. (\A h \in Shelf!Gen : (h > checkGeneration => checks[h] = Shelf!NoCheck))'
      BY <2>1 DEF Shelf!Gen, Shelf!NoCheck, Shelf!Zero
    <2>6. QED
      BY <2>2, <2>3, <2>4, <2>5 DEF ChecksTrue
  <1>6. LatestTrue'
    <2>1. CASE g = checkGeneration
      <3>1. checks'[checkGeneration] = d /\ checkGeneration # 0
        BY <1>1, <1>3, <2>1
      <3>2. QED
        BY <2>1, <3>1 DEF LatestTrue, Shelf!CheckDriven, Avoids
    <2>2. CASE g # checkGeneration
      <3>1. checkGeneration # 0 => checks'[checkGeneration] = checks[checkGeneration]
        BY <1>1, <1>3, <2>2
      <3>2. Shelf!CheckDriven'
        BY <2>2, <3>1 DEF LatestTrue, Shelf!CheckDriven
      <3>3. (checkGeneration # 0 => Avoids(checks[checkGeneration], gone))'
        BY <3>1 DEF LatestTrue, Avoids
      <3>4. (checkGeneration # 0 /\ checks[checkGeneration].at = "opening" => updates.badges = Shelf!Zero)'
        BY <2>2, <3>1 DEF LatestTrue, Shelf!Zero
      <3>5. QED
        BY <3>2, <3>3, <3>4 DEF LatestTrue
    <2>3. QED
      BY <2>1, <2>2
  <1>7. MarksRace'
    <2>1. \A h \in Shelf!Gen : Snapshot(checks'[h]) => Snapshot(checks[h])
      BY <1>1
    <2>2. \A m \in marks : /\ \A h \in Shelf!Gen : Snapshot(checks'[h]) => m.book \in raced
                           /\ m.book \in raced \/ updates'.badges[m.book] = 0
      BY <2>1 DEF MarksRace
    <2>3. QED
      BY <2>2 DEF MarksRace, Snapshot, Shelf!Gen
  <1>9. QED
    BY <1>2, <1>5, <1>6, <1>7

\* A check that is over.
LEMMA OverIs ==
  LET d == [Shelf!NoCheck EXCEPT !.at = "over"]
  IN  d \in ShelfCheck /\ Blank(d) /\ d.at = "over" /\ d.listening = FALSE
  <1>1. PICK d : d = [Shelf!NoCheck EXCEPT !.at = "over"]
    OBVIOUS
  <1>2. Shelf!NoCheck \in ShelfCheck /\ Blank(Shelf!NoCheck) /\ Shelf!NoCheck.listening = FALSE
    BY NoCheckType
  <1>3. d \in ShelfCheck
    BY <1>1, <1>2, ShelfConstants DEF ShelfCheck
  <1>4. /\ d.at = "over" /\ d.todo = Shelf!NoCheck.todo /\ d.book = Shelf!NoCheck.book
        /\ d.out = Shelf!NoCheck.out /\ d.badges = Shelf!NoCheck.badges
        /\ d.failed = Shelf!NoCheck.failed /\ d.listening = Shelf!NoCheck.listening
    BY <1>1, <1>2 DEF ShelfCheck
  <1>5. QED
    BY <1>1, <1>2, <1>3, <1>4 DEF Blank

\* What is left of a check that is not the current one.
LEMMA LeftIs ==
  ASSUME NEW c \in ShelfCheck, Announces(c, count), Anchored(c, seen, raced), ~Snapshot(c) => Blank(c)
  PROVE  LET d == Shelf!Left(c)
         IN  /\ d \in ShelfCheck /\ Announces(d, count) /\ Anchored(d, seen, raced)
             /\ (~Snapshot(d) => Blank(d)) /\ d.at # "opening" /\ (Snapshot(d) => Snapshot(c))
  <1>1. CASE c.at \in {"next", "adopt"}
    <2>1. PICK d : d = [c EXCEPT !.out = <<>>, !.listening = FALSE]
      OBVIOUS
    <2>2. d \in ShelfCheck
      BY <2>1, ShelfConstants DEF ShelfCheck
    <2>3. /\ d.at = c.at /\ d.base = c.base /\ d.todo = c.todo /\ d.book = c.book /\ d.out = <<>>
          /\ d.badges = c.badges /\ d.failed = c.failed
      BY <2>1 DEF ShelfCheck
    <2>4. DOMAIN d.out = {}
      BY <2>3
    <2>5. Announces(d, count)
      BY <2>3, <2>4 DEF Announces
    <2>6. Anchored(d, seen, raced)
      BY <2>3 DEF Anchored, Snapshot
    <2>7. QED
      BY <1>1, <2>1, <2>2, <2>3, <2>5, <2>6 DEF Shelf!Left, Snapshot
  <1>2. CASE c.at \notin {"next", "adopt"}
    <2>1. PICK d : d = [Shelf!NoCheck EXCEPT !.at = "over"]
      OBVIOUS
    <2>2. d \in ShelfCheck /\ Blank(d) /\ d.at = "over"
      BY <2>1, OverIs
    <2>3. Announces(d, count)
      BY <2>2, BlankIsTrue
    <2>4. QED
      BY <1>2, <2>1, <2>2, <2>3 DEF Shelf!Left, Snapshot, Anchored
  <1>3. QED
    BY <1>1, <1>2

\* A check with its first result noted.
LEMMA NotedIs ==
  ASSUME NEW c \in ShelfCheck, c.out # <<>>, count \in [Book -> Nat], Announces(c, count)
  PROVE  LET d == Shelf!Noted(c, Head(c.out))
         IN  /\ d \in ShelfCheck /\ Announces(d, count) /\ d.at = c.at /\ d.base = c.base
             /\ d.todo = c.todo /\ d.book = c.book /\ d.listening = c.listening
             /\ \A t \in SUBSET Book : Avoids(c, t) => Avoids(d, t)
  <1>1. PICK item : item = Head(c.out)
    OBVIOUS
  <1>2. PICK o : o = Tail(c.out)
    OBVIOUS
  <1>3. /\ item \in ShelfItem /\ item = c.out[1] /\ 1 \in DOMAIN c.out
        /\ o \in Seq(ShelfItem) /\ \A i \in DOMAIN o : i + 1 \in DOMAIN c.out /\ o[i] = c.out[i + 1]
    <2>1. c.out \in Seq(ShelfItem) /\ Len(c.out) \in Nat /\ Len(c.out) > 0 /\ DOMAIN c.out = 1..Len(c.out)
      BY DEF ShelfCheck
    <2>2. item \in ShelfItem /\ item = c.out[1] /\ 1 \in DOMAIN c.out
      BY <1>1, <2>1
    <2>3. o \in Seq(ShelfItem) /\ Len(o) = Len(c.out) - 1 /\ DOMAIN o = 1..Len(o)
      BY <1>2, <2>1
    <2>4. \A i \in 1..(Len(c.out) - 1) : o[i] = c.out[i + 1]
      BY <1>2, <2>1
    <2>5. QED
      BY <2>1, <2>2, <2>3, <2>4
  <1>4. item.book \in Book /\ item.new \in Nat /\ item.failed \in BOOLEAN
    BY <1>3 DEF ShelfItem
  <1>5. PICK n : n = IF item.new > 0 THEN item.new ELSE c.badges[item.book]
    OBVIOUS
  <1>6. PICK bs : bs = [c.badges EXCEPT ![item.book] = n]
    OBVIOUS
  <1>7. PICK f : f = IF item.failed THEN c.failed \cup {item.book} ELSE c.failed
    OBVIOUS
  <1>8. c.badges \in [Book -> Nat] /\ c.failed \in SUBSET Book /\ c.base \in [Book -> Int]
    BY DEF ShelfCheck
  <1>9. n \in Nat /\ bs \in [Book -> Nat] /\ f \in SUBSET Book
    BY <1>4, <1>5, <1>6, <1>7, <1>8
  <1>10. PICK d : d = Shelf!Noted(c, item)
    OBVIOUS
  <1>11. d = [c EXCEPT !.out = o, !.failed = f, !.badges = bs]
    BY <1>2, <1>4, <1>5, <1>6, <1>7, <1>10 DEF Shelf!Noted
  <1>12. d \in ShelfCheck
    BY <1>3, <1>9, <1>11 DEF ShelfCheck
  <1>13. /\ d.at = c.at /\ d.base = c.base /\ d.todo = c.todo /\ d.book = c.book /\ d.out = o
         /\ d.badges = bs /\ d.failed = f /\ d.listening = c.listening
    BY <1>11 DEF ShelfCheck
  <1>14. \A b \in Book : bs[b] = IF b = item.book THEN n ELSE c.badges[b]
    BY <1>6, <1>8
  <1>15. Announces(d, count)
    <2>1. IsNews(c.base[item.book], n, count[item.book])
      <3>1. IsNews(c.base[item.book], item.new, count[item.book])
        BY <1>3 DEF Announces
      <3>2. IsNews(c.base[item.book], c.badges[item.book], count[item.book])
        BY <1>4 DEF Announces
      <3>3. QED
        BY <1>5, <3>1, <3>2
    <2>2. \A b \in Book : IsNews(d.base[b], d.badges[b], count[b])
      BY <1>13, <1>14, <2>1 DEF Announces
    <2>3. \A i \in DOMAIN d.out : IsNews(d.base[d.out[i].book], d.out[i].new, count[d.out[i].book])
      BY <1>3, <1>13 DEF Announces
    <2>4. QED
      BY <1>13, <2>2, <2>3 DEF Announces
  <1>16. ASSUME NEW t \in SUBSET Book, Avoids(c, t)
         PROVE  Avoids(d, t)
    <2>1. item.book \notin t
      BY <1>3, <1>16 DEF Avoids
    <2>2. \A b \in t : d.badges[b] = 0
      BY <1>13, <1>14, <1>16, <2>1 DEF Avoids
    <2>3. d.failed \cap t = {}
      BY <1>7, <1>13, <1>16, <2>1 DEF Avoids
    <2>4. \A i \in DOMAIN d.out : d.out[i].book \notin t
      BY <1>3, <1>13, <1>16 DEF Avoids
    <2>5. QED
      BY <1>13, <1>16, <2>2, <2>3, <2>4 DEF Avoids
  <1>17. QED
    BY <1>1, <1>10, <1>12, <1>13, <1>15, <1>16

LEMMA CheckKeeps ==
  ASSUME ShelfInv, Shelf!Check
  PROVE  ShelfInv'
  <1> USE DEF ShelfInv
  <1>1. PICK g : g = checkGeneration + 1
    OBVIOUS
  <1>2. PICK d : d = [Shelf!NoCheck EXCEPT !.at = "opening", !.listening = TRUE]
    OBVIOUS
  <1>3. /\ checkGeneration < MaxChecks /\ checkGeneration' = g /\ checks' = [checks EXCEPT ![g] = d]
        /\ updates' = [checking |-> TRUE, badges |-> Shelf!Zero, failed |-> {}]
        /\ UNCHANGED <<count, cached, shelf, seen, marks, flow, raced, gone>>
    BY <1>1, <1>2 DEF Shelf!Check, Shelf!Notifier, Shelf!history
  <1>4. checkGeneration \in Nat /\ g \in Shelf!Gen /\ g \in 0..MaxChecks /\ g # 0
    BY <1>1, <1>3, ShelfBounds DEF ShelfTypes, Shelf!Gen
  <1>5. d \in ShelfCheck /\ Blank(d) /\ ~Snapshot(d) /\ d.at = "opening" /\ d.listening = TRUE
    <2>1. Shelf!NoCheck \in ShelfCheck /\ Blank(Shelf!NoCheck)
      BY NoCheckType
    <2>2. d \in ShelfCheck
      BY <1>2, <2>1, ShelfConstants DEF ShelfCheck
    <2>3. /\ d.at = "opening" /\ d.todo = Shelf!NoCheck.todo /\ d.book = Shelf!NoCheck.book
          /\ d.out = Shelf!NoCheck.out /\ d.badges = Shelf!NoCheck.badges
          /\ d.failed = Shelf!NoCheck.failed /\ d.listening = TRUE
      BY <1>2, <2>1 DEF ShelfCheck
    <2>4. QED
      BY <2>1, <2>2, <2>3 DEF Blank, Snapshot
  <1>6. /\ \A h \in Shelf!Gen : checks'[h] = IF h = g THEN d ELSE checks[h]
        /\ checks' \in [Shelf!Gen -> ShelfCheck]
    BY <1>3, <1>5 DEF ShelfTypes
  <1>7. /\ updates' \in ShelfShown /\ updates'.checking = TRUE /\ updates'.badges = Shelf!Zero
        /\ updates'.failed = {}
    BY <1>3, ShelfConstants DEF ShelfShown
  <1>8. \A b \in Book : updates'.badges[b] = 0
    BY <1>7, ShelfConstants
  <1>9. ShelfTypes'
    BY <1>3, <1>4, <1>6, <1>7 DEF ShelfTypes, Shelf!Gen, Shelf!View
  <1>10. ChecksTrue'
    <2>1. Announces(d, count)
      BY <1>5, BlankIsTrue
    <2>2. \A h \in Shelf!Gen : /\ Announces(checks'[h], count)
                               /\ Anchored(checks'[h], seen, raced)
                               /\ (~Snapshot(checks'[h]) => Blank(checks'[h]))
                               /\ (h > g => checks'[h] = Shelf!NoCheck)
      <3>1. \A h \in Shelf!Gen : h > g => h > checkGeneration
        BY <1>1, <1>4 DEF Shelf!Gen
      <3>2. Anchored(d, seen, raced)
        BY <1>5 DEF Anchored
      <3>3. ~(g > g)
        BY <1>4
      <3>4. QED
        BY <1>5, <1>6, <2>1, <3>1, <3>2, <3>3 DEF ChecksTrue
    <2>3. (\A h \in Shelf!Gen : Announces(checks[h], count))'
      BY <1>3, <2>2 DEF Announces, Shelf!Gen
    <2>4. (\A h \in Shelf!Gen : Anchored(checks[h], seen, raced))'
      BY <1>3, <2>2 DEF Anchored, Snapshot, Shelf!Gen
    <2>5. (\A h \in Shelf!Gen : (~Snapshot(checks[h]) => Blank(checks[h])))'
      BY <2>2 DEF Blank, Snapshot, Shelf!Gen, Shelf!Zero
    <2>6. (\A h \in Shelf!Gen : (h > checkGeneration => checks[h] = Shelf!NoCheck))'
      BY <1>3, <2>2 DEF Shelf!Gen, Shelf!NoCheck, Shelf!Zero
    <2>7. QED
      BY <2>3, <2>4, <2>5, <2>6 DEF ChecksTrue
  <1>11. LatestTrue'
    <2>1. checks'[checkGeneration'] = d
      BY <1>3, <1>4, <1>6
    <2>2. Shelf!CheckDriven'
      BY <1>3, <1>4, <1>5, <1>7, <2>1 DEF Shelf!CheckDriven
    <2>3. Avoids(d, gone)
      BY <1>5, BlankIsTrue DEF ShelfTypes
    <2>4. (checkGeneration # 0 => Avoids(checks[checkGeneration], gone))'
      BY <1>3, <2>1, <2>3 DEF Avoids
    <2>5. (checkGeneration # 0 /\ checks[checkGeneration].at = "opening" => updates.badges = Shelf!Zero)'
      BY <1>7 DEF Shelf!Zero
    <2>6. QED
      BY <2>2, <2>4, <2>5 DEF LatestTrue
  <1>12. MarksRace'
    <2>1. \A h \in Shelf!Gen : Snapshot(checks'[h]) => Snapshot(checks[h])
      BY <1>5, <1>6
    <2>2. \A m \in marks : /\ \A h \in Shelf!Gen : Snapshot(checks'[h]) => m.book \in raced
                           /\ m.book \in raced \/ updates'.badges[m.book] = 0
      BY <1>8, <2>1 DEF MarksRace, ShelfTypes
    <2>3. QED
      BY <1>3, <2>2 DEF MarksRace, Snapshot, Shelf!Gen
  <1>13. BadgesAreNews' /\ GoneIsGone'
    <2>1. BadgesAreNews'
      BY <1>8 DEF BadgesAreNews, IsNews
    <2>2. gone' \subseteq Book
      BY <1>9 DEF ShelfTypes
    <2>3. GoneIsGone'
      BY <1>3, <1>7, <1>8, <2>2 DEF GoneIsGone
    <2>4. QED
      BY <2>1, <2>3
  <1>14. QED
    BY <1>9, <1>10, <1>11, <1>12, <1>13

LEMMA UpdateKeeps ==
  ASSUME ShelfInv, NEW g \in Shelf!Gen, Shelf!Update(g)
  PROVE  ShelfInv'
  <1> USE DEF ShelfInv
  <1>1. PICK c : c = checks[g]
    OBVIOUS
  <1>2. /\ c \in ShelfCheck /\ Announces(c, count) /\ Anchored(c, seen, raced) /\ Snapshot(c)
        /\ c.listening /\ c.out # <<>> /\ g <= checkGeneration /\ count \in [Book -> Nat]
    <2>1. /\ c \in ShelfCheck /\ Announces(c, count) /\ Anchored(c, seen, raced) /\ (~Snapshot(c) => Blank(c))
          /\ (g > checkGeneration => c = Shelf!NoCheck) /\ count \in [Book -> Nat]
      BY <1>1 DEF ShelfTypes, ChecksTrue
    <2>2. c.listening /\ c.out # <<>>
      BY <1>1 DEF Shelf!Update
    <2>3. ~(g > checkGeneration)
      BY <2>1, <2>2, NoCheckType
    <2>4. g <= checkGeneration
      BY <2>3, ShelfBounds DEF ShelfTypes, Shelf!Gen
    <2>5. QED
      BY <2>1, <2>2, <2>4 DEF Blank
  <1>3. UNCHANGED <<count, cached, seen, shelf, marks, raced, gone, flow, checkGeneration>>
    BY DEF Shelf!Update, Shelf!Notifier, Shelf!history
  <1>4. \A m \in marks : m.book \in raced
    BY <1>1, <1>2 DEF MarksRace
  <1>5. CASE g # checkGeneration
    <2>1. checks' = [checks EXCEPT ![g] = Shelf!Left(c)] /\ updates' = updates
      BY <1>1, <1>5 DEF Shelf!Update, ShelfTypes
    <2>2. PICK d : d = Shelf!Left(c)
      OBVIOUS
    <2>3. /\ d \in ShelfCheck /\ Announces(d, count) /\ Anchored(d, seen, raced)
          /\ (~Snapshot(d) => Blank(d)) /\ d.at # "opening" /\ (Snapshot(d) => Snapshot(c))
      BY <1>2, <2>2, LeftIs
    <2>4. BadgesAreNews' /\ GoneIsGone' /\ updates' \in ShelfShown
      BY <1>3, <2>1 DEF BadgesAreNews, IsNews, GoneIsGone, ShelfTypes, Shelf!Leaving, Shelf!View
    <2>5. QED
      BY <1>1, <1>2, <1>3, <1>4, <1>5, <2>1, <2>2, <2>3, <2>4, HeardKeeps
  <1>6. CASE g = checkGeneration
    <2>1. PICK d : d = Shelf!Noted(c, Head(c.out))
      OBVIOUS
    <2>2. checks' = [checks EXCEPT ![g] = d] /\ updates' = [updates EXCEPT !.badges = d.badges]
      BY <1>1, <1>6, <2>1 DEF Shelf!Update
    <2>3. /\ d \in ShelfCheck /\ Announces(d, count) /\ d.at = c.at /\ d.base = c.base
          /\ d.todo = c.todo /\ d.book = c.book /\ d.listening = c.listening
          /\ \A t \in SUBSET Book : Avoids(c, t) => Avoids(d, t)
      BY <1>2, <2>1, NotedIs
    <2>4. Anchored(d, seen, raced) /\ Snapshot(d) /\ d.at # "opening"
      BY <1>2, <2>3 DEF Anchored, Snapshot
    <2>5. /\ updates \in ShelfShown /\ d.badges \in [Book -> Nat] /\ gone \in SUBSET Book
          /\ g # 0
      BY <2>3 DEF ShelfTypes, ShelfCheck, Shelf!Gen
    <2>6. /\ updates' \in ShelfShown /\ updates'.badges = d.badges
          /\ updates'.checking = updates.checking /\ updates'.failed = updates.failed
      BY <2>2, <2>5 DEF ShelfShown
    <2>7. Avoids(d, gone)
      BY <1>1, <1>6, <2>3, <2>5 DEF LatestTrue
    <2>8. updates'.checking <=> d.listening
      BY <1>1, <1>6, <2>3, <2>5, <2>6 DEF LatestTrue, Shelf!CheckDriven
    <2>9. BadgesAreNews'
      <3>1. ASSUME NEW b \in Book \ raced
            PROVE  IsNews(seen[b], d.badges[b], count[b])
        <4>1. IsNews(d.base[b], d.badges[b], count[b])
          BY <2>3 DEF Announces
        <4>2. d.base[b] = seen[b] \/ d.base[b] = Shelf!Unseen
          BY <2>4 DEF Anchored
        <4>3. QED
          BY <4>1, <4>2 DEF IsNews
      <3>2. QED
        BY <1>3, <2>6, <3>1 DEF BadgesAreNews, IsNews
    <2>10. GoneIsGone'
      BY <1>3, <2>6, <2>7 DEF GoneIsGone, Avoids
    <2>11. QED
      BY <1>1, <1>2, <1>3, <1>4, <1>6, <2>2, <2>3, <2>4, <2>6, <2>7, <2>8, <2>9, <2>10, HeardKeeps
  <1>7. QED
    BY <1>5, <1>6

LEMMA EndsKeeps ==
  ASSUME ShelfInv, NEW g \in Shelf!Gen, Shelf!CheckEnds(g)
  PROVE  ShelfInv'
  <1> USE DEF ShelfInv
  <1>1. PICK c : c = checks[g]
    OBVIOUS
  <1>2. /\ c \in ShelfCheck /\ Announces(c, count) /\ Anchored(c, seen, raced) /\ (~Snapshot(c) => Blank(c))
        /\ c.listening /\ c.at \in {"ended", "threw"} /\ g <= checkGeneration
    <2>1. /\ c \in ShelfCheck /\ Announces(c, count) /\ Anchored(c, seen, raced) /\ (~Snapshot(c) => Blank(c))
          /\ (g > checkGeneration => c = Shelf!NoCheck)
      BY <1>1 DEF ShelfTypes, ChecksTrue
    <2>2. c.listening /\ c.at \in {"ended", "threw"}
      BY <1>1 DEF Shelf!CheckEnds
    <2>3. ~(g > checkGeneration)
      BY <2>1, <2>2, NoCheckType
    <2>4. g <= checkGeneration
      BY <2>3, ShelfBounds DEF ShelfTypes, Shelf!Gen
    <2>5. QED
      BY <2>1, <2>2, <2>4
  <1>3. UNCHANGED <<count, cached, seen, shelf, marks, raced, gone, flow, checkGeneration>>
    BY DEF Shelf!CheckEnds, Shelf!Notifier, Shelf!history
  <1>4. PICK d : d = [Shelf!NoCheck EXCEPT !.at = "over"]
    OBVIOUS
  <1>5. d \in ShelfCheck /\ Blank(d) /\ d.at = "over" /\ d.listening = FALSE
    BY <1>4, OverIs
  <1>6. /\ checks' = [checks EXCEPT ![g] = d]
        /\ updates' = IF g # checkGeneration THEN updates
                      ELSE [checking |-> FALSE, badges |-> c.badges, failed |-> c.failed]
    BY <1>1, <1>4 DEF Shelf!CheckEnds
  <1>7. /\ Announces(d, count) /\ Anchored(d, seen, raced) /\ d.at # "opening" /\ ~Snapshot(d)
        /\ Avoids(d, gone)
    BY <1>5, BlankIsTrue DEF Anchored, Snapshot, ShelfTypes
  <1>8. CASE g # checkGeneration
    <2>1. updates' = updates
      BY <1>6, <1>8
    <2>2. BadgesAreNews' /\ GoneIsGone' /\ updates' \in ShelfShown
      BY <1>3, <2>1 DEF BadgesAreNews, IsNews, GoneIsGone, ShelfTypes, Shelf!Leaving, Shelf!View
    <2>3. \A m \in marks : m.book \in raced \/ updates'.badges[m.book] = 0
      BY <2>1 DEF MarksRace
    <2>4. QED
      BY <1>2, <1>3, <1>5, <1>6, <1>7, <1>8, <2>1, <2>2, <2>3, HeardKeeps
  <1>9. CASE g = checkGeneration
    <2>1. updates' = [checking |-> FALSE, badges |-> c.badges, failed |-> c.failed]
      BY <1>6, <1>9
    <2>2. /\ updates' \in ShelfShown /\ updates'.badges = c.badges
          /\ updates'.checking = FALSE /\ updates'.failed = c.failed
      BY <1>2, <2>1 DEF ShelfShown, ShelfCheck
    <2>3. updates'.checking <=> d.listening
      BY <1>5, <2>2
    <2>4. gone \in SUBSET Book /\ g # 0 /\ Avoids(c, gone)
      BY <1>1, <1>9 DEF LatestTrue, ShelfTypes, Shelf!Gen
    <2>5. BadgesAreNews'
      <3>1. ASSUME NEW b \in Book \ raced
            PROVE  IsNews(seen[b], c.badges[b], count[b])
        <4>1. IsNews(c.base[b], c.badges[b], count[b])
          BY <1>2 DEF Announces
        <4>2. CASE Snapshot(c)
          <5>1. c.base[b] = seen[b] \/ c.base[b] = Shelf!Unseen
            BY <1>2, <4>2 DEF Anchored
          <5>2. QED
            BY <4>1, <5>1 DEF IsNews
        <4>3. CASE ~Snapshot(c)
          BY <1>2, <4>3, ShelfConstants DEF Blank, IsNews
        <4>4. QED
          BY <4>2, <4>3
      <3>2. QED
        BY <1>3, <2>2, <3>1 DEF BadgesAreNews, IsNews
    <2>6. GoneIsGone'
      BY <1>3, <2>2, <2>4 DEF GoneIsGone, Avoids
    <2>7. \A m \in marks : m.book \in raced \/ updates'.badges[m.book] = 0
      <3>1. CASE Snapshot(c)
        BY <1>1, <3>1 DEF MarksRace
      <3>2. CASE ~Snapshot(c)
        BY <1>2, <2>2, <3>2, ShelfConstants DEF Blank, ShelfTypes
      <3>3. QED
        BY <3>1, <3>2
    <2>8. QED
      BY <1>2, <1>3, <1>5, <1>6, <1>7, <1>9, <2>2, <2>3, <2>5, <2>6, <2>7, HeardKeeps
  <1>10. QED
    BY <1>8, <1>9

-----------------------------------------------------------------------------
(* The reader, the source and the deletions keep the invariant.              *)

LEMMA RacedIs ==
  ASSUME NEW bs, Shelf!Raced(bs, 0)
  PROVE  /\ raced \subseteq raced' /\ raced' \subseteq raced \cup bs
         /\ \A h \in Shelf!Gen : Snapshot(checks[h]) => bs \subseteq raced'
  <1>1. ASSUME NEW h \in Shelf!Gen, Snapshot(checks[h])
        PROVE  bs \subseteq raced'
    <2>1. Shelf!Open(h) /\ h \in Shelf!Gen \ {0}
      BY <1>1, ShelfBounds DEF Shelf!Open, Snapshot, Shelf!Gen
    <2>2. QED
      BY <2>1 DEF Shelf!Raced
  <1>2. QED
    BY <1>1 DEF Shelf!Raced

\* Baselines that move where no snapshot holds them, or under a race.
LEMMA MovedAnchors ==
  ASSUME ChecksTrue, NEW bs, Shelf!Raced(bs, 0), \A x \in Book \ bs : seen'[x] = seen[x]
  PROVE  \A h \in Shelf!Gen : Anchored(checks[h], seen', raced')
  <1> SUFFICES ASSUME NEW h \in Shelf!Gen, Snapshot(checks[h])
               PROVE  Anchored(checks[h], seen', raced')
    BY DEF Anchored
  <1>1. raced \subseteq raced' /\ bs \subseteq raced'
    BY RacedIs
  <1>2. Anchored(checks[h], seen, raced)
    BY DEF ChecksTrue
  <1>3. QED
    BY <1>1, <1>2 DEF Anchored

\* A step that leaves the checks alone.
LEMMA ReaderKeeps ==
  ASSUME ShelfInv, UNCHANGED <<checkGeneration, checks>>, ShelfTypes',
         \A b \in Book : count'[b] >= count[b], updates'.checking = updates.checking,
         updates.badges = Shelf!Zero => updates'.badges = Shelf!Zero,
         \A h \in Shelf!Gen : Anchored(checks[h], seen', raced'),
         gone' \subseteq gone, BadgesAreNews', GoneIsGone', MarksRace'
  PROVE  ShelfInv'
  <1> USE DEF ShelfInv
  <1>1. count \in [Book -> Nat] /\ count' \in [Book -> Nat]
    BY DEF ShelfTypes
  <1>2. ASSUME NEW h \in Shelf!Gen
        PROVE  Announces(checks[h], count')
    <2>1. Announces(checks[h], count) /\ checks[h] \in ShelfCheck
      BY DEF ChecksTrue, ShelfTypes
    <2>2. ASSUME NEW b \in Book, NEW n \in Nat, NEW base \in Int, IsNews(base, n, count[b])
          PROVE  IsNews(base, n, count'[b])
      <3>1. count[b] \in Nat /\ count'[b] \in Nat /\ count'[b] >= count[b]
        BY <1>1
      <3>2. QED
        BY <2>2, <3>1 DEF IsNews
    <2>3. /\ checks[h].base \in [Book -> Int] /\ checks[h].badges \in [Book -> Nat]
          /\ \A i \in DOMAIN checks[h].out : /\ checks[h].out[i].book \in Book
                                             /\ checks[h].out[i].new \in Nat
      <3>1. checks[h].out \in Seq(ShelfItem)
        BY <2>1 DEF ShelfCheck
      <3>2. \A i \in DOMAIN checks[h].out : checks[h].out[i] \in ShelfItem
        BY <3>1
      <3>3. QED
        BY <2>1, <3>2 DEF ShelfCheck, ShelfItem
    <2>4. \A b \in Book : IsNews(checks[h].base[b], checks[h].badges[b], count'[b])
      BY <2>1, <2>2, <2>3 DEF Announces
    <2>5. \A i \in DOMAIN checks[h].out :
             IsNews(checks[h].base[checks[h].out[i].book], checks[h].out[i].new, count'[checks[h].out[i].book])
      BY <2>1, <2>2, <2>3 DEF Announces
    <2>6. QED
      BY <2>1, <2>4, <2>5 DEF Announces
  <1>3. ChecksTrue'
    <2>1. (\A h \in Shelf!Gen : Announces(checks[h], count))'
      BY <1>2 DEF Announces, Shelf!Gen
    <2>2. (\A h \in Shelf!Gen : Anchored(checks[h], seen, raced))'
      BY DEF Anchored, Snapshot, Shelf!Gen
    <2>3. (\A h \in Shelf!Gen : (~Snapshot(checks[h]) => Blank(checks[h])))'
      BY DEF ChecksTrue, Blank, Snapshot, Shelf!Gen, Shelf!Zero
    <2>4. (\A h \in Shelf!Gen : (h > checkGeneration => checks[h] = Shelf!NoCheck))'
      BY DEF ChecksTrue, Shelf!Gen, Shelf!NoCheck, Shelf!Zero
    <2>5. QED
      BY <2>1, <2>2, <2>3, <2>4 DEF ChecksTrue
  <1>4. LatestTrue'
    <2>1. Shelf!CheckDriven'
      BY DEF LatestTrue, Shelf!CheckDriven
    <2>2. (checkGeneration # 0 => Avoids(checks[checkGeneration], gone))'
      BY DEF LatestTrue, Avoids
    <2>3. (checkGeneration # 0 /\ checks[checkGeneration].at = "opening" => updates.badges = Shelf!Zero)'
      BY DEF LatestTrue, Shelf!Zero
    <2>4. QED
      BY <2>1, <2>2, <2>3 DEF LatestTrue
  <1>5. QED
    BY <1>3, <1>4

LEMMA PublishKeeps ==
  ASSUME ShelfInv, NEW b \in Book, Shelf!Publish(b)
  PROVE  ShelfInv'
  <1> USE DEF ShelfInv
  <1>1. /\ count' = [count EXCEPT ![b] = @ + 1]
        /\ UNCHANGED <<cached, shelf, seen, marks, checkGeneration, updates, checks, flow, raced, gone>>
    BY DEF Shelf!Publish, Shelf!history
  <1>2. count \in [Book -> Nat] /\ count' \in [Book -> Nat] /\ \A x \in Book : count'[x] >= count[x]
    BY <1>1 DEF ShelfTypes
  <1>3. ShelfTypes'
    BY <1>1, <1>2 DEF ShelfTypes, Shelf!Gen, Shelf!View
  <1>4. BadgesAreNews'
    <2>1. ASSUME NEW x \in Book \ (raced \cup Shelf!Leaving)
          PROVE  IsNews(seen[x], updates.badges[x], count'[x])
      <3>1. IsNews(seen[x], updates.badges[x], count[x])
        BY <2>1 DEF BadgesAreNews
      <3>2. /\ count'[x] \in Nat /\ count[x] \in Nat /\ count'[x] >= count[x]
            /\ seen[x] \in Int /\ updates.badges[x] \in Nat
        BY <1>2, <2>1 DEF ShelfTypes, ShelfShown
      <3>3. QED
        BY <3>1, <3>2 DEF IsNews
    <2>2. Shelf!Leaving' = Shelf!Leaving
      BY <1>1 DEF Shelf!Leaving, Shelf!View
    <2>3. QED
      BY <1>1, <2>1, <2>2 DEF BadgesAreNews, IsNews
  <1>5. \A h \in Shelf!Gen : Anchored(checks[h], seen', raced')
    BY <1>1 DEF ChecksTrue
  <1>6. GoneIsGone' /\ MarksRace'
    BY <1>1 DEF GoneIsGone, MarksRace, Snapshot, Shelf!Gen
  <1>7. QED
    BY <1>1, <1>2, <1>3, <1>4, <1>5, <1>6, ReaderKeeps

\* The shown state with fewer badges.
Fewer(u, t) == [u EXCEPT !.badges = [b \in Book |-> IF b \in t THEN 0 ELSE u.badges[b]]]
WithoutBadges(u, t) == [b \in Book |-> IF b \in t THEN 0 ELSE u.badges[b]]
LEMMA FewerBadges ==
  ASSUME NEW u \in ShelfShown, NEW t \in SUBSET Book,
         NEW v, v = Fewer(u, t)
  PROVE  /\ v \in ShelfShown /\ v.checking = u.checking /\ v.failed = u.failed
         /\ \A b \in Book : v.badges[b] = IF b \in t THEN 0 ELSE u.badges[b]
         /\ (u.badges = Shelf!Zero => v.badges = Shelf!Zero)
  <1>1. PICK bs : bs = WithoutBadges(u, t)
    OBVIOUS
  <1>2. u.badges \in [Book -> Nat]
    BY DEF ShelfShown
  <1>3. bs \in [Book -> Nat]
    BY <1>1, <1>2 DEF WithoutBadges
  <1>4. v = [u EXCEPT !.badges = bs]
    BY <1>1 DEF Fewer, WithoutBadges
  <1>5. v \in ShelfShown /\ v.checking = u.checking /\ v.failed = u.failed /\ v.badges = bs
    BY <1>3, <1>4 DEF ShelfShown
  <1>6. u.badges = Shelf!Zero => bs = Shelf!Zero
    BY <1>1, ShelfConstants DEF Shelf!Zero, WithoutBadges
  <1>7. QED
    BY <1>1, <1>5, <1>6 DEF WithoutBadges

LEMMA ClearIs ==
  ASSUME ShelfTypes, NEW b \in Book, Shelf!Clear(b)
  PROVE  /\ updates' \in ShelfShown /\ updates'.checking = updates.checking /\ updates'.failed = updates.failed
         /\ \A x \in Book : updates'.badges[x] = IF x = b THEN 0 ELSE updates.badges[x]
         /\ (updates.badges = Shelf!Zero => updates'.badges = Shelf!Zero)
  <1>1. PICK bs : bs = [updates.badges EXCEPT ![b] = 0]
    OBVIOUS
  <1>2. updates \in ShelfShown /\ updates.badges \in [Book -> Nat]
    BY DEF ShelfTypes, ShelfShown
  <1>3. bs \in [Book -> Nat]
    BY <1>1, <1>2
  <1>4. updates' = [updates EXCEPT !.badges = bs]
    BY <1>1, <1>2 DEF Shelf!Clear, ShelfShown
  <1>5. /\ updates' \in ShelfShown /\ updates'.checking = updates.checking
        /\ updates'.failed = updates.failed /\ updates'.badges = bs
    BY <1>2, <1>3, <1>4 DEF ShelfShown
  <1>6. updates.badges = Shelf!Zero => bs = Shelf!Zero
    BY <1>1, ShelfConstants DEF Shelf!Zero
  <1>7. QED
    BY <1>1, <1>2, <1>5, <1>6

LEMMA SeeKeeps ==
  ASSUME ShelfInv, NEW b \in Book, Shelf!See(b)
  PROVE  ShelfInv'
  <1> USE DEF ShelfInv
  <1>1. PICK n \in {count[b]} \cup ({cached[b]} \ {0}) :
           /\ cached' = [cached EXCEPT ![b] = n]
           /\ marks' = marks \cup {[book |-> b, n |-> n]}
    BY DEF Shelf!See
  <1>2. /\ Shelf!Clear(b) /\ Shelf!Raced({b}, 0)
        /\ UNCHANGED <<count, shelf, seen, checkGeneration, checks, flow, gone>>
    BY DEF Shelf!See
  <1>3. n \in Nat
    BY DEF ShelfTypes
  <1>4. /\ updates' \in ShelfShown /\ updates'.checking = updates.checking /\ updates'.failed = updates.failed
        /\ \A x \in Book : updates'.badges[x] = IF x = b THEN 0 ELSE updates.badges[x]
        /\ (updates.badges = Shelf!Zero => updates'.badges = Shelf!Zero)
    BY <1>2, ClearIs
  <1>5. /\ raced \subseteq raced' /\ raced' \subseteq raced \cup {b}
        /\ \A h \in Shelf!Gen : Snapshot(checks[h]) => b \in raced'
    BY <1>2, RacedIs
  <1>6. ShelfTypes'
    <2>1. cached' \in [Book -> Nat] /\ marks' \subseteq [book : Book, n : Nat] /\ raced' \subseteq Book
      BY <1>1, <1>3, <1>5 DEF ShelfTypes
    <2>2. QED
      BY <1>2, <1>4, <2>1 DEF ShelfTypes, Shelf!Gen, Shelf!View
  <1>7. \A h \in Shelf!Gen : Anchored(checks[h], seen', raced')
    BY <1>2, MovedAnchors
  <1>8. BadgesAreNews'
    <2>1. ASSUME NEW x \in Book \ (raced' \cup Shelf!Leaving)
          PROVE  IsNews(seen[x], updates'.badges[x], count[x])
      BY <1>4, <1>5, <2>1 DEF BadgesAreNews, IsNews
    <2>2. Shelf!Leaving' = Shelf!Leaving
      BY <1>2 DEF Shelf!Leaving, Shelf!View
    <2>3. QED
      BY <1>2, <2>1, <2>2 DEF BadgesAreNews, IsNews
  <1>9. GoneIsGone'
    BY <1>2, <1>4 DEF GoneIsGone, ShelfTypes
  <1>10. MarksRace'
    <2>1. ASSUME NEW m \in marks'
          PROVE  /\ \A h \in Shelf!Gen : Snapshot(checks[h]) => m.book \in raced'
                 /\ m.book \in raced' \/ updates'.badges[m.book] = 0
      <3>1. CASE m \in marks
        BY <1>4, <1>5, <3>1 DEF MarksRace, ShelfTypes
      <3>2. CASE m = [book |-> b, n |-> n]
        BY <1>4, <1>5, <3>2
      <3>3. QED
        BY <1>1, <3>1, <3>2
    <2>2. QED
      BY <1>2, <2>1 DEF MarksRace, Snapshot, Shelf!Gen
  <1>11. count \in [Book -> Nat] /\ \A x \in Book : count'[x] >= count[x]
    BY <1>2 DEF ShelfTypes
  <1>12. QED
    BY <1>2, <1>4, <1>6, <1>7, <1>8, <1>9, <1>10, <1>11, ReaderKeeps

LEMMA LandsKeeps ==
  ASSUME ShelfInv, NEW m \in marks, Shelf!MarkLands(m)
  PROVE  ShelfInv'
  <1> USE DEF ShelfInv
  <1>1. /\ marks' = marks \ {m} /\ Shelf!Raced({m.book}, 0)
        /\ seen' = IF m.book \in shelf THEN [seen EXCEPT ![m.book] = m.n] ELSE seen
        /\ UNCHANGED <<count, cached, shelf, checkGeneration, updates, checks, flow, gone>>
    BY DEF Shelf!MarkLands, Shelf!Baseline
  <1>2. m.book \in Book /\ m.n \in Nat /\ seen \in [Book -> Int]
    BY DEF ShelfTypes
  <1>3. seen' \in [Book -> Int] /\ \A x \in Book \ {m.book} : seen'[x] = seen[x]
    BY <1>1, <1>2
  <1>4. raced \subseteq raced' /\ raced' \subseteq raced \cup {m.book}
    BY <1>1, RacedIs
  <1>5. ShelfTypes'
    <2>1. raced' \subseteq Book /\ marks' \subseteq [book : Book, n : Nat]
      BY <1>1, <1>2, <1>4 DEF ShelfTypes
    <2>2. QED
      BY <1>1, <1>3, <2>1 DEF ShelfTypes, Shelf!Gen, Shelf!View
  <1>6. \A h \in Shelf!Gen : Anchored(checks[h], seen', raced')
    BY <1>1, <1>3, MovedAnchors
  <1>7. BadgesAreNews'
    <2>1. ASSUME NEW x \in Book \ (raced' \cup Shelf!Leaving)
          PROVE  IsNews(seen'[x], updates.badges[x], count[x])
      <3>1. CASE x = m.book
        <4>1. updates.badges[x] = 0
          BY <1>4, <2>1, <3>1 DEF MarksRace
        <4>2. QED
          BY <4>1 DEF IsNews
      <3>2. CASE x # m.book
        BY <1>3, <1>4, <2>1, <3>2 DEF BadgesAreNews
      <3>3. QED
        BY <3>1, <3>2
    <2>2. Shelf!Leaving' = Shelf!Leaving
      BY <1>1 DEF Shelf!Leaving, Shelf!View
    <2>3. QED
      BY <1>1, <2>1, <2>2 DEF BadgesAreNews, IsNews
  <1>8. GoneIsGone'
    BY <1>1 DEF GoneIsGone
  <1>9. MarksRace'
    BY <1>1, <1>4 DEF MarksRace, Snapshot, Shelf!Gen
  <1>10. count \in [Book -> Nat] /\ \A x \in Book : count'[x] >= count[x]
    BY <1>1 DEF ShelfTypes
  <1>11. QED
    BY <1>1, <1>5, <1>6, <1>7, <1>8, <1>9, <1>10, ReaderKeeps

LEMMA AddKeeps ==
  ASSUME ShelfInv, NEW b \in Book, Shelf!Add(b)
  PROVE  ShelfInv'
  <1> USE DEF ShelfInv
  <1>1. /\ shelf' = shelf \cup {b} /\ gone' = gone \ {b}
        /\ UNCHANGED <<count, cached, seen, marks, checkGeneration, updates, checks, flow, raced>>
    BY DEF Shelf!Add
  <1>2. ShelfTypes'
    BY <1>1 DEF ShelfTypes, Shelf!Gen, Shelf!View
  <1>3. BadgesAreNews' /\ MarksRace' /\ GoneIsGone'
    BY <1>1 DEF BadgesAreNews, IsNews, MarksRace, GoneIsGone, Snapshot, Shelf!Gen, Shelf!Leaving, Shelf!View
  <1>4. \A h \in Shelf!Gen : Anchored(checks[h], seen', raced')
    BY <1>1 DEF ChecksTrue
  <1>5. count \in [Book -> Nat] /\ \A x \in Book : count'[x] >= count[x]
    BY <1>1 DEF ShelfTypes
  <1>6. QED
    BY <1>1, <1>2, <1>3, <1>4, <1>5, ReaderKeeps

\* What a step of one deletion leaves of the other.
LEMMA FlowIs ==
  ASSUME ShelfTypes, NEW p \in Shelf!View, NEW f \in ShelfFlow, flow' = [flow EXCEPT ![p] = f]
  PROVE  /\ flow' \in [Shelf!View -> ShelfFlow]
         /\ \A q \in Shelf!View : flow'[q] = IF q = p THEN f ELSE flow[q]
         /\ f.at # "mirror" => Shelf!Leaving' \subseteq Shelf!Leaving
         /\ flow[p].at # "mirror" => Shelf!Leaving \subseteq Shelf!Leaving'
         /\ f.at = "mirror" => f.target \subseteq Shelf!Leaving'
         /\ Shelf!Leaving \subseteq Shelf!Leaving' \cup flow[p].target
         /\ f.target \in SUBSET Book /\ flow[p].target \in SUBSET Book
  <1>1. flow \in [Shelf!View -> ShelfFlow]
    BY DEF ShelfTypes
  <1>2. /\ flow' \in [Shelf!View -> ShelfFlow]
        /\ \A q \in Shelf!View : flow'[q] = IF q = p THEN f ELSE flow[q]
    BY <1>1
  <1>3. \A x : x \in Shelf!Leaving <=> \E q \in Shelf!View : flow[q].at = "mirror" /\ x \in flow[q].target
    BY DEF Shelf!Leaving
  <1>4. \A x : x \in Shelf!Leaving' <=> \E q \in Shelf!View : flow'[q].at = "mirror" /\ x \in flow'[q].target
    BY DEF Shelf!Leaving, Shelf!View
  <1>5. f.target \in SUBSET Book /\ flow[p].target \in SUBSET Book
    BY <1>1 DEF ShelfFlow
  <1>6. f.at # "mirror" => Shelf!Leaving' \subseteq Shelf!Leaving
    BY <1>2, <1>3, <1>4
  <1>7. flow[p].at # "mirror" => Shelf!Leaving \subseteq Shelf!Leaving'
    BY <1>2, <1>3, <1>4
  <1>8. f.at = "mirror" => f.target \subseteq Shelf!Leaving'
    BY <1>2, <1>4
  <1>9. Shelf!Leaving \subseteq Shelf!Leaving' \cup flow[p].target
    BY <1>2, <1>3, <1>4
  <1>10. QED
    BY <1>2, <1>5, <1>6, <1>7, <1>8, <1>9

\* A deletion begins, or is undone.
LEMMA IntentKeeps ==
  ASSUME ShelfInv, NEW p \in Shelf!View, NEW f \in ShelfFlow, flow' = [flow EXCEPT ![p] = f],
         flow[p].at # "mirror",
         UNCHANGED <<count, cached, shelf, seen, marks, checkGeneration, updates, checks, raced, gone>>
  PROVE  ShelfInv'
  <1> USE DEF ShelfInv
  <1>1. flow' \in [Shelf!View -> ShelfFlow] /\ Shelf!Leaving \subseteq Shelf!Leaving'
    BY FlowIs
  <1>2. ShelfTypes'
    BY <1>1 DEF ShelfTypes, Shelf!Gen, Shelf!View
  <1>3. BadgesAreNews' /\ MarksRace' /\ GoneIsGone'
    BY <1>1 DEF BadgesAreNews, IsNews, MarksRace, GoneIsGone, Snapshot, Shelf!Gen
  <1>4. \A h \in Shelf!Gen : Anchored(checks[h], seen', raced')
    BY DEF ChecksTrue
  <1>5. count \in [Book -> Nat] /\ \A x \in Book : count'[x] >= count[x]
    BY DEF ShelfTypes
  <1>6. QED
    BY <1>2, <1>3, <1>4, <1>5, ReaderKeeps

LEMMA RemovedKeeps ==
  ASSUME ShelfInv, NEW p \in Shelf!View, Shelf!Removed(p)
  PROVE  ShelfInv'
  <1> USE DEF ShelfInv
  <1>1. PICK t : t = flow[p].target
    OBVIOUS
  <1>2. PICK f : f = [flow[p] EXCEPT !.at = "mirror"]
    OBVIOUS
  <1>3. /\ flow[p].at = "undo" /\ flow' = [flow EXCEPT ![p] = f] /\ shelf' = shelf \ t
        /\ seen' = [b \in Book |-> IF b \in t THEN Shelf!Unseen ELSE seen[b]]
        /\ cached' = IF p = "shelf" THEN cached ELSE [b \in Book |-> IF b \in t THEN 0 ELSE cached[b]]
        /\ Shelf!Raced(t, 0)
        /\ UNCHANGED <<count, marks, checkGeneration, updates, checks, gone>>
    BY <1>1, <1>2 DEF Shelf!Removed, Shelf!Step, ShelfTypes
  <1>4. flow[p] \in ShelfFlow /\ f \in ShelfFlow /\ f.at = "mirror" /\ f.target = t /\ t \in SUBSET Book
    <2>1. flow[p] \in ShelfFlow
      BY DEF ShelfTypes
    <2>2. QED
      BY <1>1, <1>2, <2>1 DEF ShelfFlow
  <1>5. /\ flow' \in [Shelf!View -> ShelfFlow] /\ Shelf!Leaving \subseteq Shelf!Leaving'
        /\ t \subseteq Shelf!Leaving'
    BY <1>3, <1>4, FlowIs
  <1>6. raced \subseteq raced' /\ raced' \subseteq raced \cup t
    BY <1>3, RacedIs
  <1>7. seen' \in [Book -> Int] /\ (\A x \in Book \ t : seen'[x] = seen[x]) /\ cached' \in [Book -> Nat]
    BY <1>3 DEF ShelfTypes, Shelf!Unseen
  <1>8. ShelfTypes'
    BY <1>3, <1>4, <1>5, <1>6, <1>7 DEF ShelfTypes, Shelf!Gen, Shelf!View
  <1>9. \A h \in Shelf!Gen : Anchored(checks[h], seen', raced')
    BY <1>3, <1>7, MovedAnchors
  <1>10. BadgesAreNews'
    <2>1. ASSUME NEW x \in Book \ (raced' \cup Shelf!Leaving')
          PROVE  IsNews(seen'[x], updates.badges[x], count[x])
      BY <1>5, <1>6, <1>7, <2>1 DEF BadgesAreNews
    <2>2. QED
      BY <1>3, <2>1 DEF BadgesAreNews, IsNews
  <1>11. GoneIsGone'
    BY <1>3 DEF GoneIsGone
  <1>12. MarksRace'
    BY <1>3, <1>6 DEF MarksRace, Snapshot, Shelf!Gen
  <1>13. count \in [Book -> Nat] /\ \A x \in Book : count'[x] >= count[x]
    BY <1>3 DEF ShelfTypes
  <1>14. QED
    BY <1>3, <1>8, <1>9, <1>10, <1>11, <1>12, <1>13, ReaderKeeps

\* The badges of what was removed are dropped; a feed takes its check with it.
LEMMA MirrorKeeps ==
  ASSUME ShelfInv, NEW p \in Shelf!View, Shelf!Mirror(p)
  PROVE  ShelfInv'
  <1> USE DEF ShelfInv
  <1>1. PICK t : t = flow[p].target
    OBVIOUS
  <1>2. PICK v : v = Shelf!Without(t)
    OBVIOUS
  <1>3. /\ flow' = [flow EXCEPT ![p] = Shelf!NoFlow]
        /\ UNCHANGED <<count, cached, shelf, seen, marks, checks, raced>>
    BY DEF Shelf!Mirror
  <1>4. updates \in ShelfShown /\ t \in SUBSET Book
    BY <1>1 DEF ShelfTypes, ShelfFlow
  <1>5. /\ v \in ShelfShown /\ v.checking = updates.checking /\ v.failed = updates.failed
        /\ \A b \in Book : v.badges[b] = IF b \in t THEN 0 ELSE updates.badges[b]
        /\ (updates.badges = Shelf!Zero => v.badges = Shelf!Zero)
    <2>1. v = Fewer(updates, t)
      BY <1>2 DEF Shelf!Without, Fewer
    <2>2. QED
      BY <1>4, <2>1, FewerBadges
  <1>6. Shelf!NoFlow \in ShelfFlow
    BY DEF Shelf!NoFlow, ShelfFlow
  <1>7. flow' \in [Shelf!View -> ShelfFlow] /\ Shelf!Leaving \subseteq Shelf!Leaving' \cup t
    BY <1>1, <1>3, <1>6, FlowIs
  <1>8. \A x \in Book \ (raced \cup Shelf!Leaving') : IsNews(seen[x], v.badges[x], count[x])
    <2>1. ASSUME NEW x \in Book \ (raced \cup Shelf!Leaving')
          PROVE  IsNews(seen[x], v.badges[x], count[x])
      <3>1. CASE x \in t
        BY <1>5, <3>1 DEF IsNews
      <3>2. CASE x \notin t
        BY <1>5, <1>7, <2>1, <3>2 DEF BadgesAreNews
      <3>3. QED
        BY <3>1, <3>2
    <2>2. QED
      BY <2>1
  <1>9. \A m \in marks : /\ \A h \in Shelf!Gen : Snapshot(checks[h]) => m.book \in raced
                         /\ m.book \in raced \/ v.badges[m.book] = 0
    BY <1>5 DEF MarksRace, ShelfTypes
  <1>10. \A h \in Shelf!Gen : Anchored(checks[h], seen', raced')
    BY <1>3 DEF ChecksTrue
  <1>11. count \in [Book -> Nat] /\ \A x \in Book : count'[x] >= count[x]
    BY <1>3 DEF ShelfTypes
  <1>12. CASE p = "shelf"
    <2>1. updates' = v /\ checkGeneration' = checkGeneration /\ gone' = gone
      BY <1>1, <1>2, <1>12 DEF Shelf!Mirror
    <2>2. ShelfTypes'
      BY <1>3, <1>5, <1>7, <2>1 DEF ShelfTypes, Shelf!Gen, Shelf!View
    <2>3. BadgesAreNews'
      BY <1>3, <1>8, <2>1 DEF BadgesAreNews, IsNews
    <2>4. MarksRace'
      BY <1>3, <1>9, <2>1 DEF MarksRace, Snapshot, Shelf!Gen
    <2>5. GoneIsGone'
      BY <1>3, <1>5, <2>1 DEF GoneIsGone, ShelfTypes
    <2>6. QED
      BY <1>3, <1>5, <1>10, <1>11, <2>1, <2>2, <2>3, <2>4, <2>5, ReaderKeeps
  <1>13. CASE p # "shelf"
    <2>1. /\ checkGeneration < MaxChecks /\ checkGeneration' = checkGeneration + 1
          /\ updates' = [v EXCEPT !.checking = FALSE, !.failed = @ \ t]
          /\ gone' = gone \cup (t \ shelf)
      BY <1>1, <1>2, <1>13 DEF Shelf!Mirror
    <2>2. /\ updates' \in ShelfShown /\ updates'.checking = FALSE /\ updates'.failed = updates.failed \ t
          /\ updates'.badges = v.badges
      BY <1>5, <2>1 DEF ShelfShown
    <2>3. /\ checkGeneration \in Nat /\ checkGeneration' \in Shelf!Gen /\ checkGeneration' \in 0..MaxChecks
          /\ checkGeneration' # 0 /\ checkGeneration' > checkGeneration
      BY <2>1, ShelfBounds DEF ShelfTypes, Shelf!Gen
    <2>4. checks[checkGeneration'] = Shelf!NoCheck
      BY <2>3 DEF ChecksTrue
    <2>5. gone' \in SUBSET Book
      BY <1>4, <2>1 DEF ShelfTypes
    <2>6. ShelfTypes'
      BY <1>3, <1>7, <2>2, <2>3, <2>5 DEF ShelfTypes, Shelf!Gen, Shelf!View
    <2>7. BadgesAreNews'
      BY <1>3, <1>8, <2>2 DEF BadgesAreNews, IsNews
    <2>8. MarksRace'
      BY <1>3, <1>9, <2>2 DEF MarksRace, Snapshot, Shelf!Gen
    <2>9. GoneIsGone'
      BY <1>3, <1>5, <2>1, <2>2, <2>5 DEF GoneIsGone
    <2>10. ChecksTrue'
      <3>1. (\A h \in Shelf!Gen : Announces(checks[h], count))'
        BY <1>3 DEF ChecksTrue, Announces, Shelf!Gen
      <3>2. (\A h \in Shelf!Gen : Anchored(checks[h], seen, raced))'
        BY <1>3 DEF ChecksTrue, Anchored, Snapshot, Shelf!Gen
      <3>3. (\A h \in Shelf!Gen : (~Snapshot(checks[h]) => Blank(checks[h])))'
        BY <1>3 DEF ChecksTrue, Blank, Snapshot, Shelf!Gen, Shelf!Zero
      <3>4. \A h \in Shelf!Gen : h > checkGeneration' => h > checkGeneration
        BY <2>1, <2>3 DEF Shelf!Gen
      <3>5. (\A h \in Shelf!Gen : (h > checkGeneration => checks[h] = Shelf!NoCheck))'
        BY <1>3, <3>4 DEF ChecksTrue, Shelf!Gen, Shelf!NoCheck, Shelf!Zero
      <3>6. QED
        BY <3>1, <3>2, <3>3, <3>5 DEF ChecksTrue
    <2>11. LatestTrue'
      <3>1. checks'[checkGeneration'] = Shelf!NoCheck
        BY <1>3, <2>4
      <3>2. Shelf!CheckDriven'
        BY <2>2, <3>1, NoCheckType DEF Shelf!CheckDriven
      <3>3. Avoids(Shelf!NoCheck, gone')
        BY <2>5, NoCheckType, BlankIsTrue
      <3>4. (checkGeneration # 0 => Avoids(checks[checkGeneration], gone))'
        BY <3>1, <3>3 DEF Avoids
      <3>5. (checkGeneration # 0 /\ checks[checkGeneration].at = "opening" => updates.badges = Shelf!Zero)'
        BY <3>1, NoCheckType
      <3>6. QED
        BY <3>2, <3>4, <3>5 DEF LatestTrue
    <2>12. QED
      BY <2>6, <2>7, <2>8, <2>9, <2>10, <2>11
  <1>14. QED
    BY <1>12, <1>13

\* Every step of the shelf keeps its invariant.
LEMMA ShelfInvStep ==
  ASSUME ShelfInv, Shelf!UpdatesNext
  PROVE  ShelfInv'
  <1>1. CASE Shelf!Check
    BY <1>1, CheckKeeps
  <1>2. ASSUME NEW b \in Book, Shelf!Publish(b) \/ Shelf!See(b) \/ Shelf!Add(b)
        PROVE  ShelfInv'
    BY <1>2, PublishKeeps, SeeKeeps, AddKeeps
  <1>3. ASSUME NEW m \in marks, Shelf!MarkLands(m)
        PROVE  ShelfInv'
    BY <1>3, LandsKeeps
  <1>4. ASSUME NEW g \in Shelf!Gen, Shelf!NativeStep(g) \/ Shelf!Update(g) \/ Shelf!CheckEnds(g)
        PROVE  ShelfInv'
    BY <1>4, NativeKeeps, UpdateKeeps, EndsKeeps
  <1>5. ASSUME NEW p \in Shelf!View, Shelf!Undo(p)
        PROVE  ShelfInv'
    <2>1. Shelf!NoFlow \in ShelfFlow
      BY DEF Shelf!NoFlow, ShelfFlow
    <2>2. /\ flow' = [flow EXCEPT ![p] = Shelf!NoFlow] /\ flow[p].at # "mirror"
          /\ UNCHANGED <<count, cached, shelf, seen, marks, checkGeneration, updates, checks, raced, gone>>
      BY <1>5 DEF Shelf!Undo, Shelf!history
    <2>3. QED
      BY <2>1, <2>2, IntentKeeps
  <1>6. ASSUME NEW p \in Shelf!View, Shelf!Removed(p) \/ Shelf!Mirror(p)
        PROVE  ShelfInv'
    BY <1>6, RemovedKeeps, MirrorKeeps
  <1>7. ASSUME NEW p \in Shelf!View, NEW t \in Shelf!Targets(p), Shelf!Delete(p, t)
        PROVE  ShelfInv'
    <2>1. t \in SUBSET Book
      BY DEF ShelfInv, ShelfTypes, Shelf!Targets
    <2>2. PICK f : f = [at |-> "undo", target |-> t]
      OBVIOUS
    <2>3. f \in ShelfFlow
      BY <2>1, <2>2 DEF ShelfFlow
    <2>4. /\ flow' = [flow EXCEPT ![p] = f] /\ flow[p].at # "mirror"
          /\ UNCHANGED <<count, cached, shelf, seen, marks, checkGeneration, updates, checks, raced, gone>>
      BY <1>7, <2>2 DEF Shelf!Delete, Shelf!history
    <2>5. QED
      BY <2>3, <2>4, IntentKeeps
  <1>8. QED
    BY <1>1, <1>2, <1>3, <1>4, <1>5, <1>6, <1>7 DEF Shelf!UpdatesNext

-----------------------------------------------------------------------------
(* The pages of a chapter (PageBreaker). What the chunks cs say of the text   *)
(* when the layout has got to line f of paragraph p, and what they and the    *)
(* stretches ex of the closed pages say of the pages, u being used of the     *)
(* open one.                                                                 *)
ChunkOf == [par : Nat, from : Nat, to : Nat, rest : BOOLEAN, page : Nat,
            top : Nat, height : Nat, badge : BOOLEAN]
Ahead(c, d) == c.par < d.par \/ (c.par = d.par /\ c.from < d.from)
\* Nothing but empty paragraphs from one to before the other.
Blanks(m, n) == \A q \in m..n - 1 : items[q].lines = 0
Leads(c, d) == \/ d.par = c.par /\ d.from = c.to /\ ~c.rest
               \/ d.par > c.par /\ d.from = 0 /\ c.to = items[c.par].lines /\ Blanks(c.par + 1, d.par)
ChunkReads(c) == /\ c.par \in 1..Len(items) /\ c.to <= items[c.par].lines
                 /\ ~c.rest => c.from < c.to
                 /\ c.badge => c.rest
\* The one chunk that shows the badge of a paragraph.
Badged(cs, q, n) == /\ n \in DOMAIN cs /\ cs[n].par = q /\ cs[n].badge
                    /\ \A i \in DOMAIN cs : cs[i].par = q /\ cs[i].badge => i = n
TextOf(cs, p, f) ==
    /\ cs \in Seq(ChunkOf) /\ p \in 1..Len(items) + 1 /\ f \in Nat
    /\ p <= Len(items) => f <= items[p].lines
    /\ \A i \in DOMAIN cs : /\ ChunkReads(cs[i]) /\ Ahead(cs[i], [par |-> p, from |-> f])
                            /\ cs[i].rest => cs[i].par < p
    /\ \A i, j \in DOMAIN cs : i < j => Ahead(cs[i], cs[j])
    /\ \A q \in 1..p - 1 : items[q].badge /\ items[q].lines > 0 => \E n : Badged(cs, q, n)
    /\ \A i \in 1..Len(cs) - 1 : Leads(cs[i], cs[i + 1])
    /\ cs # <<>> => cs[1].from = 0 /\ Blanks(1, cs[1].par) /\ Leads(cs[Len(cs)], [par |-> p, from |-> f])
    /\ cs = <<>> => f = 0 /\ Blanks(1, p)

IsFirst(cs, k, q) == /\ k \in DOMAIN cs /\ cs[k].page = q
                     /\ \A j \in DOMAIN cs : cs[j].page = q => k <= j
Lower(c, ex) == c.top + c.height + (IF c.page <= Len(ex) THEN ex[c.page] ELSE 0)
Uncut(c) == c.top = 0 /\ (c.rest \/ c.to = c.from + 1)
InSight(c, ex) == Lower(c, ex) <= pageHeight + Tolerance \/ Uncut(c)
PagesOf(cs, ex, u) ==
    /\ cs \in Seq(ChunkOf) /\ ex \in Seq(Nat) /\ u \in Nat
    /\ \A i \in DOMAIN cs : /\ cs[i].page \in 1..Len(ex) + 1
                            /\ \E k : IsFirst(cs, k, cs[i].page)
                            /\ cs[i].page = Len(ex) + 1 => cs[i].top + cs[i].height <= u
                            /\ InSight(cs[i], ex)
    /\ \A q \in 1..Len(ex) : \E i \in DOMAIN cs : cs[i].page = q
    /\ (\A i \in DOMAIN cs : cs[i].page # Len(ex) + 1) => u = 0

\* A tail is left at the top of a page; else there are lines left, if there were any.
Standing == /\ tail => par <= Len(items) /\ Empty /\ from = P.lines /\ from > 0
            /\ ~tail /\ par <= Len(items) => from < P.lines \/ P.lines = 0
PageInv == /\ items \in Seq(Paragraphs) /\ pageHeight \in PageHeights
           /\ tail \in BOOLEAN /\ done \in BOOLEAN /\ page = Len(extra) + 1
           /\ TextOf(chunks, par, from) /\ PagesOf(chunks, extra, IF done THEN 0 ELSE used)
           /\ used \in Nat /\ Standing

LEMMA PageInvInit == PageInit => PageInv
  <1> SUFFICES ASSUME PageInit
               PROVE  PageInv
    OBVIOUS
  <1>1. items \in Seq(Paragraphs) /\ pageHeight \in PageHeights
    BY DEF PageInit
  <1>2. /\ chunks = <<>> /\ extra = <<>> /\ page = 1 /\ used = 0
        /\ par = 1 /\ from = 0 /\ tail = FALSE /\ done = FALSE
    BY DEF PageInit
  <1>3. \A p \in Paragraphs : p.lines \in Nat
    BY ParagraphsAre
  <1>4. TextOf(chunks, par, from)
    <2>1. PICK cs : cs = <<>>
      OBVIOUS
    <2>2. cs \in Seq(ChunkOf) /\ DOMAIN cs = {} /\ Len(cs) = 0
      BY <2>1
    <2>3. 1 <= Len(items) => items[1].lines \in Nat
      BY <1>1, <1>3
    <2>4. Len(items) \in Nat /\ 1 \in 1..Len(items) + 1
      BY <1>1
    <2>5. 1..1 - 1 = {} /\ 1..Len(cs) - 1 = {}
      BY <2>2
    <2>6. Blanks(1, 1)
      BY <2>5 DEF Blanks
    <2>7. 1 <= Len(items) => 0 <= items[1].lines
      BY <2>3
    <2>8. TextOf(cs, 1, 0)
      BY <2>1, <2>2, <2>4, <2>5, <2>6, <2>7 DEF TextOf
    <2>9. QED
      BY <1>2, <2>1, <2>8
  <1>5. PagesOf(chunks, extra, IF done THEN 0 ELSE used)
    BY <1>2 DEF PagesOf
  <1>6. Len(extra) = 0
    BY <1>2
  <1>7. page = Len(extra) + 1 /\ used \in Nat
    BY <1>2, <1>6
  <1>10. Standing
    <2>1. 1 <= Len(items) => 0 < items[1].lines \/ items[1].lines = 0
      <3>1. Len(items) \in Nat
        BY <1>1
      <3>2. 1 <= Len(items) => items[1] \in Paragraphs
        BY <1>1, <3>1
      <3>3. QED
        BY <1>3, <3>2
    <2>2. QED
      BY <1>2, <2>1 DEF Standing, P
  <1>8. tail \in BOOLEAN /\ done \in BOOLEAN
    BY <1>2
  <1>9. QED
    BY <1>1, <1>4, <1>5, <1>7, <1>8, <1>10 DEF PageInv

-----------------------------------------------------------------------------
(* The layout goes on in the text.                                           *)
LEMMA ItemsAre ==
    ASSUME items \in Seq(Paragraphs), NEW q \in 1..Len(items)
    PROVE  /\ items[q].lines \in Nat /\ items[q].badge \in BOOLEAN /\ items[q].kind \in Kind
           /\ items[q].kind = "title" => items[q].lines > 0
           /\ items[q].kind = "image" => items[q].lines = 1 /\ ~items[q].badge
  <1>1. items[q] \in Paragraphs
    OBVIOUS
  <1>2. QED
    BY <1>1, ParagraphsAre, Sized

LEMMA AllLines ==
    ASSUME items \in Seq(Paragraphs)
    PROVE  \A p \in Nat : p + 1 <= Len(items) => 0 <= items[p + 1].lines
  <1> SUFFICES ASSUME NEW p \in Nat, p + 1 <= Len(items)
               PROVE  0 <= items[p + 1].lines
    OBVIOUS
  <1>1. PICK q : q = p + 1
    OBVIOUS
  <1>2. q \in 1..Len(items)
    BY <1>1
  <1>3. items[q].lines \in Nat
    BY <1>2, ItemsAre
  <1>4. 0 <= items[q].lines
    BY <1>3
  <1>5. QED
    BY <1>1, <1>4

\* A chunk that stands where the layout is, and where the layout then is.
Appends(cs, p, f, c) == /\ items \in Seq(Paragraphs) /\ TextOf(cs, p, f) /\ p <= Len(items)
                        /\ c \in ChunkOf /\ c.par = p /\ c.from = f
                        /\ ChunkReads(c)

\* The layout is then at d: at the end of the chunk, or at the next paragraph.
Arrives(c, d, p) ==
    /\ d.par \in {p, p + 1} /\ d.from \in Nat /\ Leads(c, d) /\ Ahead(c, d)
    /\ d.par <= Len(items) => d.from <= items[d.par].lines
    /\ c.rest => d.par > p
    /\ c.badge <=> (d.par > p /\ items[p].badge /\ items[p].lines > 0)

LEMMA AppendReads ==
    ASSUME NEW cs, NEW p, NEW f, NEW c, NEW d, Appends(cs, p, f, c), Arrives(c, d, p)
    PROVE  TextOf(Append(cs, c), d.par, d.from)
  <1> DEFINE as == Append(cs, c)
             n  == Len(cs)
  <1>1. /\ cs \in Seq(ChunkOf) /\ c \in ChunkOf /\ p \in 1..Len(items) + 1 /\ p <= Len(items) /\ f \in Nat
        /\ c.par = p /\ c.from = f /\ Len(items) \in Nat
    BY DEF Appends, TextOf
  <1>a. as \in Seq(ChunkOf) /\ Len(as) = n + 1 /\ as # <<>>
    BY <1>1
  <1>b. n \in Nat /\ DOMAIN as = 1..n + 1 /\ DOMAIN cs = 1..n
    BY <1>1
  <1>2. as[n + 1] = c /\ \A i \in 1..n : as[i] = cs[i]
    BY <1>1
  <1>3. \A i \in 1..n : cs[i] \in ChunkOf
    BY <1>1
  <1>4. /\ \A i \in 1..n : /\ ChunkReads(cs[i]) /\ Ahead(cs[i], [par |-> p, from |-> f])
                           /\ cs[i].rest => cs[i].par < p
        /\ \A i, j \in 1..n : i < j => Ahead(cs[i], cs[j])
        /\ \A q \in 1..p - 1 : items[q].badge /\ items[q].lines > 0 => \E k : Badged(cs, q, k)
        /\ \A i \in 1..n - 1 : Leads(cs[i], cs[i + 1])
        /\ cs # <<>> => cs[1].from = 0 /\ Blanks(1, cs[1].par) /\ Leads(cs[n], [par |-> p, from |-> f])
        /\ cs = <<>> => f = 0 /\ Blanks(1, p)
    BY <1>b DEF Appends, TextOf
  <1>5. cs = <<>> <=> n = 0
    BY <1>1
  <1>6. /\ d.par \in Nat /\ d.from \in Nat /\ d.par \in 1..Len(items) + 1 /\ d.par \in {p, p + 1}
        /\ Leads(c, d) /\ Ahead(c, d)
        /\ d.par <= Len(items) => d.from <= items[d.par].lines
        /\ c.rest => d.par > p
        /\ c.badge <=> (d.par > p /\ items[p].badge /\ items[p].lines > 0)
    BY <1>1 DEF Arrives
  <1> HIDE DEF as, n
  <1>7. ChunkReads(c)
    BY DEF Appends
  <1>c. \A i \in 1..n + 1 : i = n + 1 \/ i \in 1..n
    BY <1>b
  <1>8. \A i \in 1..n + 1 : /\ ChunkReads(as[i]) /\ Ahead(as[i], d)
                            /\ as[i].rest => as[i].par < d.par
    <2> SUFFICES ASSUME NEW i \in 1..n + 1
                 PROVE  ChunkReads(as[i]) /\ Ahead(as[i], d) /\ (as[i].rest => as[i].par < d.par)
      OBVIOUS
    <2>1. CASE i = n + 1
      <3>1. as[i] = c
        BY <1>2, <2>1
      <3>2. c.rest => c.par < d.par
        BY <1>1, <1>6
      <3>3. QED
        BY <1>6, <1>7, <3>1, <3>2
    <2>2. CASE i \in 1..n
      <3>1. as[i] = cs[i] /\ cs[i] \in ChunkOf
        BY <1>2, <1>3, <2>2
      <3>2. Ahead(cs[i], [par |-> p, from |-> f]) /\ (cs[i].rest => cs[i].par < p)
        BY <1>4, <2>2
      <3>3. cs[i].par \in Nat /\ cs[i].from \in Nat
        BY <3>1 DEF ChunkOf
      <3>4. Ahead(cs[i], d)
        <4>1. cs[i].par < p \/ (cs[i].par = p /\ cs[i].from < f)
          BY <3>2 DEF Ahead
        <4>2. p < d.par \/ (p = d.par /\ f < d.from)
          BY <1>1, <1>6 DEF Ahead
        <4>3. QED
          BY <1>1, <1>6, <3>3, <4>1, <4>2 DEF Ahead
      <3>5. cs[i].rest => cs[i].par < d.par
        BY <1>1, <1>6, <3>2, <3>3
      <3>6. QED
        BY <1>4, <2>2, <3>1, <3>4, <3>5
    <2>3. QED
      BY <1>c, <2>1, <2>2
  <1>9. \A i, j \in 1..n + 1 : i < j => Ahead(as[i], as[j])
    <2> SUFFICES ASSUME NEW i \in 1..n + 1, NEW j \in 1..n + 1, i < j
                 PROVE  Ahead(as[i], as[j])
      OBVIOUS
    <2>1. i \in 1..n
      BY <1>b
    <2>2. CASE j = n + 1
      <3>1. as[i] = cs[i] /\ as[j] = c
        BY <1>2, <2>1, <2>2
      <3>2. Ahead(cs[i], [par |-> p, from |-> f])
        BY <1>4, <2>1
      <3>3. QED
        BY <1>1, <3>1, <3>2 DEF Ahead
    <2>3. CASE j \in 1..n
      <3>1. as[i] = cs[i] /\ as[j] = cs[j]
        BY <1>2, <2>1, <2>3
      <3>2. Ahead(cs[i], cs[j])
        BY <1>4, <2>1, <2>3
      <3>3. QED
        BY <3>1, <3>2
    <2>4. QED
      BY <1>c, <2>2, <2>3
  <1>10. \A q \in 1..d.par - 1 : items[q].badge /\ items[q].lines > 0 => \E k : Badged(as, q, k)
    <2> SUFFICES ASSUME NEW q \in 1..d.par - 1, items[q].badge, items[q].lines > 0
                 PROVE  \E k : Badged(as, q, k)
      OBVIOUS
    <2>1. CASE q < p
      <3>1. PICK k : Badged(cs, q, k)
        <4>1. q \in 1..p - 1
          BY <1>1, <1>6, <2>1
        <4>2. QED
          BY <1>4, <4>1
      <3>2. k \in 1..n /\ cs[k].par = q /\ cs[k].badge /\ as[k] = cs[k]
        BY <1>b, <1>2, <3>1 DEF Badged
      <3>3. \A i \in 1..n + 1 : as[i].par = q /\ as[i].badge => i = k
        <4> SUFFICES ASSUME NEW i \in 1..n + 1, as[i].par = q, as[i].badge
                     PROVE  i = k
          OBVIOUS
        <4>1. i # n + 1
          <5>1. i = n + 1 => as[i].par = p
            BY <1>1, <1>2
          <5>2. QED
            BY <1>1, <2>1, <5>1
        <4>2. i \in 1..n
          BY <1>c, <4>1
        <4>3. cs[i].par = q /\ cs[i].badge
          BY <1>2, <4>2
        <4>4. QED
          BY <1>b, <3>1, <4>2, <4>3 DEF Badged
      <3>4. k \in DOMAIN as
        BY <1>b, <3>2
      <3>5. QED
        BY <1>b, <3>2, <3>3, <3>4 DEF Badged
    <2>2. CASE q = p
      <3>1. c.badge /\ d.par > p
        BY <1>1, <1>6, <2>2
      <3>2. \A i \in 1..n : ~(cs[i].par = q /\ cs[i].badge)
        <4> SUFFICES ASSUME NEW i \in 1..n, cs[i].par = q, cs[i].badge
                     PROVE  FALSE
          OBVIOUS
        <4>1. cs[i].rest
          BY <1>4 DEF ChunkReads
        <4>2. cs[i].par < p
          BY <1>4, <4>1
        <4>3. QED
          BY <1>1, <2>2, <4>2
      <3>3. \A i \in 1..n + 1 : as[i].par = q /\ as[i].badge => i = n + 1
        BY <1>c, <1>2, <3>2
      <3>4. n + 1 \in DOMAIN as /\ as[n + 1].par = q /\ as[n + 1].badge
        BY <1>1, <1>b, <1>2, <2>2, <3>1
      <3>5. QED
        BY <1>b, <3>3, <3>4 DEF Badged
    <2>3. q < p \/ q = p
      BY <1>1, <1>6
    <2>4. QED
      BY <2>1, <2>2, <2>3
  <1>11. \A i \in 1..(n + 1) - 1 : Leads(as[i], as[i + 1])
    <2> SUFFICES ASSUME NEW i \in 1..(n + 1) - 1
                 PROVE  Leads(as[i], as[i + 1])
      OBVIOUS
    <2>1. i \in 1..n
      BY <1>b
    <2>2. CASE i = n
      <3>1. Leads(cs[n], [par |-> p, from |-> f])
        <4>1. n # 0
          BY <1>b, <2>1
        <4>2. QED
          BY <1>4, <1>5, <4>1
      <3>2. as[i] = cs[n] /\ as[i + 1] = c
        BY <1>2, <2>1, <2>2
      <3>3. Leads(cs[n], c)
        BY <1>1, <3>1 DEF Leads
      <3>4. QED
        BY <3>2, <3>3
    <2>3. CASE i # n
      <3>1. i \in 1..n - 1 /\ i + 1 \in 1..n
        BY <1>b, <2>1, <2>3
      <3>2. as[i] = cs[i] /\ as[i + 1] = cs[i + 1]
        BY <1>2, <2>1, <3>1
      <3>3. Leads(cs[i], cs[i + 1])
        BY <1>4, <3>1
      <3>4. QED
        BY <3>2, <3>3
    <2>4. QED
      BY <2>2, <2>3
  <1>12. as[1].from = 0 /\ Blanks(1, as[1].par) /\ Leads(as[n + 1], d)
    <2>1. Leads(as[n + 1], d)
      BY <1>2, <1>6
    <2>2. CASE n = 0
      <3>1. n + 1 = 1 /\ f = 0 /\ Blanks(1, p)
        BY <1>4, <1>5, <2>2
      <3>3. as[1] = c
        BY <1>2, <3>1
      <3>2. QED
        BY <1>1, <2>1, <3>1, <3>3
    <2>3. CASE n # 0
      <3>1. 1 \in 1..n
        BY <1>b, <2>3
      <3>2. as[1] = cs[1]
        BY <1>2, <3>1
      <3>3. cs[1].from = 0 /\ Blanks(1, cs[1].par)
        BY <1>4, <1>5, <2>3
      <3>4. QED
        BY <2>1, <3>2, <3>3
    <2>4. QED
      BY <2>2, <2>3
  <1>13. \A e : Ahead(e, [par |-> d.par, from |-> d.from]) <=> Ahead(e, d)
    BY DEF Ahead
  <1>14. Leads(as[n + 1], [par |-> d.par, from |-> d.from])
    BY <1>12 DEF Leads
  <1>15. TextOf(as, d.par, d.from)
    BY <1>a, <1>b, <1>6, <1>8, <1>9, <1>10, <1>11, <1>12, <1>13, <1>14 DEF TextOf
  <1>16. QED
    BY <1>15 DEF as

LEMMA RestReads ==
    ASSUME NEW cs, NEW p, NEW f, NEW c, Appends(cs, p, f, c), c.to = items[p].lines,
           c.badge <=> (items[p].badge /\ items[p].lines > 0)
    PROVE  TextOf(Append(cs, c), p + 1, 0)
  <1>1. PICK d : d = [par |-> p + 1, from |-> 0]
    OBVIOUS
  <1>2. d.par = p + 1 /\ d.from = 0
    BY <1>1
  <1>3. p \in Nat /\ c.par = p /\ p \in 1..Len(items) /\ Len(items) \in Nat
    BY DEF Appends, TextOf
  <1>4. Arrives(c, d, p)
    <2>1. Leads(c, d)
      <3>1. Blanks(c.par + 1, d.par)
        BY <1>2, <1>3 DEF Blanks
      <3>2. QED
        BY <1>2, <1>3, <3>1 DEF Leads
    <2>2. Ahead(c, d)
      BY <1>2, <1>3 DEF Ahead
    <2>3. d.par <= Len(items) => d.from <= items[d.par].lines
      <3>1. SUFFICES ASSUME p + 1 <= Len(items) PROVE 0 <= items[p + 1].lines
        BY <1>2
      <3>2. p + 1 \in 1..Len(items)
        BY <1>3, <3>1
      <3>3. QED
        BY <3>2, ItemsAre DEF Appends
    <2>4. d.par > p
      BY <1>2, <1>3
    <2>5. QED
      BY <1>2, <2>1, <2>2, <2>3, <2>4 DEF Arrives
  <1>5. QED
    BY <1>2, <1>4, AppendReads

LEMMA PartReads ==
    ASSUME NEW cs, NEW p, NEW f, NEW c, Appends(cs, p, f, c), ~c.rest, ~c.badge
    PROVE  TextOf(Append(cs, c), p, c.to)
  <1>1. PICK d : d = [par |-> p, from |-> c.to]
    OBVIOUS
  <1>2. d.par = p /\ d.from = c.to
    BY <1>1
  <1>3. p \in Nat /\ c.par = p /\ c.to \in Nat /\ c.to <= items[p].lines /\ c.from < c.to
    BY DEF Appends, TextOf, ChunkOf, ChunkReads
  <1>4. Arrives(c, d, p)
    <2>1. Leads(c, d) /\ Ahead(c, d)
      BY <1>2, <1>3 DEF Leads, Ahead
    <2>2. ~(d.par > p)
      BY <1>2, <1>3
    <2>3. QED
      BY <1>2, <1>3, <2>1, <2>2 DEF Arrives
  <1>5. QED
    BY <1>2, <1>4, AppendReads

LEMMA BlankReads ==
    ASSUME NEW cs, NEW p, NEW f, items \in Seq(Paragraphs), TextOf(cs, p, f),
           p <= Len(items), items[p].lines = 0
    PROVE  TextOf(cs, p + 1, 0)
  <1>1. /\ cs \in Seq(ChunkOf) /\ p \in 1..Len(items) /\ Len(items) \in Nat /\ p \in Nat /\ f \in Nat
        /\ f <= items[p].lines
    BY DEF TextOf
  <1>2. f = 0
    BY <1>1
  <1>3. p + 1 \in 1..Len(items) + 1
    BY <1>1
  <1>4. p + 1 <= Len(items) => 0 <= items[p + 1].lines
    BY <1>1, AllLines
  <1>5. \A i \in DOMAIN cs : cs[i].par \in Nat /\ cs[i].from \in Nat /\ cs[i].to \in Nat
    <2>1. \A i \in DOMAIN cs : cs[i] \in ChunkOf
      BY <1>1
    <2>2. \A c \in ChunkOf : c.par \in Nat /\ c.from \in Nat /\ c.to \in Nat
      BY DEF ChunkOf
    <2>3. QED
      BY <2>1, <2>2
  <1>6. \A i \in DOMAIN cs : cs[i].par < p
    <2> SUFFICES ASSUME NEW i \in DOMAIN cs
                 PROVE  cs[i].par < p
      OBVIOUS
    <2>1. Ahead(cs[i], [par |-> p, from |-> f])
      BY DEF TextOf
    <2>2. QED
      BY <1>1, <1>2, <1>5, <2>1 DEF Ahead
  <1>7. \A i \in DOMAIN cs : /\ ChunkReads(cs[i]) /\ Ahead(cs[i], [par |-> p + 1, from |-> 0])
                             /\ cs[i].rest => cs[i].par < p + 1
    <2> SUFFICES ASSUME NEW i \in DOMAIN cs
                 PROVE  /\ ChunkReads(cs[i]) /\ Ahead(cs[i], [par |-> p + 1, from |-> 0])
                        /\ cs[i].rest => cs[i].par < p + 1
      OBVIOUS
    <2>1. cs[i].par < p + 1
      BY <1>1, <1>5, <1>6
    <2>2. ChunkReads(cs[i])
      BY DEF TextOf
    <2>3. QED
      BY <2>1, <2>2 DEF Ahead
  <1>8. \A q \in 1..(p + 1) - 1 : items[q].badge /\ items[q].lines > 0 => \E n : Badged(cs, q, n)
    <2> SUFFICES ASSUME NEW q \in 1..(p + 1) - 1, items[q].badge, items[q].lines > 0
                 PROVE  \E n : Badged(cs, q, n)
      OBVIOUS
    <2>1. q # p
      OBVIOUS
    <2>2. q \in 1..p - 1
      BY <1>1, <2>1
    <2>3. QED
      BY <2>2 DEF TextOf
  <1>9. \A m \in Nat : m <= p /\ Blanks(m, p) => Blanks(m, p + 1)
    <2> SUFFICES ASSUME NEW m \in Nat, m <= p, Blanks(m, p), NEW q \in m..(p + 1) - 1
                 PROVE  items[q].lines = 0
      BY DEF Blanks
    <2>1. CASE q = p
      BY <2>1
    <2>2. CASE q # p
      <3>1. q \in m..p - 1
        BY <1>1, <2>2
      <3>2. QED
        BY <3>1 DEF Blanks
    <2>3. QED
      BY <2>1, <2>2
  <1>10. cs = <<>> => Blanks(1, p + 1)
    BY <1>1, <1>9 DEF TextOf
  <1>11. cs # <<>> => /\ cs[1].from = 0 /\ Blanks(1, cs[1].par)
                      /\ Leads(cs[Len(cs)], [par |-> p + 1, from |-> 0])
    <2> SUFFICES ASSUME cs # <<>>
                 PROVE  /\ cs[1].from = 0 /\ Blanks(1, cs[1].par)
                        /\ Leads(cs[Len(cs)], [par |-> p + 1, from |-> 0])
      OBVIOUS
    <2>1. cs[1].from = 0 /\ Blanks(1, cs[1].par) /\ Leads(cs[Len(cs)], [par |-> p, from |-> f])
      BY DEF TextOf
    <2>2. PICK c : c = cs[Len(cs)]
      OBVIOUS
    <2>3. Len(cs) \in DOMAIN cs
      BY <1>1
    <2>4. c.par \in Nat /\ c.par < p
      BY <1>5, <1>6, <2>2, <2>3
    <2>5. c.to = items[c.par].lines /\ Blanks(c.par + 1, p)
      BY <1>1, <2>1, <2>2, <2>4 DEF Leads
    <2>6. Blanks(c.par + 1, p + 1)
      BY <1>1, <1>9, <2>4, <2>5
    <2>7. Leads(c, [par |-> p + 1, from |-> 0])
      BY <1>1, <2>4, <2>5, <2>6 DEF Leads
    <2>8. QED
      BY <2>1, <2>2, <2>7
  <1>12. /\ \A i, j \in DOMAIN cs : i < j => Ahead(cs[i], cs[j])
         /\ \A i \in 1..Len(cs) - 1 : Leads(cs[i], cs[i + 1])
    BY DEF TextOf
  <1>13. QED
    BY <1>1, <1>3, <1>4, <1>7, <1>8, <1>10, <1>11, <1>12 DEF TextOf

-----------------------------------------------------------------------------
(* The pages: a chunk is put on the open one, or the open one is closed.      *)
LEMMA PutShows ==
    ASSUME NEW cs, NEW ex, NEW u \in Nat, NEW v \in Nat, NEW c \in ChunkOf, PagesOf(cs, ex, u),
           c.page = Len(ex) + 1, u <= v, c.top + c.height <= v, InSight(c, ex)
    PROVE  PagesOf(Append(cs, c), ex, v)
  <1> DEFINE as == Append(cs, c)
             n  == Len(cs)
  <1>1. cs \in Seq(ChunkOf) /\ ex \in Seq(Nat) /\ Len(ex) \in Nat
    BY DEF PagesOf
  <1>2. as \in Seq(ChunkOf)
    BY <1>1
  <1>3. n \in Nat /\ DOMAIN as = 1..n + 1 /\ DOMAIN cs = 1..n
    BY <1>1
  <1>4. as[n + 1] = c /\ \A i \in 1..n : as[i] = cs[i]
    BY <1>1
  <1>5. \A i \in 1..n : cs[i] \in ChunkOf
    BY <1>1
  <1> HIDE DEF as, n
  <1>6. \A i \in 1..n + 1 : i = n + 1 \/ i \in 1..n
    BY <1>3
  <1>7. \A k, q : IsFirst(cs, k, q) => IsFirst(as, k, q)
    <2> SUFFICES ASSUME NEW k, NEW q, IsFirst(cs, k, q)
                 PROVE  IsFirst(as, k, q)
      OBVIOUS
    <2>1. k \in 1..n /\ cs[k].page = q /\ \A j \in 1..n : cs[j].page = q => k <= j
      BY <1>3 DEF IsFirst
    <2>2. as[k].page = q
      BY <1>4, <2>1
    <2>3. \A j \in 1..n + 1 : as[j].page = q => k <= j
      <3> SUFFICES ASSUME NEW j \in 1..n + 1, as[j].page = q
                   PROVE  k <= j
        OBVIOUS
      <3>1. CASE j = n + 1
        <4>1. k \in 1..n
          BY <2>1
        <4>2. QED
          BY <1>3, <3>1, <4>1
      <3>2. CASE j \in 1..n
        <4>1. cs[j].page = q
          BY <1>4, <3>2
        <4>2. QED
          BY <2>1, <3>2, <4>1
      <3>3. QED
        BY <1>6, <3>1, <3>2
    <2>4. k \in 1..n + 1
      BY <1>3, <2>1
    <2>5. QED
      BY <1>3, <2>2, <2>3, <2>4 DEF IsFirst
  <1>8. \E k : IsFirst(as, k, c.page)
    <2>1. CASE \E i \in 1..n : cs[i].page = c.page
      <3>1. PICK k : IsFirst(cs, k, c.page)
        BY <1>3, <2>1 DEF PagesOf
      <3>2. QED
        BY <1>7, <3>1
    <2>2. CASE ~\E i \in 1..n : cs[i].page = c.page
      <3>1. \A j \in 1..n + 1 : as[j].page = c.page => j = n + 1
        BY <1>4, <1>6, <2>2
      <3>2. n + 1 \in 1..n + 1
        BY <1>3
      <3>5. n + 1 <= n + 1
        BY <1>3
      <3>3. \A j \in 1..n + 1 : as[j].page = c.page => n + 1 <= j
        BY <3>1, <3>5
      <3>4. QED
        BY <1>3, <1>4, <3>2, <3>3 DEF IsFirst
    <2>3. QED
      BY <2>1, <2>2
  <1>9. \A i \in 1..n + 1 : /\ as[i].page \in 1..Len(ex) + 1
                            /\ \E k : IsFirst(as, k, as[i].page)
                            /\ as[i].page = Len(ex) + 1 => as[i].top + as[i].height <= v
                            /\ InSight(as[i], ex)
    <2> SUFFICES ASSUME NEW i \in 1..n + 1
                 PROVE  /\ as[i].page \in 1..Len(ex) + 1
                        /\ \E k : IsFirst(as, k, as[i].page)
                        /\ as[i].page = Len(ex) + 1 => as[i].top + as[i].height <= v
                        /\ InSight(as[i], ex)
      OBVIOUS
    <2>1. CASE i = n + 1
      <3>1. as[i] = c
        BY <1>4, <2>1
      <3>2. c.page \in 1..Len(ex) + 1
        BY <1>1
      <3>3. QED
        BY <1>8, <3>1, <3>2
    <2>2. CASE i \in 1..n
      <3>1. as[i] = cs[i]
        BY <1>4, <2>2
      <3>2. /\ cs[i].page \in 1..Len(ex) + 1 /\ InSight(cs[i], ex)
            /\ \E k : IsFirst(cs, k, cs[i].page)
            /\ cs[i].page = Len(ex) + 1 => cs[i].top + cs[i].height <= u
        BY <1>3, <2>2 DEF PagesOf
      <3>3. \E k : IsFirst(as, k, cs[i].page)
        BY <1>7, <3>2
      <3>4. cs[i].top \in Nat /\ cs[i].height \in Nat
        BY <1>5, <2>2 DEF ChunkOf
      <3>5. cs[i].page = Len(ex) + 1 => cs[i].top + cs[i].height <= v
        BY <3>2, <3>4
      <3>6. QED
        BY <3>1, <3>2, <3>3, <3>5
    <2>3. QED
      BY <1>6, <2>1, <2>2
  <1>10. \A q \in 1..Len(ex) : \E i \in 1..n + 1 : as[i].page = q
    <2> SUFFICES ASSUME NEW q \in 1..Len(ex)
                 PROVE  \E i \in 1..n + 1 : as[i].page = q
      OBVIOUS
    <2>1. PICK i \in 1..n : cs[i].page = q
      BY <1>3 DEF PagesOf
    <2>2. i \in 1..n + 1
      BY <1>3, <2>1
    <2>3. as[i].page = q
      BY <1>4, <2>1
    <2>4. QED
      BY <2>2, <2>3
  <1>11. ~(\A i \in 1..n + 1 : as[i].page # Len(ex) + 1)
    <2>1. n + 1 \in 1..n + 1
      BY <1>3
    <2>2. as[n + 1].page = Len(ex) + 1
      BY <1>4
    <2>3. QED
      BY <2>1, <2>2
  <1>12. PagesOf(as, ex, v)
    BY <1>1, <1>2, <1>3, <1>9, <1>10, <1>11 DEF PagesOf
  <1>13. QED
    BY <1>12 DEF as

LEMMA CloseShows ==
    ASSUME NEW cs, NEW ex, NEW u \in Nat, NEW s \in Nat, PagesOf(cs, ex, u), pageHeight \in Nat,
           \E i \in DOMAIN cs : cs[i].page = Len(ex) + 1,
           s = 0 \/ u + s <= pageHeight
    PROVE  PagesOf(cs, Append(ex, s), 0)
  <1> DEFINE ax == Append(ex, s)
             m  == Len(ex)
  <1>1. cs \in Seq(ChunkOf) /\ ex \in Seq(Nat) /\ m \in Nat
    BY DEF PagesOf
  <1>2. ax \in Seq(Nat)
    BY <1>1
  <1>3. Len(ax) = m + 1 /\ Len(ax) \in Nat
    BY <1>1
  <1>4. ax[m + 1] = s /\ \A q \in 1..m : ax[q] = ex[q]
    BY <1>1
  <1>5. \A i \in DOMAIN cs : cs[i] \in ChunkOf
    BY <1>1
  <1>6. \A i \in DOMAIN cs : /\ cs[i].page \in 1..m + 1
                             /\ \E k : IsFirst(cs, k, cs[i].page)
                             /\ cs[i].page = m + 1 => cs[i].top + cs[i].height <= u
                             /\ InSight(cs[i], ex)
    BY DEF PagesOf
  <1>7. /\ \A q \in 1..m : \E i \in DOMAIN cs : cs[i].page = q
        /\ \E i \in DOMAIN cs : cs[i].page = m + 1
    BY DEF PagesOf
  <1>8. Tolerance \in Nat
    BY Measures
  <1>9. \A i \in DOMAIN cs : Lower(cs[i], ex) =
            cs[i].top + cs[i].height + (IF cs[i].page <= m THEN ex[cs[i].page] ELSE 0)
    BY DEF Lower
  <1> HIDE DEF m
  <1>10. \A i \in DOMAIN cs : /\ cs[i].page \in 1..Len(ax) + 1 /\ cs[i].page # Len(ax) + 1
                              /\ InSight(cs[i], ax)
    <2> SUFFICES ASSUME NEW i \in DOMAIN cs
                 PROVE  /\ cs[i].page \in 1..Len(ax) + 1 /\ cs[i].page # Len(ax) + 1
                        /\ InSight(cs[i], ax)
      OBVIOUS
    <2>1. /\ cs[i].page \in 1..m + 1 /\ InSight(cs[i], ex)
          /\ cs[i].page = m + 1 => cs[i].top + cs[i].height <= u
      BY <1>6
    <2>2. cs[i].top \in Nat /\ cs[i].height \in Nat /\ cs[i].page \in Nat
      BY <1>5 DEF ChunkOf
    <2>3. cs[i].page \in 1..Len(ax) + 1 /\ cs[i].page # Len(ax) + 1
      BY <1>1, <1>3, <2>1
    <2>4. Lower(cs[i], ax) = cs[i].top + cs[i].height + ax[cs[i].page]
      BY <1>1, <1>3, <2>1 DEF Lower
    <2>5. CASE cs[i].page = m + 1
      <3>1. Lower(cs[i], ax) = cs[i].top + cs[i].height + s
        BY <1>4, <2>4, <2>5
      <3>2. CASE s = 0
        <4>1. Lower(cs[i], ex) = cs[i].top + cs[i].height + 0
          BY <1>1, <1>9, <2>5
        <4>2. Lower(cs[i], ax) = Lower(cs[i], ex)
          BY <3>1, <3>2, <4>1
        <4>3. QED
          BY <2>1, <2>3, <4>2 DEF InSight
      <3>3. CASE u + s <= pageHeight
        <4>1. cs[i].top + cs[i].height <= u
          BY <2>1, <2>5
        <4>2. cs[i].top + cs[i].height + s <= pageHeight + Tolerance
          BY <1>8, <2>2, <3>3, <4>1
        <4>3. QED
          BY <2>3, <3>1, <4>2 DEF InSight
      <3>4. QED
        BY <3>2, <3>3
    <2>6. CASE cs[i].page # m + 1
      <3>1. cs[i].page \in 1..m
        BY <1>1, <2>1, <2>6
      <3>2. ax[cs[i].page] = ex[cs[i].page]
        BY <1>4, <3>1
      <3>3. Lower(cs[i], ex) = cs[i].top + cs[i].height + ex[cs[i].page]
        BY <1>1, <1>9, <3>1
      <3>4. QED
        BY <2>1, <2>3, <2>4, <3>2, <3>3 DEF InSight
    <2>7. QED
      BY <2>5, <2>6
  <1>11. \A q \in 1..Len(ax) : \E i \in DOMAIN cs : cs[i].page = q
    <2> SUFFICES ASSUME NEW q \in 1..Len(ax)
                 PROVE  \E i \in DOMAIN cs : cs[i].page = q
      OBVIOUS
    <2>1. q = m + 1 \/ q \in 1..m
      BY <1>1, <1>3
    <2>2. QED
      BY <1>7, <2>1
  <1>12. \A i \in DOMAIN cs : cs[i].page = Len(ax) + 1 => cs[i].top + cs[i].height <= 0
    BY <1>10
  <1> HIDE DEF ax
  <1>13. PagesOf(cs, ax, 0)
    BY <1>1, <1>2, <1>6, <1>10, <1>11, <1>12 DEF PagesOf
  <1>14. QED
    BY <1>13 DEF ax

-----------------------------------------------------------------------------
(* Measures: of lines, of what is left on the page, of what a page stretches. *)
LEMMA LinesAre ==
    ASSUME NEW j \in Nat, NEW k \in Nat, j <= k
    PROVE  /\ j * LineHeight \in Nat /\ k * LineHeight \in Nat
           /\ j * LineHeight <= k * LineHeight
  <1>1. LineHeight \in Nat
    BY Measures
  <1>2. PICK d \in Nat : k = j + d
    <2>1. k - j \in Nat /\ k = j + (k - j)
      OBVIOUS
    <2>2. QED
      BY <2>1
  <1>3. \A m \in Nat : m * LineHeight \in Nat
    BY <1>1
  <1>4. (j + d) * LineHeight = j * LineHeight + d * LineHeight
    BY <1>1
  <1>5. j * LineHeight \in Nat /\ d * LineHeight \in Nat /\ k * LineHeight \in Nat
    BY <1>3
  <1>6. QED
    BY <1>2, <1>4, <1>5

\* The layout is at a line of a paragraph, with space below what the page holds.
LEMMA LayingIs ==
    ASSUME PageInv, Laying
    PROVE  /\ items \in Seq(Paragraphs) /\ par \in 1..Len(items) /\ P.lines \in Nat /\ P.badge \in BOOLEAN
           /\ P.kind = "title" => P.lines > 0
           /\ P.kind = "image" => P.lines = 1 /\ ~P.badge
           /\ from \in Nat /\ from <= P.lines /\ used \in Nat /\ Gap \in Nat /\ pageHeight \in Nat
           /\ pageHeight = Space + used + Gap /\ Space \in Int
           /\ page = Len(extra) + 1 /\ page \in Nat
           /\ TextOf(chunks, par, from) /\ PagesOf(chunks, extra, used)
           /\ Empty => used = 0 /\ Gap = 0
  <1>1. /\ items \in Seq(Paragraphs) /\ pageHeight \in PageHeights /\ page = Len(extra) + 1
        /\ TextOf(chunks, par, from) /\ PagesOf(chunks, extra, used) /\ used \in Nat
    BY DEF PageInv, Laying
  <1>2. /\ par \in 1..Len(items) + 1 /\ from \in Nat /\ (par <= Len(items) => from <= items[par].lines)
        /\ par <= Len(items) /\ Len(items) \in Nat
    BY <1>1 DEF TextOf, Laying
  <1>3. par \in 1..Len(items) /\ from <= P.lines
    BY <1>2 DEF P
  <1>4. /\ P.lines \in Nat /\ P.badge \in BOOLEAN /\ (P.kind = "title" => P.lines > 0)
        /\ P.kind = "image" => P.lines = 1 /\ ~P.badge
    BY <1>1, <1>3, ItemsAre DEF P
  <1>5. pageHeight \in Nat /\ Spacing \in Nat
    BY <1>1, Measures
  <1>6. Gap \in Nat /\ (Empty => Gap = 0)
    BY <1>5 DEF Gap
  <1>7. pageHeight = Space + used + Gap /\ Space \in Int
    BY <1>1, <1>5, <1>6 DEF Space
  <1>8. Len(extra) \in Nat
    BY <1>1 DEF PagesOf
  <1>9. Empty => used = 0
    BY <1>1 DEF Empty, PagesOf
  <1>10. QED
    BY <1>1, <1>2, <1>3, <1>4, <1>5, <1>6, <1>7, <1>8, <1>9

LEMMA HeightsAre ==
    ASSUME PageInv, Laying, NEW k \in Nat
    PROVE  /\ Height(k) \in Nat /\ k * LineHeight \in Nat /\ k * LineHeight <= Height(k)
           /\ \A j \in Nat : j <= k /\ from + k <= P.lines => Height(j) <= Height(k)
  <1>1. P.lines \in Nat /\ P.badge \in BOOLEAN /\ from \in Nat /\ BadgeRise \in Nat
    BY LayingIs, Measures
  <1>2. k * LineHeight \in Nat
    BY LinesAre
  <1>3. Height(k) \in Nat /\ k * LineHeight <= Height(k)
    BY <1>1, <1>2 DEF Height
  <1>4. ASSUME NEW j \in Nat, j <= k, from + k <= P.lines
        PROVE  Height(j) <= Height(k)
    <2>1. j * LineHeight \in Nat /\ j * LineHeight <= k * LineHeight
      BY <1>4, LinesAre
    <2>2. CASE from + j = P.lines
      <3>1. j = k
        BY <1>1, <1>4, <2>2
      <3>2. QED
        BY <1>3, <3>1
    <2>3. CASE from + j # P.lines
      <3>1. Height(j) = j * LineHeight + 0
        BY <2>3 DEF Height
      <3>2. QED
        BY <1>2, <1>3, <2>1, <3>1
    <2>4. QED
      BY <2>2, <2>3
  <1>5. QED
    BY <1>2, <1>3, <1>4

LEMMA RestHeightsAre ==
    ASSUME PageInv, Laying
    PROVE  RestHeights \subseteq Nat
  <1>1. Rest \in Nat /\ LineHeight \in Nat
    BY LayingIs, Measures DEF Rest
  <1>2. Height(Rest) \in Nat
    BY <1>1, HeightsAre
  <1>3. Height(Rest) + LineHeight \in Nat
    BY <1>1, <1>2
  <1>4. QED
    BY <1>2, <1>3 DEF RestHeights

LEMMA StretchIs ==
    ASSUME PageInv, NEW left \in Int, NEW n \in Nat
    PROVE  LET s == Stretch(left - Cardinality(Badges) * BadgeSlack, n)
           IN  s \in Nat /\ (s = 0 \/ (s <= left /\ n > 1))
  <1>1. chunks \in Seq(ChunkOf)
    BY DEF PageInv, TextOf
  <1>2. IsFiniteSet(DOMAIN chunks)
    BY <1>1, FS_Interval
  <1>3. Badges \subseteq DOMAIN chunks
    BY DEF Badges, OnPage
  <1>4. IsFiniteSet(Badges)
    BY <1>2, <1>3, FS_Subset
  <1>5. Cardinality(Badges) \in Nat /\ BadgeSlack \in Nat
    BY <1>4, FS_CardinalityType, Measures
  <1>6. PICK b : b = Cardinality(Badges) * BadgeSlack
    OBVIOUS
  <1>7. b \in Nat
    BY <1>5, <1>6
  <1>8. left - b \in Int
    BY <1>7
  <1>9. Stretch(left - b, n) \in Nat
    BY <1>8 DEF Stretch
  <1>10. Stretch(left - b, n) = 0 \/ (Stretch(left - b, n) <= left /\ n > 1)
    BY <1>7 DEF Stretch
  <1>11. QED
    BY <1>6, <1>9, <1>10

LEMMA OnPageIs ==
    ASSUME PageInv
    PROVE  /\ Cardinality(OnPage) \in Nat
           /\ Empty => Cardinality(OnPage) = 0
  <1>1. chunks \in Seq(ChunkOf)
    BY DEF PageInv, TextOf
  <1>2. IsFiniteSet(DOMAIN chunks)
    BY <1>1, FS_Interval
  <1>3. OnPage \subseteq DOMAIN chunks
    BY DEF OnPage
  <1>4. IsFiniteSet(OnPage)
    BY <1>2, <1>3, FS_Subset
  <1>5. Empty => OnPage = {}
    BY DEF Empty, OnPage
  <1>6. QED
    BY <1>4, <1>5, FS_CardinalityType, FS_EmptySet

-----------------------------------------------------------------------------
(* A chunk that stands where the layout is goes on.                          *)
RestOf(c, g, t, h) == /\ c \in ChunkOf /\ c.par = par /\ c.from = from /\ c.to = P.lines /\ c.rest
                      /\ c.page = g /\ c.top = t /\ c.height = h /\ (c.badge <=> P.badge)
PartOf(c, l, t, h) == /\ c \in ChunkOf /\ c.par = par /\ c.from = from /\ c.to = l /\ ~c.rest
                      /\ c.page = page /\ c.top = t /\ c.height = h /\ ~c.badge

LEMMA RestIs ==
    ASSUME PageInv, Laying, NEW h \in Nat, NEW c, c = Chunk(P.lines, TRUE, h)
    PROVE  RestOf(c, page, used + Gap, h)
  <1>1. Len(items) \in Nat
    BY LayingIs
  <1>2. par \in Nat /\ from \in Nat /\ P.lines \in Nat /\ P.badge \in BOOLEAN /\ page \in Nat /\ used + Gap \in Nat
    BY <1>1, LayingIs
  <1>3. /\ c.par = par /\ c.from = from /\ c.to = P.lines /\ c.rest /\ c.page = page /\ c.top = used + Gap
        /\ c.height = h /\ (c.badge <=> P.badge)
    BY DEF Chunk
  <1>4. c \in ChunkOf
    BY <1>2 DEF Chunk, ChunkOf
  <1>5. QED
    BY <1>3, <1>4 DEF RestOf

LEMMA RestNextIs ==
    ASSUME PageInv, Laying, NEW h \in Nat, NEW c, c = [Chunk(P.lines, TRUE, h) EXCEPT !.page = page + 1, !.top = 0]
    PROVE  RestOf(c, page + 1, 0, h)
  <1>1. PICK d : d = Chunk(P.lines, TRUE, h)
    OBVIOUS
  <1>2. RestOf(d, page, used + Gap, h)
    BY <1>1, RestIs
  <1>3. page + 1 \in Nat
    BY LayingIs
  <1>4. c = [d EXCEPT !.page = page + 1, !.top = 0]
    BY <1>1
  <1>5. d \in ChunkOf
    BY <1>2 DEF RestOf
  <1>6. c \in ChunkOf
    <2>1. PICK v : v = page + 1
      OBVIOUS
    <2>2. PICK e : e = [d EXCEPT !.page = v]
      OBVIOUS
    <2>3. v \in Nat
      BY <1>3, <2>1
    <2>4. e \in ChunkOf
      BY <1>5, <2>2, <2>3 DEF ChunkOf
    <2>5. c = [e EXCEPT !.top = 0]
      BY <1>4, <2>1, <2>2
    <2>6. 0 \in Nat
      OBVIOUS
    <2>7. QED
      BY <2>4, <2>5, <2>6 DEF ChunkOf
  <1>7. /\ c.par = d.par /\ c.from = d.from /\ c.to = d.to /\ c.rest = d.rest /\ c.page = page + 1 /\ c.top = 0
        /\ c.height = d.height /\ c.badge = d.badge
    BY <1>4, <1>5 DEF ChunkOf
  <1>8. QED
    BY <1>2, <1>6, <1>7 DEF RestOf

LEMMA RestAppends ==
    ASSUME PageInv, Laying, NEW g, NEW t, NEW h, NEW c, RestOf(c, g, t, h)
    PROVE  Appends(chunks, par, from, c) /\ c.to = items[par].lines
  <1>1. par \in 1..Len(items) /\ P.lines \in Nat /\ Len(items) \in Nat
    BY LayingIs
  <1>2. ChunkReads(c)
    BY <1>1 DEF RestOf, ChunkReads, P
  <1>3. QED
    BY <1>2, LayingIs DEF RestOf, Appends, Laying, P

LEMMA PartIs ==
    ASSUME PageInv, Laying, NEW l \in Nat, from < l, l <= P.lines, NEW h \in Nat, NEW c, c = Chunk(l, FALSE, h)
    PROVE  PartOf(c, l, used + Gap, h) /\ Appends(chunks, par, from, c)
  <1>1. Len(items) \in Nat
    BY LayingIs
  <1>2. /\ par \in Nat /\ from \in Nat /\ P.lines \in Nat /\ P.badge \in BOOLEAN
        /\ page \in Nat /\ used + Gap \in Nat
    BY <1>1, LayingIs
  <1>3. /\ c.par = par /\ c.from = from /\ c.to = l /\ ~c.rest /\ c.page = page /\ c.top = used + Gap
        /\ c.height = h /\ ~c.badge
    BY DEF Chunk
  <1>4. c \in ChunkOf
    BY <1>2 DEF Chunk, ChunkOf
  <1>5. ChunkReads(c)
    BY <1>2, <1>3, LayingIs DEF ChunkReads, P
  <1>6. QED
    BY <1>3, <1>4, <1>5, LayingIs DEF PartOf, Appends, Laying

LEMMA BeginsAfresh ==
    ASSUME PageInv, UNCHANGED input, NextParagraph, TextOf(chunks', par', 0)
    PROVE  Standing'
  <1>1. items' = items /\ tail' = FALSE /\ from' = 0
    BY DEF input, NextParagraph
  <1>2. par' \in 1..Len(items) + 1 /\ Len(items) \in Nat
    BY DEF PageInv, TextOf
  <1>3. par' <= Len(items) => 0 < items[par'].lines \/ items[par'].lines = 0
    <2>1. par' <= Len(items) => par' \in 1..Len(items)
      BY <1>2
    <2>2. \A q \in 1..Len(items) : items[q].lines \in Nat
      BY ItemsAre DEF PageInv
    <2>3. par' <= Len(items) => items[par'].lines \in Nat
      BY <2>1, <2>2
    <2>4. \A l \in Nat : 0 < l \/ l = 0
      OBVIOUS
    <2>5. QED
      BY <2>3, <2>4
  <1>4. P' = items[par']
    BY <1>1 DEF P
  <1>5. QED
    BY <1>1, <1>3, <1>4 DEF Standing

LEMMA PageInvNext ==
    ASSUME PageInv, UNCHANGED input, done' = FALSE, tail' \in BOOLEAN, page' = Len(extra') + 1, used' \in Nat,
           TextOf(chunks', par', from'), PagesOf(chunks', extra', used'), Standing'
    PROVE  PageInv'
  <1>1. \A cs, p, f : TextOf(cs, p, f)' <=> TextOf(cs', p', f')
    BY DEF input, TextOf, Badged, ChunkReads, Leads, Blanks
  <1>2. \A cs, ex, u : PagesOf(cs, ex, u)' <=> PagesOf(cs', ex', u')
    BY DEF input, PagesOf, IsFirst, InSight, Lower, Uncut
  <1>3. items' = items /\ pageHeight' = pageHeight
    BY DEF input
  <1>4. TextOf(chunks, par, from)'
    BY <1>1
  <1>5. PagesOf(chunks, extra, IF done THEN 0 ELSE used)'
    <2>1. PagesOf(chunks, extra, used)'
      BY <1>2
    <2>2. QED
      BY <2>1
  <1>6. QED
    BY <1>3, <1>4, <1>5 DEF PageInv

LEMMA KeepWholeKeeps ==
    ASSUME PageInv, KeepWhole
    PROVE  PageInv'
  <1>1. Laying /\ Whole /\ NextParagraph /\ UNCHANGED input /\ done' = FALSE
    BY DEF KeepWhole, Laying, PageInv
  <1> DEFINE h == WholeHeight
  <1>2. h \in Nat
    <2>1. P.lines - from \in Nat
      BY <1>1, LayingIs
    <2>2. Height(Rest) \in Nat /\ ImageHeight \in Nat
      BY <1>1, <2>1, HeightsAre, Measures DEF Rest
    <2>3. QED
      BY <2>2 DEF WholeHeight
  <1>3. P.badge => P.lines > 0
    BY <1>1, LayingIs DEF Whole
  <1>4. par' = par + 1 /\ from' = 0 /\ tail' = FALSE
    BY <1>1 DEF NextParagraph
  <1>5. /\ P.lines \in Nat /\ used \in Nat /\ Gap \in Nat /\ pageHeight \in Nat /\ Tolerance \in Nat
        /\ pageHeight = Space + used + Gap /\ Space \in Int /\ page \in Nat /\ page = Len(extra) + 1
        /\ PagesOf(chunks, extra, used) /\ Len(extra) \in Nat /\ extra \in Seq(Nat)
        /\ Empty => used = 0 /\ Gap = 0
    <2>1. Tolerance \in Nat
      BY Measures
    <2>2. PagesOf(chunks, extra, used)
      BY <1>1, LayingIs
    <2>3. Len(extra) \in Nat /\ extra \in Seq(Nat)
      BY <2>2 DEF PagesOf
    <2>4. QED
      BY <1>1, <2>1, <2>2, <2>3, LayingIs
  <1> HIDE DEF h
  <1>6. CASE Space < h /\ ~Empty
    <2>1. PICK c : c = [Chunk(P.lines, TRUE, h) EXCEPT !.page = page + 1, !.top = 0]
      OBVIOUS
    <2>2. RestOf(c, page + 1, 0, h)
      BY <1>1, <1>2, <2>1, RestNextIs
    <2>3. /\ c \in ChunkOf /\ Appends(chunks, par, from, c) /\ c.to = items[par].lines /\ c.rest
          /\ c.page = page + 1
          /\ c.top = 0 /\ c.height = h /\ (c.badge <=> P.badge)
      BY <1>1, <2>2, RestAppends DEF RestOf
    <2>4. chunks' = Append(chunks, c) /\ extra' = Append(extra, 0) /\ page' = page + 1 /\ used' = h
      BY <1>6, <2>1 DEF KeepWhole, Put, ClosePlain, h
    <2>5. TextOf(chunks', par', from')
      BY <1>3, <1>4, <2>3, <2>4, RestReads DEF P
    <2>6. PagesOf(chunks, Append(extra, 0), 0)
      <3>1. \E i \in DOMAIN chunks : chunks[i].page = Len(extra) + 1
        BY <1>5, <1>6 DEF Empty
      <3>2. QED
        BY <1>5, <3>1, CloseShows
    <2>12. PagesOf(chunks, extra', 0) /\ 0 \in Nat /\ c.page = Len(extra') + 1
      BY <1>5, <2>3, <2>4, <2>6
    <2>7. Len(extra') = page /\ page' = Len(extra') + 1
      BY <1>5, <2>4
    <2>8. InSight(c, extra')
      BY <2>3 DEF InSight, Uncut
    <2>9. 0 <= h /\ c.top + c.height <= h
      BY <1>2, <2>3
    <2>10. PagesOf(chunks', extra', used')
      <3>1. PagesOf(Append(chunks, c), extra', h)
        BY <1>2, <2>3, <2>8, <2>9, <2>12, PutShows
      <3>2. QED
        BY <2>4, <3>1
    <2>11. QED
      BY <1>1, <1>2, <1>4, <2>4, <2>5, <2>7, <2>10, BeginsAfresh, PageInvNext
  <1>7. CASE ~(Space < h /\ ~Empty)
    <2>1. PICK c : c = Chunk(P.lines, TRUE, h)
      OBVIOUS
    <2>2. RestOf(c, page, used + Gap, h)
      BY <1>1, <1>2, <2>1, RestIs
    <2>3. /\ c \in ChunkOf /\ Appends(chunks, par, from, c) /\ c.to = items[par].lines /\ c.rest /\ c.page = page
          /\ c.top = used + Gap /\ c.height = h /\ (c.badge <=> P.badge)
      BY <1>1, <2>2, RestAppends DEF RestOf
    <2>4. chunks' = Append(chunks, c) /\ extra' = extra /\ page' = page /\ used' = used + Gap + h
      BY <1>7, <2>1 DEF KeepWhole, Put, h
    <2>5. TextOf(chunks', par', from')
      BY <1>3, <1>4, <2>3, <2>4, RestReads DEF P
    <2>6. InSight(c, extra)
      <3>1. CASE Space < h
        <4>1. c.top = 0
          BY <1>5, <1>7, <2>3, <3>1
        <4>2. QED
          BY <2>3, <4>1 DEF InSight, Uncut
      <3>2. CASE ~(Space < h)
        <4>1. Lower(c, extra) = used + Gap + h
          BY <1>2, <1>5, <2>3 DEF Lower
        <4>2. QED
          BY <1>2, <1>5, <3>2, <4>1 DEF InSight
      <3>3. QED
        BY <3>1, <3>2
    <2>7. used' \in Nat /\ used <= used' /\ c.top + c.height <= used'
      BY <1>2, <1>5, <2>3, <2>4
    <2>8. PagesOf(chunks', extra', used')
      BY <1>5, <2>3, <2>4, <2>6, <2>7, PutShows
    <2>9. page' = Len(extra') + 1
      BY <1>5, <2>4
    <2>10. QED
      BY <1>1, <1>4, <2>5, <2>7, <2>8, <2>9, BeginsAfresh, PageInvNext
  <1>8. QED
    BY <1>6, <1>7

LEMMA EmptyTextKeeps ==
    ASSUME PageInv, EmptyText
    PROVE  PageInv'
  <1>1. /\ Laying /\ P.lines = 0 /\ NextParagraph /\ done' = FALSE
        /\ UNCHANGED <<input, chunks, extra, page, used>>
    BY DEF EmptyText, LayingText, Laying, PageInv
  <1>2. par' = par + 1 /\ from' = 0 /\ tail' = FALSE
    BY <1>1 DEF NextParagraph
  <1>3. TextOf(chunks', par', from')
    <2>1. items[par].lines = 0 /\ par <= Len(items)
      BY <1>1 DEF P, Laying
    <2>2. TextOf(chunks, par + 1, 0)
      BY <1>1, <2>1, LayingIs, BlankReads
    <2>3. QED
      BY <1>1, <1>2, <2>2
  <1>4. PagesOf(chunks', extra', used') /\ page' = Len(extra') + 1 /\ used' \in Nat
    BY <1>1, LayingIs
  <1>5. QED
    BY <1>1, <1>2, <1>3, <1>4, BeginsAfresh, PageInvNext

\* A chunk that ends a paragraph is put on the open page.
LEMMA RestKeeps ==
    ASSUME PageInv, Laying, P.lines > 0, NEW h \in Nat,
           h <= Space \/ Empty,
           Put(Chunk(P.lines, TRUE, h)), used' = used + Gap + h, NextParagraph,
           UNCHANGED <<input, extra, page, done>>
    PROVE  PageInv'
  <1>1. par' = par + 1 /\ from' = 0 /\ tail' = FALSE /\ done' = FALSE
    BY DEF NextParagraph, Laying, PageInv
  <1>2. /\ P.lines \in Nat /\ used \in Nat /\ Gap \in Nat /\ pageHeight \in Nat /\ Tolerance \in Nat
        /\ pageHeight = Space + used + Gap /\ Space \in Int /\ page \in Nat /\ page = Len(extra) + 1
        /\ PagesOf(chunks, extra, used) /\ Len(extra) \in Nat
        /\ Empty => used = 0 /\ Gap = 0
    <2>1. Tolerance \in Nat
      BY Measures
    <2>2. PagesOf(chunks, extra, used)
      BY LayingIs
    <2>3. Len(extra) \in Nat
      BY <2>2 DEF PagesOf
    <2>4. QED
      BY <2>1, <2>3, LayingIs
  <1>3. PICK c : c = Chunk(P.lines, TRUE, h)
    OBVIOUS
  <1>4. chunks' = Append(chunks, c) /\ RestOf(c, page, used + Gap, h)
    BY <1>3, RestIs DEF Put
  <1>5. /\ c \in ChunkOf /\ Appends(chunks, par, from, c) /\ c.to = items[par].lines /\ c.rest /\ c.page = page
        /\ c.top = used + Gap /\ c.height = h /\ (c.badge <=> P.badge)
    BY <1>4, RestAppends DEF RestOf
  <1>6. TextOf(chunks', par', from')
    BY <1>1, <1>4, <1>5, RestReads DEF P
  <1>7. InSight(c, extra)
    <2>1. CASE Empty
      <3>1. c.top = 0
        BY <1>2, <1>5, <2>1
      <3>2. QED
        BY <1>5, <3>1 DEF InSight, Uncut
    <2>2. CASE h <= Space
      <3>1. Lower(c, extra) = used + Gap + h
        BY <1>2, <1>5 DEF Lower
      <3>2. QED
        BY <1>2, <2>2, <3>1 DEF InSight
    <2>3. QED
      BY <2>1, <2>2
  <1>8. used' \in Nat /\ used <= used' /\ c.top + c.height <= used'
    BY <1>2, <1>5
  <1>9. PagesOf(chunks', extra', used')
    BY <1>2, <1>4, <1>5, <1>7, <1>8, PutShows
  <1>10. page' = Len(extra') + 1
    BY <1>2
  <1>11. QED
    BY <1>1, <1>6, <1>8, <1>9, <1>10, BeginsAfresh, PageInvNext

LEMMA PutRestKeeps ==
    ASSUME PageInv, PutRest
    PROVE  PageInv'
  <1>1. PICK h \in RestHeights : h <= Space /\ Put(Chunk(P.lines, TRUE, h)) /\ used' = used + Gap + h
    BY DEF PutRest
  <1>2. Laying /\ P.lines > 0 /\ NextParagraph /\ UNCHANGED <<input, extra, page, done>>
    BY DEF PutRest, LayingText
  <1>3. h \in Nat
    BY <1>1, <1>2, RestHeightsAre
  <1>4. QED
    BY <1>1, <1>2, <1>3, RestKeeps

LEMMA OversizeKeeps ==
    ASSUME PageInv, Oversize
    PROVE  PageInv'
  <1>1. PICK h \in RestHeights : h > Space /\ Put(Chunk(P.lines, TRUE, h)) /\ used' = used + h
    BY DEF Oversize
  <1>2. Laying /\ P.lines > 0 /\ Empty /\ NextParagraph /\ UNCHANGED <<input, extra, page, done>>
    BY DEF Oversize, Overflows, LayingText
  <1>3. h \in Nat
    BY <1>1, <1>2, RestHeightsAre
  <1>4. used' = used + Gap + h
    BY <1>1, <1>2, <1>3, LayingIs
  <1>5. QED
    BY <1>1, <1>2, <1>3, <1>4, RestKeeps

LEMMA BreakPageKeeps ==
    ASSUME PageInv, BreakPage
    PROVE  PageInv'
  <1>1. /\ Laying /\ ~tail /\ ~Empty /\ NewPage /\ UNCHANGED <<input, chunks, par, from, tail, done>>
        /\ CloseJustified(pageHeight - used, Cardinality(OnPage))
    BY DEF BreakPage, Overflows, LayingText
  <1>2. /\ used \in Nat /\ pageHeight \in Nat /\ page = Len(extra) + 1 /\ Len(extra) \in Nat
        /\ PagesOf(chunks, extra, used) /\ extra \in Seq(Nat) /\ TextOf(chunks, par, from)
    <2>1. PagesOf(chunks, extra, used)
      BY <1>1, LayingIs
    <2>2. Len(extra) \in Nat /\ extra \in Seq(Nat)
      BY <2>1 DEF PagesOf
    <2>3. QED
      BY <1>1, <2>1, <2>2, LayingIs
  <1>3. PICK s : s = Stretch((pageHeight - used) - Cardinality(Badges) * BadgeSlack, Cardinality(OnPage))
    OBVIOUS
  <1>4. s \in Nat /\ (s = 0 \/ s <= pageHeight - used)
    <2>1. pageHeight - used \in Int
      BY <1>2
    <2>2. QED
      BY <1>3, <2>1, StretchIs, OnPageIs
  <1>5. s = 0 \/ used + s <= pageHeight
    BY <1>2, <1>4
  <1>6. extra' = Append(extra, s) /\ page' = page + 1 /\ used' = 0
    BY <1>1, <1>3 DEF CloseJustified, NewPage
  <1>7. PagesOf(chunks', extra', used')
    <2>1. \E i \in DOMAIN chunks : chunks[i].page = Len(extra) + 1
      BY <1>1, <1>2 DEF Empty
    <2>2. PagesOf(chunks, Append(extra, s), 0)
      BY <1>2, <1>4, <1>5, <2>1, CloseShows
    <2>3. QED
      BY <1>1, <1>6, <2>2
  <1>8. page' = Len(extra') + 1
    BY <1>2, <1>4, <1>6
  <1>9. Standing'
    <2>1. items' = items /\ from' = from /\ par' = par /\ tail' = FALSE
      BY <1>1 DEF input, PageInv
    <2>2. P' = P
      BY <2>1 DEF P
    <2>3. par <= Len(items) => from < P.lines \/ P.lines = 0
      BY <1>1 DEF PageInv, Standing
    <2>4. QED
      BY <2>1, <2>2, <2>3 DEF Standing
  <1>10. TextOf(chunks', par', from') /\ tail' \in BOOLEAN /\ used' \in Nat /\ done' = FALSE /\ UNCHANGED input
    BY <1>1, <1>2, <1>6 DEF PageInv, Laying
  <1>11. QED
    BY <1>7, <1>8, <1>9, <1>10, PageInvNext

LEMMA PutTailKeeps ==
    ASSUME PageInv, PutTail
    PROVE  PageInv'
  <1>1. /\ Laying /\ tail /\ Put(Chunk(P.lines, TRUE, 0)) /\ ClosePlain /\ NewPage /\ NextParagraph
        /\ UNCHANGED input /\ done' = FALSE
    BY DEF PutTail, Laying, PageInv
  <1>2. Empty /\ from = P.lines /\ from > 0
    BY <1>1 DEF PageInv, Standing
  <1>3. /\ used = 0 /\ Gap = 0 /\ page = Len(extra) + 1 /\ Len(extra) \in Nat /\ extra \in Seq(Nat)
        /\ PagesOf(chunks, extra, 0) /\ pageHeight \in Nat /\ P.lines \in Nat
    <2>1. used = 0 /\ PagesOf(chunks, extra, used)
      BY <1>1, <1>2, LayingIs
    <2>2. Len(extra) \in Nat /\ extra \in Seq(Nat)
      BY <2>1 DEF PagesOf
    <2>3. QED
      BY <1>1, <1>2, <2>1, <2>2, LayingIs
  <1>4. PICK c : c = Chunk(P.lines, TRUE, 0)
    OBVIOUS
  <1>5. RestOf(c, page, used + Gap, 0) /\ Appends(chunks, par, from, c) /\ c.to = items[par].lines
    BY <1>1, <1>4, RestIs, RestAppends
  <1>6. c \in ChunkOf /\ c.rest /\ c.page = page /\ c.top = 0 /\ c.height = 0 /\ (c.badge <=> P.badge)
    BY <1>3, <1>5 DEF RestOf
  <1>7. /\ chunks' = Append(chunks, c) /\ extra' = Append(extra, 0) /\ page' = page + 1 /\ used' = 0
        /\ par' = par + 1 /\ from' = 0 /\ tail' = FALSE
    BY <1>1, <1>4 DEF Put, ClosePlain, NewPage, NextParagraph
  <1>8. TextOf(chunks', par', from')
    <2>1. c.badge <=> (items[par].badge /\ items[par].lines > 0)
      BY <1>2, <1>6 DEF P
    <2>2. QED
      BY <1>5, <1>7, <2>1, RestReads
  <1>9. PagesOf(chunks', extra, 0)
    <2>1. InSight(c, extra)
      BY <1>6 DEF InSight, Uncut
    <2>2. c.top + c.height <= 0 /\ 0 \in Nat /\ 0 <= 0
      BY <1>6
    <2>3. QED
      BY <1>3, <1>6, <1>7, <2>1, <2>2, PutShows
  <1>10. \E i \in DOMAIN chunks' : chunks'[i].page = Len(extra) + 1
    <2>1. chunks \in Seq(ChunkOf)
      BY <1>3 DEF PagesOf
    <2>2. Len(chunks) + 1 \in DOMAIN chunks' /\ chunks'[Len(chunks) + 1] = c
      BY <1>6, <1>7, <2>1
    <2>3. QED
      BY <1>3, <1>6, <2>2
  <1>11. PagesOf(chunks', extra', used')
    <2>1. PagesOf(chunks', Append(extra, 0), 0)
      BY <1>3, <1>9, <1>10, CloseShows
    <2>2. QED
      BY <1>7, <2>1
  <1>12. page' = Len(extra') + 1 /\ used' \in Nat /\ tail' \in BOOLEAN
    <2>1. Len(extra') = Len(extra) + 1
      BY <1>3, <1>7
    <2>2. QED
      BY <1>3, <1>7, <2>1
  <1>13. Standing'
    BY <1>1, <1>7, <1>8, BeginsAfresh
  <1>14. QED
    BY <1>1, <1>8, <1>11, <1>12, <1>13, PageInvNext

LEMMA FinishKeeps ==
    ASSUME PageInv, Finish
    PROVE  PageInv'
  <1>1. /\ done = FALSE /\ par > Len(items) /\ done' = TRUE /\ UNCHANGED <<input, chunks, used, par, from, tail>>
        /\ IF Empty THEN UNCHANGED <<extra, page>> ELSE ClosePlain /\ page' = page + 1
    BY DEF Finish, PageInv
  <1>2. /\ PagesOf(chunks, extra, used) /\ page = Len(extra) + 1 /\ used \in Nat /\ pageHeight \in Nat
        /\ TextOf(chunks, par, from)
    BY <1>1, Measures DEF PageInv
  <1>3. extra \in Seq(Nat) /\ Len(extra) \in Nat
    BY <1>2 DEF PagesOf
  <1>4. PagesOf(chunks, extra', 0) /\ page' = Len(extra') + 1
    <2>1. CASE Empty
      <3>1. extra' = extra /\ page' = page
        BY <1>1, <2>1
      <3>2. used = 0
        BY <1>2, <2>1 DEF PagesOf, Empty
      <3>3. QED
        BY <1>2, <3>1, <3>2
    <2>2. CASE ~Empty
      <3>1. extra' = Append(extra, 0) /\ page' = page + 1
        BY <1>1, <2>2 DEF ClosePlain
      <3>2. \E i \in DOMAIN chunks : chunks[i].page = Len(extra) + 1
        BY <1>2, <2>2 DEF Empty
      <3>3. PagesOf(chunks, Append(extra, 0), 0)
        BY <1>2, <3>2, CloseShows
      <3>4. Len(extra') = Len(extra) + 1
        BY <1>3, <3>1
      <3>5. QED
        BY <1>2, <3>1, <3>3, <3>4
    <2>3. QED
      BY <2>1, <2>2
  <1>5. items' = items /\ pageHeight' = pageHeight /\ chunks' = chunks
                       /\ par' = par /\ from' = from /\ tail' = tail
    BY <1>1 DEF input
  <1>6. \A cs, p, f : TextOf(cs, p, f)' <=> TextOf(cs', p', f')
    BY <1>1 DEF input, TextOf, Badged, ChunkReads, Leads, Blanks
  <1>7. \A cs, ex, u : PagesOf(cs, ex, u)' <=> PagesOf(cs', ex', u')
    BY <1>1 DEF input, PagesOf, IsFirst, InSight, Lower, Uncut
  <1>8. TextOf(chunks, par, from)'
    BY <1>2, <1>5, <1>6
  <1>9. PagesOf(chunks, extra, 0)'
    BY <1>4, <1>5, <1>7
  <1>10. tail = FALSE
    <2>1. par \in Nat /\ Len(items) \in Nat
      BY <1>2 DEF TextOf, PageInv
    <2>2. QED
      BY <1>1, <2>1 DEF PageInv, Standing
  <1>11. Standing'
    <2>1. ~(par <= Len(items))
      <3>1. par \in Nat /\ Len(items) \in Nat
        BY <1>2 DEF TextOf, PageInv
      <3>2. QED
        BY <1>1, <3>1
    <2>2. QED
      BY <1>5, <1>10, <2>1 DEF Standing
  <1>12. QED
    BY <1>1, <1>4, <1>5, <1>8, <1>9, <1>10, <1>11 DEF PageInv

-----------------------------------------------------------------------------
(* A paragraph is split: what stays fits, and so does what the page is        *)
(* stretched by, for the lines that fit are no fewer than those that stay.    *)
LEMMA KeptFits ==
    ASSUME PageInv, Laying, NEW k \in Nat, k <= Rest, Kept(k)
    PROVE  /\ Height(k) <= Space + Tolerance
           /\ \A fit \in 0..Rest : IsFit(fit) => Height(k) <= Height(fit)
           /\ P.badge => k < Rest
  <1>1. Fits(k) /\ (P.badge => k < Rest)
    BY LayingIs DEF Kept, IsFit
  <1>2. /\ Rest \in Nat /\ from + Rest = P.lines /\ Space \in Int /\ Tolerance \in Nat
        /\ from \in Nat /\ P.lines \in Nat
    BY LayingIs, Measures DEF Rest
  <1>3. ASSUME NEW fit \in 0..Rest, IsFit(fit)
        PROVE  Height(k) <= Height(fit)
    <2>1. fit \in Nat /\ fit <= Rest
      BY <1>2
    <2>2. k <= fit
      <3>1. SUFFICES ASSUME fit < k PROVE FALSE
        BY <2>1
      <3>2. fit + 1 \in Nat /\ fit + 1 <= k /\ fit # Rest
        BY <1>2, <2>1, <3>1
      <3>3. Height(fit + 1) <= Height(k)
        <4>1. from + k <= P.lines
          BY <1>2
        <4>2. QED
          BY <3>2, <4>1, HeightsAre
      <3>4. Height(fit + 1) \in Nat /\ Height(k) \in Nat
        BY <3>2, HeightsAre
      <3>5. Fits(fit + 1)
        <4>1. Height(k) <= Space + Tolerance
          BY <1>1 DEF Fits
        <4>2. Height(fit + 1) <= Space + Tolerance
          BY <1>2, <3>3, <3>4, <4>1
        <4>3. QED
          BY <4>2 DEF Fits
      <3>6. QED
        BY <1>3, <3>2, <3>5 DEF IsFit
    <2>3. from + fit <= P.lines
      BY <1>2, <2>1
    <2>4. QED
      BY <2>1, <2>2, <2>3, HeightsAre
  <1>4. Height(k) <= Space + Tolerance
    BY <1>1 DEF Fits
  <1>5. QED
    BY <1>1, <1>3, <1>4

LEMMA SplitKeeps ==
    ASSUME PageInv, NEW k \in 0..Rest, LayingText, Split(k)
    PROVE  PageInv'
  <1>1. /\ Laying /\ ~Whole /\ ~tail /\ P.lines > 0 /\ NewPage /\ UNCHANGED input /\ done' = FALSE
        /\ Empty \/ k > 0
        /\ Kept(k) /\ (P.badge => Rest > 1)
    BY DEF Split, Overflows, LayingText, Laying, PageInv
  <1>2. /\ P.lines \in Nat /\ used \in Nat /\ Gap \in Nat /\ pageHeight \in Nat /\ from \in Nat
        /\ pageHeight = Space + used + Gap /\ Space \in Int /\ page \in Nat /\ page = Len(extra) + 1
        /\ PagesOf(chunks, extra, used) /\ from <= P.lines
        /\ Empty => used = 0 /\ Gap = 0
    BY <1>1, LayingIs
  <1>3. extra \in Seq(Nat) /\ Len(extra) \in Nat /\ chunks \in Seq(ChunkOf) /\ Tolerance \in Nat
    <2>1. Tolerance \in Nat
      BY Measures
    <2>2. QED
      BY <1>2, <2>1 DEF PagesOf
  <1>4. from < P.lines
    BY <1>1 DEF PageInv, Standing, Laying
  <1>5. Rest \in Nat /\ Rest >= 1 /\ from + Rest = P.lines /\ k \in Nat /\ k <= Rest
    BY <1>2, <1>4 DEF Rest
  <1>6. PICK n : n = IF k = 0 THEN 1 ELSE k
    OBVIOUS
  <1>7. n \in Nat /\ n >= 1 /\ n <= Rest /\ from + n \in Nat /\ from < from + n /\ from + n <= P.lines
    BY <1>2, <1>5, <1>6
  <1>8. PICK h : h = n * LineHeight
    OBVIOUS
  <1>9. h \in Nat
    BY <1>7, <1>8, LinesAre
  <1>10. PICK c : c = Chunk(from + n, FALSE, h)
    OBVIOUS
  <1>11. PartOf(c, from + n, used + Gap, h) /\ Appends(chunks, par, from, c)
    BY <1>1, <1>7, <1>9, <1>10, PartIs
  <1>12. /\ c \in ChunkOf /\ c.from = from /\ c.to = from + n /\ ~c.rest /\ c.page = page /\ c.top = used + Gap
         /\ c.height = h /\ ~c.badge
    BY <1>11 DEF PartOf
  <1>13. /\ chunks' = Append(chunks, c) /\ page' = page + 1 /\ used' = 0
         /\ \/ from + n = P.lines /\ NextParagraph
            \/ par' = par /\ from' = from + n /\ tail' = (from + n = P.lines)
    BY <1>6, <1>8, <1>10 DEF Split, Put, NewPage
  <1>14. PICK fit \in 0..Rest : IsFit(fit) /\ CloseJustified(Space - Height(fit), Cardinality(OnPage) + 1)
    BY DEF Split
  <1>15. /\ Height(k) <= Space + Tolerance /\ Height(k) <= Height(fit) /\ (P.badge => k < Rest)
         /\ k * LineHeight <= Height(k) /\ Height(k) \in Nat /\ Height(fit) \in Nat
    <2>1. fit \in Nat
      BY <1>5
    <2>2. QED
      BY <1>1, <1>5, <1>14, <2>1, KeptFits, HeightsAre
  <1>16. PICK s : s = Stretch((Space - Height(fit)) - Cardinality(Badges) * BadgeSlack, Cardinality(OnPage) + 1)
    OBVIOUS
  <1>17. /\ extra' = Append(extra, s) /\ s \in Nat /\ (s = 0 \/ s <= Space - Height(fit))
         /\ Empty => s = 0
    <2>1. Space - Height(fit) \in Int /\ Cardinality(OnPage) + 1 \in Nat
      BY <1>2, <1>15, OnPageIs
    <2>2. s \in Nat /\ (s = 0 \/ (s <= Space - Height(fit) /\ Cardinality(OnPage) + 1 > 1))
      BY <1>16, <2>1, StretchIs
    <2>3. Empty => Cardinality(OnPage) + 1 = 1
      BY OnPageIs
    <2>4. extra' = Append(extra, s)
      BY <1>14, <1>16 DEF CloseJustified
    <2>5. QED
      BY <2>2, <2>3, <2>4
  <1>18. k > 0 => h <= Height(k)
    BY <1>5, <1>6, <1>8, <1>15
  <1>19. InSight(c, extra)
    <2>1. CASE k > 0
      <3>1. Lower(c, extra) = used + Gap + h
        BY <1>2, <1>3, <1>9, <1>12 DEF Lower
      <3>2. used + Gap + h <= pageHeight + Tolerance
        BY <1>2, <1>3, <1>9, <1>15, <1>18, <2>1
      <3>3. QED
        BY <3>1, <3>2 DEF InSight
    <2>2. CASE k = 0
      <3>1. c.top = 0 /\ c.to = c.from + 1
        BY <1>1, <1>2, <1>6, <1>12, <2>2
      <3>2. QED
        BY <3>1 DEF InSight, Uncut
    <2>3. QED
      BY <1>5, <2>1, <2>2
  <1>20. PICK v : v = used + Gap + h
    OBVIOUS
  <1>21. PagesOf(chunks', extra, v) /\ v \in Nat
    <2>1. v \in Nat /\ used <= v /\ c.top + c.height <= v
      BY <1>2, <1>9, <1>12, <1>20
    <2>2. PagesOf(Append(chunks, c), extra, v)
      BY <1>2, <1>12, <1>19, <2>1, PutShows
    <2>3. QED
      BY <1>13, <2>1, <2>2
  <1>22. s = 0 \/ v + s <= pageHeight
    <2>1. CASE k > 0
      BY <1>2, <1>9, <1>15, <1>17, <1>18, <1>20, <2>1
    <2>2. CASE k = 0
      BY <1>1, <1>17, <2>2
    <2>3. QED
      BY <1>5, <2>1, <2>2
  <1>23. PagesOf(chunks', extra', used')
    <2>1. \E i \in DOMAIN chunks' : chunks'[i].page = Len(extra) + 1
      <3>1. Len(chunks) + 1 \in DOMAIN chunks' /\ chunks'[Len(chunks) + 1] = c
        BY <1>3, <1>12, <1>13
      <3>2. QED
        BY <1>2, <1>12, <3>1
    <2>2. PagesOf(chunks', Append(extra, s), 0)
      BY <1>2, <1>17, <1>21, <1>22, <2>1, CloseShows
    <2>3. QED
      BY <1>13, <1>17, <2>2
  <1>24. page' = Len(extra') + 1 /\ used' \in Nat
    BY <1>2, <1>3, <1>13, <1>17
  <1>25. CASE from + n = P.lines /\ NextParagraph
    <2>1. ~P.badge
      <3>1. P.badge => n < Rest
        BY <1>1, <1>5, <1>6, <1>15
      <3>2. QED
        BY <1>2, <1>5, <1>7, <1>25, <3>1
    <2>2. c.to = items[par].lines /\ (c.badge <=> (items[par].badge /\ items[par].lines > 0))
      BY <1>12, <1>25, <2>1 DEF P
    <2>3. par' = par + 1 /\ from' = 0 /\ tail' = FALSE
      BY <1>25 DEF NextParagraph
    <2>4. TextOf(chunks', par', from')
      BY <1>11, <1>13, <2>2, <2>3, RestReads
    <2>5. QED
      BY <1>1, <1>23, <1>24, <1>25, <2>3, <2>4, BeginsAfresh, PageInvNext
  <1>26. CASE par' = par /\ from' = from + n /\ tail' = (from + n = P.lines)
    <2>1. TextOf(chunks', par', from')
      <3>1. TextOf(Append(chunks, c), par, c.to)
        BY <1>11, <1>12, PartReads
      <3>2. QED
        BY <1>12, <1>13, <1>26, <3>1
    <2>2. tail' \in BOOLEAN /\ (tail' <=> from + n = P.lines)
      BY <1>26
    <2>3. items' = items /\ par' = par /\ P' = P
      BY <1>1, <1>26 DEF input, P
    <2>4. Empty'
      <3>1. \A i \in DOMAIN chunks' : chunks'[i].page \in 1..Len(extra) + 1
        BY <1>21 DEF PagesOf
      <3>2. \A i \in DOMAIN chunks' : chunks'[i].page # page'
        BY <1>2, <1>3, <1>13, <3>1
      <3>3. QED
        BY <3>2 DEF Empty
    <2>5. par <= Len(items)
      BY <1>1 DEF Laying
    <2>6. from' > 0 /\ (from' = P.lines \/ from' < P.lines)
      BY <1>2, <1>7, <1>26
    <2>7. Standing'
      <3>1. tail' => par' <= Len(items') /\ Empty' /\ from' = P'.lines /\ from' > 0
        BY <1>26, <2>2, <2>3, <2>4, <2>5, <2>6
      <3>2. ~tail' => from' < P'.lines
        BY <1>26, <2>2, <2>3, <2>6
      <3>3. QED
        BY <3>1, <3>2 DEF Standing
    <2>8. QED
      BY <1>1, <1>23, <1>24, <2>1, <2>2, <2>7, PageInvNext
  <1>27. QED
    BY <1>13, <1>25, <1>26

LEMMA PageInvStep ==
    ASSUME PageInv, PageNext
    PROVE  PageInv'
  BY KeepWholeKeeps, EmptyTextKeeps, PutTailKeeps, PutRestKeeps, BreakPageKeeps, OversizeKeeps, FinishKeeps,
     SplitKeeps DEF PageNext

-----------------------------------------------------------------------------
(* What the pages then are.                                                  *)
LEMMA LeadsFollows ==
    ASSUME NEW c, NEW d
    PROVE  Leads(c, d) <=> Follows(c, d)
  BY DEF Leads, Follows, Blanks

LEMMA PagesContiguous == PageInv => Contiguous
  <1> SUFFICES ASSUME PageInv
               PROVE  Contiguous
    OBVIOUS
  <1>1. TextOf(chunks, par, from)
    BY DEF PageInv
  <1>2. \A i \in 1..Len(chunks) - 1 : Follows(chunks[i], chunks[i + 1])
    BY <1>1, LeadsFollows DEF TextOf
  <1>3. chunks # <<>> => /\ \A q \in 1..chunks[1].par - 1 : items[q].lines = 0
                         /\ chunks[1].from = 0
                         /\ Follows(chunks[Len(chunks)], Here)
    BY <1>1, LeadsFollows DEF TextOf, Here, Blanks
  <1>4. chunks = <<>> => from = 0 /\ \A q \in 1..par - 1 : items[q].lines = 0
    BY <1>1 DEF TextOf, Blanks
  <1>5. QED
    BY <1>2, <1>3, <1>4 DEF Contiguous

LEMMA PagesBadged == PageInv => BadgesShown
  <1> SUFFICES ASSUME PageInv, NEW q \in 1..par - 1, items[q].badge, items[q].lines > 0
               PROVE  Cardinality({i \in DOMAIN chunks : chunks[i].par = q /\ chunks[i].badge}) = 1
    BY DEF BadgesShown
  <1>1. PICK n : Badged(chunks, q, n)
    BY DEF PageInv, TextOf
  <1>2. {i \in DOMAIN chunks : chunks[i].par = q /\ chunks[i].badge} = {n}
    BY <1>1 DEF Badged
  <1>3. QED
    BY <1>2, FS_Singleton

LEMMA PagesFit == PageInv => PageFits
  <1> SUFFICES ASSUME PageInv, NEW i \in DOMAIN chunks
               PROVE  Bottom(chunks[i]) > pageHeight + Tolerance =>
                          chunks[i].top = 0 /\ (chunks[i].rest \/ chunks[i].to = chunks[i].from + 1)
    BY DEF PageFits
  <1>1. /\ chunks \in Seq(ChunkOf) /\ extra \in Seq(Nat) /\ InSight(chunks[i], extra)
        /\ chunks[i].page \in 1..Len(extra) + 1
    BY DEF PageInv, PagesOf
  <1>2. pageHeight \in Nat /\ Tolerance \in Nat
    BY Measures DEF PageInv
  <1>3. chunks[i] \in ChunkOf
    BY <1>1
  <1>4. chunks[i].top \in Nat /\ chunks[i].height \in Nat
    BY <1>3 DEF ChunkOf
  <1>5. PICK x : x = IF chunks[i].page <= Len(extra) THEN extra[chunks[i].page] ELSE 0
    OBVIOUS
  <1>6. x \in Nat
    <2>1. chunks[i].page <= Len(extra) => chunks[i].page \in 1..Len(extra)
      BY <1>1
    <2>2. QED
      BY <1>1, <1>5, <2>1
  <1>7. Bottom(chunks[i]) = chunks[i].top + chunks[i].height + x /\ Lower(chunks[i], extra) = Bottom(chunks[i])
    BY <1>5 DEF Bottom, Lower
  <1>8. CASE Lower(chunks[i], extra) <= pageHeight + Tolerance
    BY <1>2, <1>4, <1>6, <1>7, <1>8
  <1>9. CASE Uncut(chunks[i])
    BY <1>9 DEF Uncut
  <1>10. QED
    BY <1>1, <1>8, <1>9 DEF InSight

LEMMA FirstOnPage ==
    ASSUME PageInv, NEW q \in Pages
    PROVE  IsFirst(chunks, FirstOf(q), q)
  <1>1. chunks \in Seq(ChunkOf)
    BY DEF PageInv, TextOf
  <1>2. PICK i \in DOMAIN chunks : chunks[i].page = q
    BY DEF PageInv, PagesOf, Pages
  <1>3. \E k : IsFirst(chunks, k, q)
    BY <1>2 DEF PageInv, PagesOf
  <1>4. \E k \in DOMAIN chunks : chunks[k].page = q /\ \A j \in DOMAIN chunks : chunks[j].page = q => k <= j
    BY <1>3 DEF IsFirst
  <1>5. QED
    BY <1>4 DEF FirstOf, IsFirst

LEMMA PagesRestore == PageInv => RestoresExactly
  <1> SUFFICES ASSUME PageInv, NEW q \in Pages
               PROVE  PageForPosition(chunks[FirstOf(q)].par, chunks[FirstOf(q)].from) = q
    BY DEF RestoresExactly
  <1> DEFINE c == chunks[FirstOf(q)]
             exact == {r \in Pages : Starts(r, c.par, c.from)}
  <1>1. chunks \in Seq(ChunkOf) /\ \A i, j \in DOMAIN chunks : i < j => Ahead(chunks[i], chunks[j])
    BY DEF PageInv, TextOf
  <1>2. q \in exact
    BY DEF Starts
  <1>3. ASSUME NEW r \in exact
        PROVE  r = q
    <2>1. IsFirst(chunks, FirstOf(q), q) /\ IsFirst(chunks, FirstOf(r), r)
      BY FirstOnPage
    <2>2. PICK m : m = FirstOf(q)
      OBVIOUS
    <2>3. PICK n : n = FirstOf(r)
      OBVIOUS
    <2>4. /\ m \in DOMAIN chunks /\ chunks[m].page = q
          /\ n \in DOMAIN chunks /\ chunks[n].page = r
      BY <2>1, <2>2, <2>3 DEF IsFirst
    <2>5. chunks[n].par = chunks[m].par /\ chunks[n].from = chunks[m].from
      BY <2>2, <2>3 DEF Starts
    <2>6. chunks[m].par \in Nat /\ chunks[m].from \in Nat
      <3>1. chunks[m] \in ChunkOf
        BY <1>1, <2>4
      <3>2. QED
        BY <3>1 DEF ChunkOf
    <2>7. ~(m < n) /\ ~(n < m)
      BY <1>1, <2>4, <2>5, <2>6 DEF Ahead
    <2>8. m \in Int /\ n \in Int
      BY <1>1, <2>4
    <2>9. m = n
      BY <2>7, <2>8
    <2>10. QED
      BY <2>4, <2>9
  <1>4. exact = {q}
    BY <1>2, <1>3
  <1>5. First({q}) = q
    <2>1. q \in Int
      BY DEF Pages, PageInv, PagesOf
    <2>2. QED
      BY <2>1 DEF First
  <1>6. PageForPosition(c.par, c.from) = First(exact)
    BY <1>2 DEF PageForPosition
  <1>7. QED
    BY <1>4, <1>5, <1>6

LEMMA PageInvShows == PageInv => PagesAreChapter /\ RestoresExactly
  BY PagesContiguous, PagesBadged, PagesFit, PagesRestore DEF PagesAreChapter

LEMMA PagesStay ==
    ASSUME PageInv, UNCHANGED pageVars
    PROVE  PageInv'
  <1>1. /\ items' = items /\ pageHeight' = pageHeight /\ chunks' = chunks
        /\ par' = par /\ from' = from /\ tail' = tail
        /\ extra' = extra /\ used' = used /\ page' = page /\ done' = done
    BY DEF pageVars, input
  <1>2. \A cs, p, f : TextOf(cs, p, f)' <=> TextOf(cs', p', f')
    BY <1>1 DEF TextOf, Badged, ChunkReads, Leads, Blanks
  <1>3. \A cs, ex, u : PagesOf(cs, ex, u)' <=> PagesOf(cs', ex', u')
    BY <1>1 DEF PagesOf, IsFirst, InSight, Lower, Uncut
  <1>4. TextOf(chunks, par, from)'
    BY <1>1, <1>2 DEF PageInv
  <1>5. PagesOf(chunks, extra, IF done THEN 0 ELSE used)'
    <2>1. PICK u : u = IF done THEN 0 ELSE used
      OBVIOUS
    <2>2. PagesOf(chunks, extra, u)
      BY <2>1 DEF PageInv
    <2>3. u = (IF done THEN 0 ELSE used)'
      BY <1>1, <2>1
    <2>4. QED
      BY <1>1, <1>3, <2>2, <2>3
  <1>6. Standing'
    BY <1>1 DEF PageInv, Standing, Empty, P
  <1>7. QED
    BY <1>1, <1>4, <1>5, <1>6 DEF PageInv

-----------------------------------------------------------------------------
(* The reading position of the open book (ReaderProgress).                   *)
CallFields == {"n", "stage", "answer", "kind", "by", "book", "place"}
PlaceTypes ==
    /\ DOMAIN progressRows = ReadBook \cup OtherBook
    /\ \A c \in calls : /\ DOMAIN c = CallFields /\ c.kind \in {"get", "set"} /\ c.book \in ReadBook \cup OtherBook
                        /\ c.stage \in {"sent", "done", "failed"}
    /\ DOMAIN active = {"book", "place"}
    /\ DOMAIN reading = {"book", "start", "phase", "chapters"}
    /\ \/ reading = Position!Closed
       \/ reading.phase \in {"chapters", "progress", "open"} /\ reading.book \in ReadBook

\* The reader asks for the row once, and waits for the answer.
ReaderGet(c) == c.by = "reader" /\ c.kind = "get"
ReaderWaits == /\ \A c \in calls : ReaderGet(c) => reading.phase = "progress" /\ c.book = reading.book
               /\ \A c, d \in calls : ReaderGet(c) /\ ReaderGet(d) => c = d
\* A position is saved by an open reader only, and once its timer is gone it was.
Pends == /\ pending # Absent \/ lastSaved # Absent => reading.phase = "open"
         /\ pending # Absent /\ ~debounce => lastSaved = pending

\* A reader with no reason to move the place has it, and sends nothing else.
KeepsPlace ==
    /\ opened = progressRows[reading.book] /\ opened # Absent /\ reading.start = Absent
    /\ pending \in {Absent, opened} /\ lastSaved \in {Absent, opened}
    /\ \A c \in calls : c.book = reading.book =>
           /\ c.kind = "set" => c.place = opened
           /\ c.kind = "get" /\ c.stage = "done" /\ c.by = "reader" => c.answer = opened
Opens == reading # Position!Closed /\ ~moved => KeepsPlace

\* Unless calls crossed there is one call. It is the save of the last position, or
\* one of listening to another book; and then the position is stored, or refused.
Alone == \A c, d \in calls : c = d
SavedBy(c) == c.by = "reader" /\ c.book = reading.book /\ c.place = lastSaved
              /\ (c.stage = "done" => progressRows[reading.book] = lastSaved)
Saves == /\ \A c \in calls : c.kind = "set" /\ (SavedBy(c) \/ (c.by = "listening" /\ c.book # reading.book))
         /\ (\A c \in calls : c.by = "listening") => refused \/ progressRows[reading.book] = lastSaved
Saving == "crossed" \notin stirred => Alone /\ (lastSaved # Absent => Saves)

\* A call that nothing interferes with tells of the row, and so does what is shown.
Told(c) == \/ c.kind = "get" /\ (c.stage = "done" => c.answer = progressRows[c.book])
           \/ /\ c.kind = "set" /\ c.by = "reader" /\ active.book = c.book /\ active.place = c.place
              /\ c.stage = "done" => progressRows[c.book] = c.place
ShowsRow == progress # Absent /\ ~refused /\ active.book = progress.book
               => progressRows[active.book] = progress.place
Telling == stirred = {} => (calls = {} => ShowsRow) /\ \A c \in calls : Told(c)

ProgressInv == PlaceTypes /\ ReaderWaits /\ Pends /\ Opens /\ Saving /\ Telling

progressShown == <<progressRows, calls, active, progress, refused, reading, pending, lastSaved, debounce, moved,
                   opened, stirred>>

LEMMA ProgressInvInit == Position!ProgressInit => ProgressInv
  <1> SUFFICES ASSUME Position!ProgressInit
               PROVE  ProgressInv
    OBVIOUS
  <1>1. /\ calls = {} /\ progress = Absent /\ reading = Position!Closed /\ pending = Absent /\ lastSaved = Absent
        /\ debounce = FALSE
    BY DEF Position!ProgressInit
  <1>2. DOMAIN progressRows = ReadBook \cup OtherBook
    BY DEF Position!ProgressInit
  <1>3. DOMAIN active = {"book", "place"}
    <2>1. active = [book |-> Absent, place |-> Absent]
      BY DEF Position!ProgressInit
    <2>2. QED
      BY <2>1
  <1>4. DOMAIN reading = {"book", "start", "phase", "chapters"}
    BY <1>1 DEF Position!Closed
  <1>5. PlaceTypes
    BY <1>1, <1>2, <1>3, <1>4 DEF PlaceTypes
  <1>6. ReaderWaits /\ Pends /\ Opens /\ Saving /\ Telling
    BY <1>1 DEF ReaderWaits, Pends, Opens, Saving, Alone, Telling, ShowsRow
  <1>7. QED
    BY <1>5, <1>6 DEF ProgressInv

LEMMA ProgressStays ==
    ASSUME ProgressInv, UNCHANGED progressShown
    PROVE  ProgressInv'
  <1> USE DEF progressShown, ProgressInv
  <1>1. PlaceTypes'
    BY DEF PlaceTypes, Position!Closed
  <1>2. ReaderWaits' /\ Pends'
    BY DEF ReaderWaits, Pends, ReaderGet
  <1>3. Opens'
    BY DEF Opens, KeepsPlace, Position!Closed
  <1>4. Saving'
    BY DEF Saving, Alone, Saves, SavedBy
  <1>5. Telling'
    BY DEF Telling, Told, ShowsRow
  <1>6. QED
    BY <1>1, <1>2, <1>3, <1>4, <1>5

-----------------------------------------------------------------------------
(* The calls, and those that are sent, handled, and given up.                *)
LEMMA ACall ==
    ASSUME NEW kind, NEW by, NEW b, NEW place, NEW c, c = Position!Call(kind, by, b, place)
    PROVE  /\ DOMAIN c = CallFields /\ c.kind = kind /\ c.by = by /\ c.book = b /\ c.place = place
           /\ c.stage = "sent"
  BY DEF Position!Call, CallFields

LEMMA AFailure ==
    ASSUME NEW c, DOMAIN c = CallFields, NEW d, d = [c EXCEPT !.stage = "failed"]
    PROVE  /\ DOMAIN d = CallFields /\ d.kind = c.kind /\ d.by = c.by /\ d.book = c.book /\ d.place = c.place
           /\ d.stage = "failed" /\ d.answer = c.answer
  BY DEF CallFields

LEMMA AnOrphan ==
    ASSUME NEW c, DOMAIN c = CallFields, NEW d, d = Position!Orphaned(c)
    PROVE  /\ DOMAIN d = CallFields /\ d.kind = c.kind /\ d.book = c.book /\ d.place = c.place
           /\ d.stage = c.stage /\ d.answer = c.answer
           /\ IF ReaderGet(c) THEN d.by = "closed" ELSE d.by = c.by
  BY DEF CallFields, Position!Orphaned, ReaderGet

\* A call that has been handled takes the place of the call; the row follows.
LEMMA RowHandleKeeps ==
    ASSUME ProgressInv, NEW call \in calls, Position!Handle(call)
    PROVE  ProgressInv'
  <1> USE DEF ProgressInv
  <1>1. /\ call.stage = "sent"
        /\ UNCHANGED <<active, progress, refused, reading, pending, lastSaved, debounce, moved, opened, stirred>>
    BY DEF Position!Handle
  <1>2. /\ DOMAIN call = CallFields /\ call.kind \in {"get", "set"} /\ call.book \in ReadBook \cup OtherBook
    BY DEF PlaceTypes
  <1>3. \E d : /\ calls' = (calls \ {call}) \cup {d}
               /\ DOMAIN d = CallFields /\ d.kind = call.kind /\ d.by = call.by /\ d.book = call.book
               /\ d.place = call.place
               /\ \/ /\ d.stage = "done" /\ (call.kind = "get" => d.answer = progressRows[call.book])
                     /\ progressRows' = IF call.kind = "set" THEN [progressRows EXCEPT ![call.book] = call.place]
                                                            ELSE progressRows
                  \/ d.stage = "failed" /\ progressRows' = progressRows
    <2>1. CASE /\ calls' = (calls \ {call}) \cup
                      {[call EXCEPT !.stage = "done", !.answer = IF call.kind = "get" THEN progressRows[call.book] ELSE Absent]}
               /\ progressRows' = IF call.kind = "set" THEN [progressRows EXCEPT ![call.book] = call.place]
                                                       ELSE progressRows
      <3>1. PICK a : a = IF call.kind = "get" THEN progressRows[call.book] ELSE Absent
        OBVIOUS
      <3>2. PICK d : d = [call EXCEPT !.stage = "done", !.answer = a]
        OBVIOUS
      <3>3. calls' = (calls \ {call}) \cup {d}
        BY <2>1, <3>1, <3>2
      <3>4. /\ DOMAIN d = CallFields /\ d.kind = call.kind /\ d.by = call.by
            /\ d.book = call.book /\ d.place = call.place
            /\ d.stage = "done" /\ d.answer = a
        <4>1. DOMAIN call = CallFields
          BY <1>2
        <4>2. QED
          BY <3>2, <4>1 DEF CallFields
      <3>5. call.kind = "get" => d.answer = progressRows[call.book]
        BY <3>1, <3>4
      <3>6. QED
        BY <2>1, <3>3, <3>4, <3>5
    <2>2. CASE calls' = (calls \ {call}) \cup {[call EXCEPT !.stage = "failed"]} /\ progressRows' = progressRows
      <3>1. PICK d : d = [call EXCEPT !.stage = "failed"]
        OBVIOUS
      <3>2. /\ DOMAIN d = CallFields /\ d.kind = call.kind /\ d.by = call.by
            /\ d.book = call.book /\ d.place = call.place
            /\ d.stage = "failed"
        BY <1>2, <3>1, AFailure
      <3>3. QED
        BY <2>2, <3>1, <3>2
    <2>3. QED
      BY <2>1, <2>2 DEF Position!Handle
  <1>4. PICK d : /\ calls' = (calls \ {call}) \cup {d}
                 /\ DOMAIN d = CallFields /\ d.kind = call.kind /\ d.by = call.by /\ d.book = call.book
                 /\ d.place = call.place
                 /\ \/ /\ d.stage = "done" /\ (call.kind = "get" => d.answer = progressRows[call.book])
                       /\ progressRows' = IF call.kind = "set" THEN [progressRows EXCEPT ![call.book] = call.place]
                                                              ELSE progressRows
                    \/ d.stage = "failed" /\ progressRows' = progressRows
    BY <1>3
  <1>5. /\ DOMAIN progressRows' = ReadBook \cup OtherBook
        /\ \A b : b # call.book => progressRows'[b] = progressRows[b]
        /\ progressRows'[call.book] = IF call.kind = "set" /\ d.stage = "done" THEN call.place
                                      ELSE progressRows[call.book]
    <2>1. DOMAIN progressRows = ReadBook \cup OtherBook
      BY DEF PlaceTypes
    <2>2. CASE progressRows' = [progressRows EXCEPT ![call.book] = call.place] /\ call.kind = "set" /\ d.stage = "done"
      <3>1. DOMAIN progressRows' = ReadBook \cup OtherBook /\ progressRows'[call.book] = call.place
        BY <1>2, <2>1, <2>2
      <3>2. \A b \in ReadBook \cup OtherBook : b # call.book => progressRows'[b] = progressRows[b]
        BY <2>1, <2>2
      <3>3. QED
        BY <2>2, <3>1, <3>2
    <2>3. CASE progressRows' = progressRows /\ ~(call.kind = "set" /\ d.stage = "done")
      BY <2>1, <2>3
    <2>4. QED
      BY <1>4, <2>2, <2>3
  <1>6. PlaceTypes'
    BY <1>1, <1>2, <1>4, <1>5 DEF PlaceTypes, Position!Closed
  <1>7. ReaderWaits'
    BY <1>1, <1>4 DEF ReaderWaits, ReaderGet
  <1>8. Pends'
    BY <1>1 DEF Pends
  <1>9. Opens'
    BY <1>1, <1>2, <1>4, <1>5 DEF Opens, KeepsPlace, Position!Closed
  <1>10. Saving'
    BY <1>1, <1>2, <1>4, <1>5 DEF Saving, Alone, Saves, SavedBy
  <1>11. Telling'
    BY <1>1, <1>2, <1>4, <1>5 DEF Telling, Alone, Saving, Told, ShowsRow
  <1>12. QED
    BY <1>6, <1>7, <1>8, <1>9, <1>10, <1>11

\* A load is sent: alone, or it crosses what is in flight.
LEMMA LoadSends ==
    ASSUME NEW by, NEW b, NEW sent, Position!Load(by, b, sent), DOMAIN active = {"book", "place"}
    PROVE  \E c : /\ calls' = calls \cup {c}
                  /\ DOMAIN c = CallFields /\ c.kind = "get" /\ c.by = by /\ c.book = b /\ c.stage = "sent"
                  /\ stirred' = Position!Crossing(calls) /\ DOMAIN active' = {"book", "place"}
  <1>1. PICK c : c = Position!Call("get", by, b, sent)
    OBVIOUS
  <1>2. calls' = calls \cup {c} /\ stirred' = Position!Crossing(calls) /\ active' = [active EXCEPT !.book = b]
    BY <1>1 DEF Position!Load, Position!Send, Position!Post, Position!GetCall
  <1>3. DOMAIN active' = {"book", "place"}
    BY <1>2
  <1>4. QED
    BY <1>1, <1>2, <1>3, ACall

LEMMA DetailKeeps ==
    ASSUME ProgressInv, NEW b \in ReadBook \cup OtherBook, Position!DetailLoads(b)
    PROVE  ProgressInv'
  <1> USE DEF ProgressInv
  <1>1. /\ reading = Position!Closed /\ Position!Load("detail", b, Position!Place(1, ""))
        /\ UNCHANGED <<progressRows, progress, reading, pending, lastSaved, debounce, moved, opened>>
    BY DEF Position!DetailLoads
  <1>2. PICK c : /\ calls' = calls \cup {c}
                 /\ DOMAIN c = CallFields /\ c.kind = "get" /\ c.by = "detail" /\ c.book = b /\ c.stage = "sent"
                 /\ stirred' = Position!Crossing(calls) /\ DOMAIN active' = {"book", "place"}
    <2>1. DOMAIN active = {"book", "place"}
      BY DEF PlaceTypes
    <2>2. PICK p : p = Position!Place(1, "")
      OBVIOUS
    <2>3. Position!Load("detail", b, p)
      BY <1>1, <2>2
    <2>4. QED
      BY <2>1, <2>3, LoadSends
  <1>3. reading.phase = "closed"
    BY <1>1 DEF Position!Closed
  <1>4. PlaceTypes'
    BY <1>1, <1>2 DEF PlaceTypes, Position!Closed
  <1>5. ReaderWaits' /\ Pends'
    BY <1>1, <1>2 DEF ReaderWaits, Pends, ReaderGet
  <1>6. Opens'
    BY <1>1 DEF Opens, Position!Closed
  <1>7. Saving'
    <2>1. lastSaved' = Absent
      BY <1>1, <1>3 DEF Pends
    <2>2. "crossed" \notin stirred' => calls = {}
      BY <1>2 DEF Position!Crossing
    <2>3. QED
      BY <1>2, <2>1, <2>2 DEF Saving, Alone
  <1>8. Telling'
    <2>1. stirred' = {} => calls = {}
      BY <1>2 DEF Position!Crossing
    <2>2. QED
      BY <1>2, <2>1 DEF Telling, Told
  <1>9. QED
    BY <1>4, <1>5, <1>6, <1>7, <1>8

LEMMA ArriveKeeps ==
    ASSUME ProgressInv, NEW chapters, Position!ChaptersArrive(chapters)
    PROVE  ProgressInv'
  <1> USE DEF ProgressInv
  <1>1. /\ reading.phase = "chapters" /\ reading' = [reading EXCEPT !.phase = "progress", !.chapters = chapters]
        /\ Position!Load("reader", reading.book, Position!Fallback(reading.start, chapters))
        /\ UNCHANGED <<progressRows, progress, pending, lastSaved, debounce, moved, opened>>
    BY DEF Position!ChaptersArrive
  <1>2. PICK c : /\ calls' = calls \cup {c}
                 /\ DOMAIN c = CallFields /\ c.kind = "get" /\ c.by = "reader"
                 /\ c.book = reading.book /\ c.stage = "sent"
                 /\ stirred' = Position!Crossing(calls) /\ DOMAIN active' = {"book", "place"}
    BY <1>1, LoadSends DEF PlaceTypes
  <1>3. /\ DOMAIN reading' = {"book", "start", "phase", "chapters"} /\ reading'.phase = "progress"
        /\ reading'.book = reading.book /\ reading'.start = reading.start
    BY <1>1 DEF PlaceTypes
  <1>4. reading # Position!Closed /\ reading.book \in ReadBook
    BY <1>1 DEF PlaceTypes, Position!Closed
  <1>5. PlaceTypes'
    BY <1>1, <1>2, <1>3, <1>4 DEF PlaceTypes
  <1>6. ReaderWaits'
    BY <1>1, <1>2, <1>3 DEF ReaderWaits, ReaderGet
  <1>7. pending = Absent /\ lastSaved = Absent
    BY <1>1 DEF Pends
  <1>8. Pends'
    BY <1>1, <1>7 DEF Pends
  <1>9. Opens'
    BY <1>1, <1>2, <1>3, <1>4 DEF Opens, KeepsPlace
  <1>10. Saving'
    <2>1. "crossed" \notin stirred' => calls = {}
      BY <1>2 DEF Position!Crossing
    <2>2. QED
      BY <1>1, <1>2, <1>7, <2>1 DEF Saving, Alone
  <1>11. Telling'
    <2>1. stirred' = {} => calls = {}
      BY <1>2 DEF Position!Crossing
    <2>2. QED
      BY <1>2, <2>1 DEF Telling, Told
  <1>12. QED
    BY <1>5, <1>6, <1>8, <1>9, <1>10, <1>11

LEMMA ReaderOpensKeeps ==
    ASSUME ProgressInv, NEW b \in ReadBook, NEW start, Position!OpenReader(b, start)
    PROVE  ProgressInv'
  <1> USE DEF ProgressInv
  <1>1. /\ reading = Position!Closed /\ opened' = progressRows[b]
        /\ reading' = [book |-> b, start |-> start, phase |-> "chapters", chapters |-> {}]
        /\ moved' = (start # Absent \/ progressRows[b] = Absent
                     \/ listened = b \/ \E c \in calls : c.kind = "set" /\ c.book = b)
        /\ UNCHANGED <<progressRows, calls, active, progress, refused, pending, lastSaved, debounce, stirred>>
    BY DEF Position!OpenReader
  <1>2. /\ DOMAIN reading' = {"book", "start", "phase", "chapters"} /\ reading'.phase = "chapters"
        /\ reading'.book = b /\ reading'.start = start
    BY <1>1
  <1>3. reading.phase = "closed"
    BY <1>1 DEF Position!Closed
  <1>4. pending = Absent /\ lastSaved = Absent /\ \A c \in calls : ~ReaderGet(c)
    BY <1>3 DEF Pends, ReaderWaits
  <1>5. PlaceTypes'
    BY <1>1, <1>2 DEF PlaceTypes
  <1>6. ReaderWaits'
    BY <1>1, <1>4 DEF ReaderWaits, ReaderGet
  <1>7. Pends'
    BY <1>1, <1>4 DEF Pends
  <1>8. Opens'
    BY <1>1, <1>2, <1>4 DEF Opens, KeepsPlace, ReaderGet
  <1>9. Saving'
    BY <1>1, <1>4 DEF Saving, Alone
  <1>10. Telling'
    BY <1>1 DEF Telling, Told, ShowsRow
  <1>11. QED
    BY <1>5, <1>6, <1>7, <1>8, <1>9, <1>10

LEMMA ReaderClosesKeeps ==
    ASSUME ProgressInv, Position!CloseReader
    PROVE  ProgressInv'
  <1> USE DEF ProgressInv
  <1>1. /\ reading' = Position!Closed /\ debounce' = FALSE /\ pending' = Absent /\ lastSaved' = Absent
        /\ calls' = {Position!Orphaned(c) : c \in calls}
        /\ UNCHANGED <<progressRows, active, progress, refused, stirred>>
    BY DEF Position!CloseReader
  <1>2. \A d \in calls' : \E c \in calls : /\ d = Position!Orphaned(c) /\ DOMAIN d = CallFields /\ d.kind = c.kind
                /\ d.book = c.book /\ d.place = c.place /\ d.stage = c.stage /\ d.answer = c.answer
                /\ IF ReaderGet(c) THEN d.by = "closed" ELSE d.by = c.by
    <2> SUFFICES ASSUME NEW c \in calls, NEW d, d = Position!Orphaned(c)
                 PROVE  /\ DOMAIN d = CallFields /\ d.kind = c.kind
                        /\ d.book = c.book /\ d.place = c.place /\ d.stage = c.stage /\ d.answer = c.answer
                        /\ IF ReaderGet(c) THEN d.by = "closed" ELSE d.by = c.by
      BY <1>1
    <2>1. DOMAIN c = CallFields
      BY DEF PlaceTypes
    <2>2. QED
      BY <2>1, AnOrphan
  <1>3. DOMAIN reading' = {"book", "start", "phase", "chapters"}
    BY <1>1 DEF Position!Closed
  <1>4. PlaceTypes'
    BY <1>1, <1>2, <1>3 DEF PlaceTypes, Position!Closed
  <1>5. ReaderWaits'
    BY <1>2 DEF ReaderWaits, ReaderGet
  <1>6. Pends' /\ Opens'
    BY <1>1 DEF Pends, Opens, Position!Closed
  <1>7. Saving'
    BY <1>1, <1>2 DEF Saving, Alone
  <1>8. Telling'
    <2>1. calls' = {} <=> calls = {}
      BY <1>1
    <2>2. ASSUME stirred' = {}
          PROVE  \A d \in calls' : Told(d)'
      BY <1>1, <1>2, <2>2 DEF Telling, Told, ReaderGet
    <2>3. stirred' = {} => (calls' = {} => ShowsRow')
      BY <1>1, <2>1 DEF Telling, ShowsRow
    <2>4. QED
      BY <2>2, <2>3 DEF Telling
  <1>9. QED
    BY <1>4, <1>5, <1>6, <1>7, <1>8

LEMMA LoadAnsweredKeeps ==
    ASSUME ProgressInv, NEW call \in calls, Position!LoadAnswered(call)
    PROVE  ProgressInv'
  <1> USE DEF ProgressInv
  <1>1. /\ call.kind = "get" /\ call.stage # "sent" /\ calls' = calls \ {call}
        /\ progress' = IF call.stage = "done" THEN [book |-> call.book, place |-> call.answer] ELSE progress
        /\ refused' = (call.stage = "failed")
        /\ stirred' = stirred \cup Position!Crossing(calls')
        /\ UNCHANGED <<progressRows, lastSaved, opened>>
    BY DEF Position!LoadAnswered
  <1>2. PICK place : place = Position!Hydrated(call)
    OBVIOUS
  <1>3. \/ /\ call.by = "reader" /\ reading.phase = "progress"
           /\ reading' = [reading EXCEPT !.phase = "open"]
           /\ active' = [active EXCEPT !.place = Position!StartAt(place)]
           /\ Position!Reported(Position!StartAt(place))
           /\ moved' = (moved \/ call.stage = "failed" \/ place.chapter \notin reading.chapters)
        \/ /\ ~(call.by = "reader" /\ reading.phase = "progress" /\ reading.book = call.book)
           /\ active' = [active EXCEPT !.place = place]
           /\ UNCHANGED <<reading, pending, debounce, moved>>
    BY <1>2 DEF Position!LoadAnswered
  <1>4. /\ DOMAIN active = {"book", "place"} /\ DOMAIN reading = {"book", "start", "phase", "chapters"}
        /\ call.stage \in {"done", "failed"}
    BY <1>1 DEF PlaceTypes
  <1>5. DOMAIN active' = {"book", "place"} /\ active'.book = active.book
    BY <1>3, <1>4
  <1>6. Telling'
    <2>1. ASSUME stirred' = {}
          PROVE  calls' = {} /\ ShowsRow'
      <3>0. stirred = {} /\ Told(call)
        BY <1>1, <2>1 DEF Telling
      <3>1. calls' = {}
        BY <1>1, <2>1 DEF Position!Crossing
      <3>2. refused' <=> call.stage = "failed"
        BY <1>1
      <3>6. UNCHANGED progressRows
        BY <1>1
      <3>3. CASE call.stage = "failed"
        BY <3>1, <3>2, <3>3 DEF ShowsRow
      <3>4. CASE call.stage = "done"
        <4>1. call.answer = progressRows[call.book]
          BY <1>1, <3>0, <3>4 DEF Told
        <4>2. progress'.book = call.book /\ progress'.place = call.answer
          BY <1>1, <3>4
        <4>3. QED
          BY <3>1, <3>6, <4>1, <4>2 DEF ShowsRow
      <3>5. QED
        BY <1>4, <3>1, <3>3, <3>4
    <2>2. QED
      BY <2>1 DEF Telling
  <1>7. Alone => Alone'
    BY <1>1 DEF Alone
  <1>8. "crossed" \notin stirred' => "crossed" \notin stirred
    BY <1>1
  <1>9. CASE /\ call.by = "reader" /\ reading.phase = "progress"
             /\ reading' = [reading EXCEPT !.phase = "open"]
             /\ active' = [active EXCEPT !.place = Position!StartAt(place)]
             /\ Position!Reported(Position!StartAt(place))
             /\ moved' = (moved \/ call.stage = "failed" \/ place.chapter \notin reading.chapters)
    <2>1. /\ DOMAIN reading' = {"book", "start", "phase", "chapters"} /\ reading'.phase = "open"
          /\ reading'.book = reading.book /\ reading'.start = reading.start
      BY <1>4, <1>9
    <2>2. call.book = reading.book /\ lastSaved = Absent /\ pending = Absent
      BY <1>1, <1>9 DEF ReaderWaits, ReaderGet, Pends
    <2>3. reading # Position!Closed /\ reading.book \in ReadBook
      BY <1>9 DEF PlaceTypes, Position!Closed
    <2>4. PlaceTypes'
      BY <1>1, <1>5, <2>1, <2>3 DEF PlaceTypes
    <2>5. ReaderWaits'
      BY <1>1, <1>9 DEF ReaderWaits, ReaderGet
    <2>6. Pends'
      BY <1>1, <1>9, <2>1, <2>2 DEF Pends, Position!Reported
    <2>7. Opens'
      <3>1. ASSUME ~moved'
            PROVE  KeepsPlace'
        <4>1. KeepsPlace /\ call.stage = "done" /\ place.chapter \in reading.chapters
          BY <1>4, <1>9, <2>3, <3>1 DEF Opens
        <4>2. place = opened
          <5>1. call.answer = opened /\ opened # Absent
            BY <1>1, <1>9, <2>2, <4>1 DEF KeepsPlace
          <5>2. QED
            BY <1>2, <4>1, <5>1 DEF Position!Hydrated
        <4>3. Position!StartAt(place) = opened
          BY <4>1, <4>2 DEF Position!StartAt, KeepsPlace
        <4>4. pending' = opened
          BY <1>9, <4>3 DEF Position!Reported
        <4>5. QED
          BY <1>1, <2>1, <4>1, <4>4 DEF KeepsPlace
      <3>2. QED
        BY <3>1 DEF Opens
    <2>8. Saving'
      BY <1>1, <1>7, <1>8, <2>2 DEF Saving
    <2>9. QED
      BY <1>6, <2>4, <2>5, <2>6, <2>7, <2>8
  <1>10. CASE /\ ~(call.by = "reader" /\ reading.phase = "progress" /\ reading.book = call.book)
              /\ active' = [active EXCEPT !.place = place]
              /\ UNCHANGED <<reading, pending, debounce, moved>>
    <2>1. PlaceTypes'
      BY <1>1, <1>5, <1>10 DEF PlaceTypes, Position!Closed
    <2>2. ReaderWaits'
      BY <1>1, <1>10 DEF ReaderWaits, ReaderGet
    <2>3. Pends'
      BY <1>1, <1>10 DEF Pends
    <2>4. Opens'
      BY <1>1, <1>10 DEF Opens, KeepsPlace, Position!Closed
    <2>5. Saving'
      <3>1. "crossed" \notin stirred => lastSaved = Absent
        BY <1>1 DEF Saving, Saves
      <3>2. QED
        BY <1>1, <1>7, <1>8, <3>1 DEF Saving
    <2>6. QED
      BY <1>6, <2>1, <2>2, <2>3, <2>4, <2>5
  <1>11. QED
    BY <1>3, <1>9, <1>10

LEMMA ReportKeeps ==
    ASSUME ProgressInv, NEW place, Position!Report(place)
    PROVE  ProgressInv'
  <1> USE DEF ProgressInv
  <1>1. /\ reading.phase = "open" /\ active' = [active EXCEPT !.place = place] /\ moved' = TRUE
        /\ Position!Reported(place) \/ UNCHANGED <<pending, debounce>>
        /\ stirred' = stirred \cup Position!Crossing(calls)
        /\ UNCHANGED <<progressRows, calls, progress, refused, reading, lastSaved, opened>>
    BY DEF Position!Report
  <1>2. DOMAIN active' = {"book", "place"} /\ active'.book = active.book
    BY <1>1 DEF PlaceTypes
  <1>3. PlaceTypes'
    BY <1>1, <1>2 DEF PlaceTypes, Position!Closed
  <1>4. ReaderWaits'
    BY <1>1 DEF ReaderWaits, ReaderGet
  <1>5. Pends'
    BY <1>1 DEF Pends, Position!Reported
  <1>6. Opens'
    BY <1>1 DEF Opens
  <1>7. Saving'
    BY <1>1 DEF Saving, Alone, Saves, SavedBy
  <1>8. Telling'
    <2>1. stirred' = {} => stirred = {} /\ calls = {}
      BY <1>1 DEF Position!Crossing
    <2>2. QED
      BY <1>1, <1>2, <2>1 DEF Telling, ShowsRow
  <1>9. QED
    BY <1>3, <1>4, <1>5, <1>6, <1>7, <1>8

LEMMA FlushKeeps ==
    ASSUME ProgressInv, Position!FlushPending
    PROVE  ProgressInv'
  <1> USE DEF ProgressInv
  <1>1. /\ debounce' = FALSE /\ UNCHANGED <<progressRows, progress, reading, pending, moved, opened>>
        /\ IF pending = Absent \/ pending = lastSaved
           THEN UNCHANGED <<calls, stirred, active, refused, lastSaved>>
           ELSE /\ lastSaved' = pending
                /\ active' = [book |-> reading.book, place |-> pending]
                /\ Position!Send(Position!SetCall("reader", reading.book, pending))
                /\ refused' = FALSE
    BY DEF Position!FlushPending
  <1>2. CASE pending = Absent \/ pending = lastSaved
    <2>1. UNCHANGED <<calls, stirred, active, refused, lastSaved>>
      BY <1>1, <1>2
    <2>2. PlaceTypes'
      BY <1>1, <2>1 DEF PlaceTypes, Position!Closed
    <2>3. ReaderWaits' /\ Pends'
      BY <1>1, <1>2, <2>1 DEF ReaderWaits, ReaderGet, Pends
    <2>4. Opens'
      BY <1>1, <2>1 DEF Opens, KeepsPlace, Position!Closed
    <2>5. Saving'
      BY <1>1, <2>1 DEF Saving, Alone, Saves, SavedBy
    <2>6. Telling'
      BY <1>1, <2>1 DEF Telling, Told, ShowsRow
    <2>7. QED
      BY <2>2, <2>3, <2>4, <2>5, <2>6
  <1>3. CASE ~(pending = Absent \/ pending = lastSaved)
    <2>1. /\ lastSaved' = pending /\ pending # Absent /\ refused' = FALSE
          /\ active' = [book |-> reading.book, place |-> pending]
          /\ Position!Send(Position!SetCall("reader", reading.book, pending))
      BY <1>1, <1>3
    <2>2. PICK c : c = Position!Call("set", "reader", reading.book, pending)
      OBVIOUS
    <2>3. calls' = calls \cup {c} /\ stirred' = Position!Crossing(calls)
      BY <2>1, <2>2 DEF Position!Send, Position!Post, Position!SetCall
    <2>4. /\ DOMAIN c = CallFields /\ c.kind = "set" /\ c.by = "reader"
          /\ c.book = reading.book /\ c.place = pending
          /\ c.stage = "sent"
      BY <2>2, ACall
    <2>5. DOMAIN active' = {"book", "place"} /\ active'.book = reading.book /\ active'.place = pending
      BY <2>1
    <2>6. reading.phase = "open"
      BY <2>1 DEF Pends
    <2>7. reading.book \in ReadBook /\ reading # Position!Closed
      BY <2>6 DEF PlaceTypes, Position!Closed
    <2>8. "crossed" \notin stirred' => calls' = {c}
      BY <2>3 DEF Position!Crossing
    <2>9. PlaceTypes'
      BY <1>1, <2>3, <2>4, <2>5, <2>7 DEF PlaceTypes, Position!Closed
    <2>10. ReaderWaits' /\ Pends'
      BY <1>1, <2>1, <2>3, <2>4, <2>6 DEF ReaderWaits, ReaderGet, Pends
    <2>11. Opens'
      BY <1>1, <2>1, <2>3, <2>4, <2>7 DEF Opens, KeepsPlace
    <2>12. Saving'
      BY <1>1, <2>1, <2>4, <2>8 DEF Saving, Alone, Saves, SavedBy
    <2>13. Telling'
      <3>1. stirred' = {} => calls' = {c}
        BY <2>8
      <3>2. Told(c)'
        BY <2>4, <2>5 DEF Told
      <3>3. QED
        BY <3>1, <3>2 DEF Telling
    <2>14. QED
      BY <2>9, <2>10, <2>11, <2>12, <2>13
  <1>4. QED
    BY <1>2, <1>3

LEMMA SaveAnsweredKeeps ==
    ASSUME ProgressInv, NEW call \in calls, Position!SaveAnswered(call)
    PROVE  ProgressInv'
  <1> USE DEF ProgressInv
  <1>1. /\ call.kind = "set" /\ call.stage # "sent" /\ calls' = calls \ {call}
        /\ IF call.by = "listening" THEN UNCHANGED <<progress, refused>>
           ELSE /\ progress' = IF call.stage = "done" THEN active ELSE progress
                /\ refused' = (call.stage = "failed")
        /\ UNCHANGED <<progressRows, active, reading, pending, lastSaved, debounce, moved, opened, stirred>>
    BY DEF Position!SaveAnswered
  <1>2. call.stage \in {"done", "failed"}
    BY <1>1 DEF PlaceTypes
  <1>3. PlaceTypes'
    BY <1>1 DEF PlaceTypes, Position!Closed
  <1>4. ReaderWaits' /\ Pends'
    BY <1>1 DEF ReaderWaits, ReaderGet, Pends
  <1>5. Opens'
    BY <1>1 DEF Opens, KeepsPlace, Position!Closed
  <1>6. Saving'
    <2>1. ASSUME "crossed" \notin stirred
          PROVE  calls' = {}
      BY <1>1, <2>1 DEF Saving, Alone
    <2>2. ASSUME "crossed" \notin stirred, lastSaved # Absent
          PROVE  refused' \/ progressRows[reading.book] = lastSaved
      <3>1. Saves
        BY <2>2 DEF Saving
      <3>2. CASE call.by = "listening"
        <4>1. \A c \in calls : c.by = "listening"
          BY <2>2, <3>2 DEF Saving, Alone
        <4>2. QED
          BY <1>1, <3>1, <3>2, <4>1 DEF Saves
      <3>3. CASE call.by # "listening"
        <4>1. SavedBy(call)
          BY <3>1, <3>3 DEF Saves
        <4>2. QED
          BY <1>1, <1>2, <3>3, <4>1 DEF SavedBy
      <3>4. QED
        BY <3>2, <3>3
    <2>3. QED
      BY <1>1, <2>1, <2>2 DEF Saving, Alone, Saves
  <1>7. Telling'
    <2>1. ASSUME stirred' = {}
          PROVE  calls' = {} /\ ShowsRow'
      <3>1. stirred = {} /\ Told(call)
        BY <1>1, <2>1 DEF Telling
      <3>2. calls' = {}
        BY <1>1, <3>1 DEF Saving, Alone
      <3>3. /\ call.by = "reader" /\ active.book = call.book /\ active.place = call.place
            /\ call.stage = "done" => progressRows[call.book] = call.place
        BY <1>1, <3>1 DEF Told
      <3>4. ShowsRow'
        <4>1. CASE call.stage = "failed"
          BY <1>1, <3>3, <4>1 DEF ShowsRow
        <4>2. CASE call.stage = "done"
          BY <1>1, <3>3, <4>2 DEF ShowsRow
        <4>3. QED
          BY <1>2, <4>1, <4>2
      <3>5. QED
        BY <3>2, <3>4
    <2>2. QED
      BY <2>1 DEF Telling
  <1>8. QED
    BY <1>3, <1>4, <1>5, <1>6, <1>7

LEMMA ListeningKeeps ==
    ASSUME ProgressInv, NEW b \in ReadBook, NEW place, Position!ListeningAdvances(b, place)
    PROVE  ProgressInv'
  <1> USE DEF ProgressInv
  <1>1. /\ IF reading.book = b THEN debounce' = FALSE /\ pending' = Absent /\ lastSaved' = Absent
                               ELSE UNCHANGED <<debounce, pending, lastSaved>>
        /\ Position!Post(Position!SetCall("listening", b, place))
        /\ stirred' = stirred \cup {"listening"} \cup Position!Crossing(calls)
        /\ moved' = (moved \/ b = reading.book)
        /\ UNCHANGED <<progressRows, active, progress, refused, reading, opened>>
    BY DEF Position!ListeningAdvances, Position!Suspend
  <1>2. PICK c : c = Position!Call("set", "listening", b, place)
    OBVIOUS
  <1>3. calls' = calls \cup {c}
    BY <1>1, <1>2 DEF Position!Post, Position!SetCall
  <1>4. /\ DOMAIN c = CallFields /\ c.kind = "set" /\ c.by = "listening" /\ c.book = b /\ c.place = place
        /\ c.stage = "sent"
    BY <1>2, ACall
  <1>5. PlaceTypes'
    BY <1>1, <1>3, <1>4 DEF PlaceTypes, Position!Closed
  <1>6. ReaderWaits' /\ Pends'
    BY <1>1, <1>3, <1>4 DEF ReaderWaits, ReaderGet, Pends
  <1>7. Opens'
    BY <1>1, <1>3, <1>4 DEF Opens, KeepsPlace, Position!Closed
  <1>8. Saving'
    <2>1. "crossed" \notin stirred' => "crossed" \notin stirred /\ calls = {} /\ calls' = {c}
      BY <1>1, <1>3 DEF Position!Crossing
    <2>2. CASE reading.book = b
      BY <1>1, <2>1, <2>2 DEF Saving, Alone
    <2>3. CASE reading.book # b
      BY <1>1, <1>4, <2>1, <2>3 DEF Saving, Alone, Saves
    <2>4. QED
      BY <2>2, <2>3
  <1>9. Telling'
    BY <1>1 DEF Telling
  <1>10. QED
    BY <1>5, <1>6, <1>7, <1>8, <1>9

LEMMA StopsKeeps ==
    ASSUME ProgressInv, Position!ListeningStops
    PROVE  ProgressInv'
  BY ProgressStays DEF Position!ListeningStops, progressShown

LEMMA ProgressInvStep ==
    ASSUME ProgressInv, Position!ProgressNext
    PROVE  ProgressInv'
  BY RowHandleKeeps, DetailKeeps, ReaderOpensKeeps, ArriveKeeps, ReaderClosesKeeps, LoadAnsweredKeeps, ReportKeeps,
     FlushKeeps, SaveAnsweredKeeps, ListeningKeeps, StopsKeeps DEF Position!ProgressNext

LEMMA ProgressInvShows == ProgressInv => Position!ProgressTrue
  <1> SUFFICES ASSUME ProgressInv
               PROVE  Position!ProgressTrue
    OBVIOUS
  <1> USE DEF ProgressInv
  <1>1. Position!SavedWhenSettled
    <2> SUFFICES ASSUME reading.phase = "open", pending # Absent, ~debounce, calls = {}, "crossed" \notin stirred,
                        ~refused
                 PROVE  progressRows[reading.book] = pending
      BY DEF Position!SavedWhenSettled
    <2>1. lastSaved = pending
      BY DEF Pends
    <2>2. QED
      BY <2>1 DEF Saving, Saves
  <1>2. Position!OpeningKeepsPlace
    BY DEF Position!OpeningKeepsPlace, Opens, KeepsPlace
  <1>3. Position!ProgressShown
    BY DEF Position!ProgressShown, Telling, ShowsRow
  <1>4. QED
    BY <1>1, <1>2, <1>3 DEF Position!ProgressTrue

-----------------------------------------------------------------------------
(* The requests of a feed (HttpGate): a host without its dots, and the part   *)
(* of it that a domain of the allowlist covers.                               *)
LEMMA TrimmedIs ==
    ASSUME NEW S, NEW h \in Seq(S)
    PROVE  \E n \in 0..Len(h) : TrimmedHost(h) = SubSeq(h, 1, n) /\ \A i \in n + 1..Len(h) : h[i] = Dot
  <1> DEFINE DotsFrom(n) == \A i \in n + 1..Len(h) : h[i] = Dot
             T == {n \in 0..Len(h) : DotsFrom(n)}
  <1>1. Len(h) \in Nat
    OBVIOUS
  <1>2. Len(h) \in T
    BY <1>1
  <1>3. T \in SUBSET Nat /\ T # {}
    BY <1>1, <1>2
  <1> HIDE DEF T
  <1>4. PICK n \in T : \A m \in T : n <= m
    BY <1>3, LeastNat
  <1>5. n \in 0..Len(h) /\ DotsFrom(n)
    BY <1>4 DEF T
  <1>6. ASSUME n > 0
        PROVE  h[n] # Dot
    <2> SUFFICES ASSUME h[n] = Dot
                 PROVE  FALSE
      OBVIOUS
    <2>1. n - 1 \in 0..Len(h)
      BY <1>1, <1>5, <1>6
    <2>2. DotsFrom(n - 1)
      <3> SUFFICES ASSUME NEW i \in n..Len(h)
                   PROVE  h[i] = Dot
        BY <1>5
      <3>1. i = n \/ i \in n + 1..Len(h)
        BY <1>1, <1>5
      <3>2. QED
        BY <1>5, <3>1
    <2>3. n - 1 \in T
      BY <2>1, <2>2 DEF T
    <2>4. n <= n - 1
      BY <1>4, <2>3
    <2>5. QED
      BY <1>5, <2>4
  <1>7. PICK k : k = CHOOSE m \in 0..Len(h) : (\A i \in m + 1..Len(h) : h[i] = Dot) /\ (m > 0 => h[m] # Dot)
    OBVIOUS
  <1>8. k \in 0..Len(h) /\ \A i \in k + 1..Len(h) : h[i] = Dot
    BY <1>5, <1>6, <1>7
  <1>9. TrimmedHost(h) = SubSeq(h, 1, k)
    BY <1>7 DEF TrimmedHost
  <1>10. QED
    BY <1>8, <1>9

LEMMA SubSeqIs ==
    ASSUME NEW S, NEW s \in Seq(S), NEW m \in 0..Len(s), NEW n \in 0..Len(s), m <= n,
           NEW w, w = SubSeq(s, m + 1, n)
    PROVE  w \in Seq(S) /\ Len(w) = n - m /\ \A i \in 1..n - m : w[i] = s[m + i]
  OBVIOUS

LEMMA ConcatIs ==
    ASSUME NEW S, NEW a \in Seq(S), NEW b \in Seq(S), NEW s, s = a \o b
    PROVE  /\ s \in Seq(S) /\ Len(s) = Len(a) + Len(b) /\ Len(a) \in Nat /\ Len(b) \in Nat
           /\ \A i \in 1..Len(a) : s[i] = a[i]
           /\ \A i \in 1..Len(b) : s[Len(a) + i] = b[i]
  OBVIOUS

LEMMA ThreeAre ==
    ASSUME NEW S, NEW a \in Seq(S), NEW b \in Seq(S), NEW c \in Seq(S), NEW h \in Seq(S),
           Len(h) = Len(a) + Len(b) + Len(c),
           \A i \in 1..Len(a) : a[i] = h[i],
           \A i \in 1..Len(b) : b[i] = h[Len(a) + i],
           \A i \in 1..Len(c) : c[i] = h[Len(a) + Len(b) + i]
    PROVE  h = a \o b \o c
  <1>1. PICK d : d = a \o b
    OBVIOUS
  <1>2. /\ d \in Seq(S) /\ Len(d) = Len(a) + Len(b) /\ Len(a) \in Nat /\ Len(b) \in Nat
        /\ \A i \in 1..Len(a) : d[i] = a[i]
        /\ \A i \in 1..Len(b) : d[Len(a) + i] = b[i]
    BY <1>1, ConcatIs
  <1>3. PICK s : s = d \o c
    OBVIOUS
  <1>4. /\ s \in Seq(S) /\ Len(s) = Len(d) + Len(c) /\ Len(c) \in Nat
        /\ \A i \in 1..Len(d) : s[i] = d[i]
        /\ \A i \in 1..Len(c) : s[Len(d) + i] = c[i]
    <2>1. d \in Seq(S)
      BY <1>2
    <2>2. QED
      BY <1>3, <2>1, ConcatIs
  <1>5. ASSUME NEW i \in 1..Len(h)
        PROVE  s[i] = h[i]
    <2>1. CASE i \in 1..Len(a)
      <3>1. i \in 1..Len(d)
        BY <1>2, <2>1
      <3>2. QED
        BY <1>2, <1>4, <2>1, <3>1
    <2>2. CASE i \in Len(a) + 1..Len(a) + Len(b)
      <3>1. PICK j : j = i - Len(a)
        OBVIOUS
      <3>2. i \in 1..Len(d) /\ j \in 1..Len(b) /\ i = Len(a) + j
        BY <1>2, <2>2, <3>1
      <3>3. QED
        BY <1>2, <1>4, <3>2
    <2>3. CASE i \in Len(a) + Len(b) + 1..Len(h)
      <3>1. PICK j : j = i - (Len(a) + Len(b))
        OBVIOUS
      <3>2. j \in 1..Len(c) /\ i = Len(a) + Len(b) + j /\ i = Len(d) + j
        BY <1>2, <1>4, <2>3, <3>1
      <3>3. QED
        BY <1>4, <3>2
    <2>4. QED
      BY <1>2, <1>4, <2>1, <2>2, <2>3
  <1>6. PICK n : n = Len(h)
    OBVIOUS
  <1>7. s \in [1..n -> S] /\ h \in [1..n -> S]
    BY <1>2, <1>4, <1>6
  <1>8. s = h
    BY <1>5, <1>6, <1>7, SameSequence
  <1>9. QED
    BY <1>1, <1>3, <1>8

LEMMA WordIs ==
    ASSUME NEW S, NEW h \in Seq(S), NEW m \in 0..Len(h), NEW n \in 0..Len(h), m <= n
    PROVE  \E w \in Words(h) : w \in Seq(S) /\ Len(w) = n - m /\ \A i \in 1..n - m : w[i] = h[m + i]
  <1>1. m + 1 \in 1..Len(h) + 1
    OBVIOUS
  <1>2. PICK w : w = SubSeq(h, m + 1, n)
    OBVIOUS
  <1>3. w \in Words(h)
    <2>1. \E i \in 1..Len(h) + 1, j \in 0..Len(h) : w = SubSeq(h, i, j)
      <3>1. m + 1 \in 1..Len(h) + 1 /\ n \in 0..Len(h)
        OBVIOUS
      <3>2. QED
        BY <1>2, <3>1, Zenon
    <2>2. QED
      BY <2>1 DEF Words
  <1>4. w \in Seq(S) /\ Len(w) = n - m /\ \A i \in 1..n - m : w[i] = h[m + i]
    BY <1>2, SubSeqIs
  <1>5. QED
    BY <1>3, <1>4

LEMMA CoversIs ==
    ASSUME NEW e, NEW h, NEW label \in Words(h), NEW dots \in Words(h), Range(dots) \subseteq {Dot},
           NEW front, e.wild => front = label \o <<Dot>>, ~e.wild => front = <<>>, h = front \o e.name \o dots
    PROVE  Covers(e, h)
  <1>1. front = IF e.wild THEN label \o <<Dot>> ELSE <<>>
    OBVIOUS
  <1>2. h = (IF e.wild THEN label \o <<Dot>> ELSE <<>>) \o e.name \o dots
    BY <1>1
  <1>3. QED
    BY <1>2, Zenon DEF Covers

\* What the gate lets through is covered by a domain, as the reference defines it.
LEMMA AllowedCovers ==
    ASSUME NEW h \in Host, Allowed(h)
    PROVE  \E e \in AccessDomains : Covers(e, h)
  <1>1. h \in Seq(Letter) /\ Len(h) \in Nat /\ Dot \in Letter
    BY NamesAre
  <1>2. PICK n \in 0..Len(h) : TrimmedHost(h) = SubSeq(h, 1, n) /\ \A i \in n + 1..Len(h) : h[i] = Dot
    BY <1>1, TrimmedIs
  <1>3. PICK t : t = TrimmedHost(h)
    OBVIOUS
  <1>4. t \in Seq(Letter) /\ Len(t) = n /\ \A i \in 1..n : t[i] = h[i]
    BY <1>1, <1>2, <1>3
  <1>5. PICK e \in AccessDomains : IF e.wild THEN /\ Len(t) > Len(e.name) /\ EndsWith(t, e.name)
                                                  /\ t[Len(t) - Len(e.name)] = Dot
                                   ELSE t = e.name
    BY <1>3 DEF Allowed
  <1>6. PICK name : name = e.name
    OBVIOUS
  <1>7. name \in Seq(Letter) /\ Len(name) \in Nat
    <2>1. e.name \in Seq(Letter)
      BY NamesAre
    <2>2. name \in Seq(Letter)
      BY <1>6, <2>1
    <2>3. QED
      BY <2>2
  <1>8. PICK dots \in Words(h) :
          dots \in Seq(Letter) /\ Len(dots) = Len(h) - n /\ \A i \in 1..Len(h) - n : dots[i] = h[n + i]
    <2>1. PICK l : l = Len(h)
      OBVIOUS
    <2>2. n \in 0..Len(h) /\ l \in 0..Len(h) /\ n <= l
      BY <1>1, <2>1
    <2>3. h \in Seq(Letter)
      BY <1>1
    <2>4. \E w \in Words(h) : w \in Seq(Letter) /\ Len(w) = l - n /\ \A i \in 1..l - n : w[i] = h[n + i]
      BY <2>2, <2>3, WordIs
    <2>5. PICK dots \in Words(h) :
            dots \in Seq(Letter) /\ Len(dots) = l - n /\ \A i \in 1..l - n : dots[i] = h[n + i]
      BY <2>4, Zenon
    <2>6. QED
      BY <2>1, <2>5
  <1>9. Range(dots) \subseteq {Dot}
    <2>1. ASSUME NEW i \in DOMAIN dots
          PROVE  dots[i] = Dot
      <3>1. i \in 1..Len(h) - n /\ n + i \in n + 1..Len(h)
        BY <1>1, <1>8
      <3>2. QED
        BY <1>2, <1>8, <3>1
    <2>2. QED
      BY <2>1 DEF Range
  <1>10. CASE ~e.wild
    <2>1. name = t
      BY <1>5, <1>6, <1>10
    <2>2. PICK none \in Words(h) : none \in Seq(Letter) /\ Len(none) = 0 - 0
      <3>1. 0 \in 0..Len(h) /\ 0 <= 0
        BY <1>1
      <3>2. QED
        BY <1>1, <3>1, WordIs
    <2>3. none \in Seq(Letter) /\ Len(none) = 0 /\ none \in Words(h) /\ none = <<>>
      BY <2>2
    <2>4. /\ Len(name) = n /\ Len(h) = Len(none) + Len(name) + Len(dots)
          /\ \A i \in 1..Len(none) : none[i] = h[i]
          /\ \A i \in 1..Len(name) : name[i] = h[Len(none) + i]
          /\ \A i \in 1..Len(dots) : dots[i] = h[Len(none) + Len(name) + i]
      <3>1. Len(name) = n /\ Len(none) + Len(name) = n /\ Len(none) + Len(name) + Len(dots) = Len(h)
        <4>1. Len(name) = n /\ Len(none) = 0 /\ Len(dots) = Len(h) - n
          BY <1>4, <1>8, <2>1, <2>3
        <4>2. QED
          BY <1>1, <4>1
      <3>2. \A i \in 1..Len(none) : none[i] = h[i]
        BY <2>3
      <3>3. \A i \in 1..Len(name) : name[i] = h[Len(none) + i]
        <4>1. \A i \in 1..n : name[i] = h[i] /\ Len(none) + i = i
          BY <1>4, <2>1, <2>3
        <4>2. QED
          BY <3>1, <4>1
      <3>4. \A i \in 1..Len(dots) : dots[i] = h[Len(none) + Len(name) + i]
        BY <1>8, <3>1
      <3>5. QED
        BY <3>1, <3>2, <3>3, <3>4
    <2>5. h = none \o name \o dots
      <3>1. none \in Seq(Letter) /\ name \in Seq(Letter) /\ dots \in Seq(Letter) /\ h \in Seq(Letter)
        BY <1>1, <1>7, <1>8, <2>3
      <3>2. QED
        BY <2>4, <3>1, ThreeAre
    <2>7. Covers(e, h)
      BY <1>6, <1>8, <1>9, <1>10, <2>2, <2>3, <2>5, CoversIs
    <2>8. QED
      BY <2>7
  <1>11. CASE e.wild
    <2>1. n > Len(name) /\ EndsWith(t, name) /\ t[n - Len(name)] = Dot
      BY <1>4, <1>5, <1>6, <1>11
    <2>2. PICK g : g = n - Len(name)
      OBVIOUS
    <2>3. g \in 1..n /\ n = g + Len(name) /\ t[g] = Dot /\ h[g] = Dot
      <3>1. PICK z : z = Len(name)
        OBVIOUS
      <3>2. n \in Nat /\ z \in Nat /\ n > z /\ g = n - z
        BY <1>1, <1>7, <2>1, <2>2, <3>1
      <3>3. g \in 1..n /\ n = g + z
        BY <3>2
      <3>4. t[g] = Dot
        BY <2>1, <2>2
      <3>5. h[g] = t[g]
        BY <1>4, <3>3
      <3>6. QED
        BY <3>1, <3>3, <3>4, <3>5
    <2>4. name = SubSeq(t, g + 1, n)
      BY <1>4, <2>1, <2>2 DEF EndsWith
    <2>5. \A i \in 1..Len(name) : name[i] = h[g + i]
      <3>1. \A i \in 1..Len(name) : name[i] = t[g + i]
        <4>1. CASE Len(name) = 0
          BY <4>1
        <4>2. CASE Len(name) > 0
          <5>1. g \in 0..Len(t) /\ n \in 0..Len(t) /\ g < n /\ n - g = Len(name)
            BY <1>4, <1>7, <2>3, <4>2
          <5>2. QED
            BY <1>4, <2>4, <5>1, SubSeqIs
        <4>3. QED
          BY <1>7, <4>1, <4>2
      <3>2. QED
        BY <1>4, <1>7, <2>3, <3>1
    <2>6. PICK label \in Words(h) :
            label \in Seq(Letter) /\ Len(label) = g - 1 /\ \A i \in 1..g - 1 : label[i] = h[i]
      <3>1. PICK z : z = 0
        OBVIOUS
      <3>2. z \in 0..Len(h) /\ g - 1 \in 0..Len(h) /\ z <= g - 1 /\ (g - 1) - z = g - 1 /\ \A i \in 1..g - 1 : z + i = i
        BY <1>1, <1>2, <2>3, <3>1
      <3>3. PICK label \in Words(h) : label \in Seq(Letter) /\ Len(label) = (g - 1) - z
                                      /\ \A i \in 1..(g - 1) - z : label[i] = h[z + i]
        <4>1. z \in 0..Len(h) /\ g - 1 \in 0..Len(h) /\ z <= g - 1 /\ h \in Seq(Letter)
          BY <1>1, <3>2
        <4>2. PICK label \in Words(h) : label \in Seq(Letter) /\ Len(label) = (g - 1) - z
                                        /\ \A i \in 1..(g - 1) - z : label[i] = h[z + i]
          <5>1. PICK y : y = g - 1
            OBVIOUS
          <5>2. y \in 0..Len(h) /\ z <= y
            BY <4>1, <5>1
          <5>3. PICK label \in Words(h) : label \in Seq(Letter) /\ Len(label) = y - z
                                          /\ \A i \in 1..y - z : label[i] = h[z + i]
            BY <4>1, <5>2, WordIs
          <5>4. QED
            BY <5>1, <5>3
        <4>3. QED
          BY <4>2
      <3>4. QED
        BY <3>2, <3>3
    <2>7. PICK front : front = label \o <<Dot>>
      OBVIOUS
    <2>8. front \in Seq(Letter) /\ Len(front) = g /\ \A i \in 1..g : front[i] = h[i]
      <3>1. <<Dot>> \in Seq(Letter) /\ Len(<<Dot>>) = 1 /\ <<Dot>>[1] = Dot
        BY <1>1
      <3>2. front \in Seq(Letter) /\ Len(front) = g
        BY <2>3, <2>6, <2>7, <3>1
      <3>3. ASSUME NEW i \in 1..g
            PROVE  front[i] = h[i]
        <4>1. CASE i = g
          BY <2>3, <2>6, <2>7, <3>1, <4>1
        <4>2. CASE i \in 1..g - 1
          BY <2>3, <2>6, <2>7, <3>1, <4>2
        <4>3. QED
          BY <2>3, <4>1, <4>2
      <3>4. QED
        BY <3>2, <3>3
    <2>9. /\ Len(h) = Len(front) + Len(name) + Len(dots)
          /\ \A i \in 1..Len(front) : front[i] = h[i]
          /\ \A i \in 1..Len(name) : name[i] = h[Len(front) + i]
          /\ \A i \in 1..Len(dots) : dots[i] = h[Len(front) + Len(name) + i]
      BY <1>1, <1>2, <1>7, <1>8, <2>3, <2>5, <2>8
    <2>10. h = front \o name \o dots
      BY <1>1, <1>7, <1>8, <2>8, <2>9, ThreeAre
    <2>11. Covers(e, h)
      BY <1>6, <1>8, <1>9, <1>11, <2>6, <2>7, <2>10, CoversIs
    <2>12. QED
      BY <2>11
  <1>12. QED
    BY <1>10, <1>11, NamesAre

-----------------------------------------------------------------------------
(* The trace of a run.                                                        *)
Outcome == {"response", "blocked", "bad_method", "send_error", "body_error", "too_large"}
Requests == [phase : {"idle", "sent", "reading"}, host : Host \cup {<<>>}, hops : 0..MaxRedirects, body : 0..Cap]
TraceEntry == [outcome : Outcome, size : Nat, preview : Nat]
GateTypes == /\ requests \in [Task -> Requests] /\ results \in [Task -> Seq(Outcome)]
             /\ entries \in Seq(TraceEntry) /\ dropped \in Nat /\ budget \in Nat
             /\ contacted \subseteq Host /\ \A h \in contacted : Allowed(h)

\* What the entries ex took of the budget, b being what is left of it.
Totals(ex, b) == \E total \in [0..Len(ex) -> 0..BodyBudget] :
         /\ total[0] = 0 /\ \A n \in DOMAIN ex : total[n] = total[n - 1] + ex[n].preview
         /\ b >= 0 /\ total[Len(ex)] + b <= BodyBudget
\* The entries ex and the d requests past the limit are what rs has to tell of.
TellsOf(rs, ex, d) == /\ Len(ex) + d = Cardinality(Traced(rs))
                      /\ \A n \in Traced(rs) : Rank(rs, n) <= Len(ex) => ex[Rank(rs, n)].outcome = rs[n]
AtLimit(ex, d) == Len(ex) <= EntryLimit /\ (d > 0 => Len(ex) = EntryLimit)
GateInv == /\ GateTypes /\ Totals(entries, budget) /\ AtLimit(entries, dropped)
           /\ \A t \in Scoped : TellsOf(results[t], entries, dropped)
           /\ Scoped = {} => entries = <<>> /\ dropped = 0

LEMMA LimitsAre == /\ MaxRedirects \in Nat /\ Cap \in Nat /\ EntryLimit \in Nat /\ BodyBudget \in Nat
                   /\ PreviewCap \in Nat
  BY GateAssumption

LEMMA GateInvInit == GateInit => GateInv
  <1> SUFFICES ASSUME GateInit
               PROVE  GateInv
    OBVIOUS
  <1>1. /\ requests = [t \in Task |-> Idle] /\ contacted = {} /\ results = [t \in Task |-> <<>>]
        /\ entries = <<>> /\ dropped = 0 /\ budget = BodyBudget
    BY DEF GateInit
  <1>2. Idle \in Requests
    BY LimitsAre DEF Idle, Requests
  <1>3. GateTypes
    <2>1. <<>> \in Seq(Outcome) /\ <<>> \in Seq(TraceEntry)
      OBVIOUS
    <2>2. QED
      BY <1>1, <1>2, <2>1, LimitsAre DEF GateTypes
  <1>4. PICK ex : ex = <<>>
    OBVIOUS
  <1>5. Len(ex) = 0 /\ DOMAIN ex = {}
    BY <1>4
  <1>6. Totals(ex, BodyBudget)
    <2>1. PICK total : total = [n \in 0..0 |-> 0]
      OBVIOUS
    <2>2. total \in [0..0 -> 0..BodyBudget] /\ total[0] = 0
      BY <2>1, LimitsAre
    <2>3. QED
      BY <1>5, <2>2, LimitsAre DEF Totals
  <1>7. AtLimit(ex, 0)
    BY <1>5, LimitsAre DEF AtLimit
  <1>8. \A t \in Scoped : TellsOf(results[t], ex, 0)
    <2>1. \A t \in Scoped : results[t] = ex
      BY <1>1, <1>4, OneScope
    <2>2. Traced(ex) = {}
      BY <1>5 DEF Traced
    <2>3. Cardinality(Traced(ex)) = 0
      BY <2>2, FS_EmptySet
    <2>4. TellsOf(ex, ex, 0)
      BY <1>5, <2>2, <2>3 DEF TellsOf
    <2>5. QED
      BY <2>1, <2>4
  <1>9. QED
    BY <1>1, <1>3, <1>4, <1>6, <1>7, <1>8 DEF GateInv

Silent == {"too_large", "bad_method"}
LEMMA TracedFinite ==
    ASSUME NEW rs \in Seq(Outcome)
    PROVE  IsFiniteSet(Traced(rs)) /\ Traced(rs) \subseteq 1..Len(rs) /\ Len(rs) \in Nat
  <1>1. Len(rs) \in Nat /\ Traced(rs) \subseteq 1..Len(rs)
    BY DEF Traced
  <1>2. IsFiniteSet(1..Len(rs))
    BY <1>1, FS_Interval
  <1>3. QED
    BY <1>1, <1>2, FS_Subset

LEMMA RankIs ==
    ASSUME NEW rs \in Seq(Outcome), NEW n \in Traced(rs)
    PROVE  Rank(rs, n) \in Nat /\ 1 <= Rank(rs, n) /\ Rank(rs, n) <= Cardinality(Traced(rs))
  <1> DEFINE upto == {m \in Traced(rs) : m <= n}
  <1>1. IsFiniteSet(Traced(rs)) /\ n \in Nat
    BY TracedFinite
  <1>2. upto \subseteq Traced(rs) /\ n \in upto
    BY <1>1
  <1>3. IsFiniteSet(upto) /\ Cardinality(upto) \in Nat /\ Cardinality(upto) <= Cardinality(Traced(rs))
    BY <1>1, <1>2, FS_Subset, FS_CardinalityType
  <1>4. Cardinality(upto) # 0
    BY <1>2, <1>3, FS_EmptySet
  <1>5. QED
    BY <1>3, <1>4 DEF Rank

\* One more result: the ranks of the others stay as they are.
Adds(rs, o, as, k) == rs \in Seq(Outcome) /\ o \in Outcome /\ as = Append(rs, o) /\ k = Len(rs) + 1
Grown(rs, o, as, k) ==
    /\ \A n \in Traced(rs) : n \in Traced(as) /\ as[n] = rs[n] /\ Rank(as, n) = Rank(rs, n)
    /\ o \in Silent => Traced(as) = Traced(rs)
    /\ o \notin Silent => /\ Traced(as) = Traced(rs) \cup {k} /\ as[k] = o
                          /\ Cardinality(Traced(as)) = Cardinality(Traced(rs)) + 1
                          /\ Rank(as, k) = Cardinality(Traced(rs)) + 1
LEMMA TracedGrows ==
    ASSUME NEW rs, NEW o, NEW as, NEW k, Adds(rs, o, as, k)
    PROVE  Grown(rs, o, as, k)
  <1>0. rs \in Seq(Outcome)
    BY DEF Adds
  <1>1. PICK l \in Nat : /\ DOMAIN rs = 1..l /\ DOMAIN as = 1..k /\ as[k] = o /\ k = l + 1
                         /\ \A i \in 1..l : as[i] = rs[i]
    <2>1. as \in Seq(Outcome) /\ Len(as) = k /\ as[k] = o /\ Len(rs) \in Nat /\ \A i \in 1..Len(rs) : as[i] = rs[i]
      BY DEF Adds
    <2>2. DOMAIN rs = 1..Len(rs) /\ DOMAIN as = 1..k /\ k = Len(rs) + 1
      BY <1>0, <2>1 DEF Adds
    <2>3. QED
      BY <2>1, <2>2
  <1>2. \A n : n \in Traced(rs) <=> n \in 1..l /\ rs[n] \notin Silent
    BY <1>1 DEF Traced, Silent
  <1>3. \A n : n \in Traced(as) <=> n \in 1..k /\ as[n] \notin Silent
    BY <1>1 DEF Traced, Silent
  <1>4. \A n : n \in Traced(as) <=> n \in Traced(rs) \/ (n = k /\ o \notin Silent)
    <2>1. \A n : n \in 1..k <=> n \in 1..l \/ n = k
      BY <1>1
    <2>2. QED
      BY <1>1, <1>2, <1>3, <2>1
  <1>5. ASSUME NEW n \in Traced(rs)
        PROVE  n \in Traced(as) /\ as[n] = rs[n] /\ Rank(as, n) = Rank(rs, n)
    <2>1. n \in 1..l /\ n \in Traced(as)
      BY <1>2, <1>4
    <2>2. {m \in Traced(as) : m <= n} = {m \in Traced(rs) : m <= n}
      <3>1. ASSUME NEW m
            PROVE  m \in Traced(as) /\ m <= n <=> m \in Traced(rs) /\ m <= n
        <4>1. m = k => ~(m <= n)
          BY <1>1, <2>1
        <4>2. QED
          BY <1>4, <4>1
      <3>2. QED
        BY <3>1
    <2>3. QED
      BY <1>1, <2>1, <2>2 DEF Rank
  <1>6. ASSUME o \in Silent
        PROVE  Traced(as) = Traced(rs)
    BY <1>4, <1>6
  <1>7. ASSUME o \notin Silent
        PROVE  /\ Traced(as) = Traced(rs) \cup {k} /\ as[k] = o
               /\ Cardinality(Traced(as)) = Cardinality(Traced(rs)) + 1
               /\ Rank(as, k) = Cardinality(Traced(rs)) + 1
    <2>1. Traced(as) = Traced(rs) \cup {k}
      BY <1>4, <1>7
    <2>2. IsFiniteSet(Traced(rs)) /\ k \notin Traced(rs)
      BY <1>0, <1>1, <1>2, TracedFinite
    <2>3. Cardinality(Traced(as)) = Cardinality(Traced(rs)) + 1
      BY <2>1, <2>2, FS_AddElement
    <2>4. {m \in Traced(as) : m <= k} = Traced(as)
      <3>1. ASSUME NEW m \in Traced(as)
            PROVE  m <= k
        <4>1. m \in 1..k
          BY <1>3
        <4>2. QED
          BY <1>1, <4>1
      <3>2. QED
        BY <3>1
    <2>5. QED
      BY <1>1, <2>1, <2>3, <2>4 DEF Rank
  <1>8. QED
    BY <1>5, <1>6, <1>7 DEF Grown

LEMMA GateInvNext ==
    ASSUME GateTypes', Totals(entries', budget'), AtLimit(entries', dropped'),
           \A s \in Scoped : TellsOf(results'[s], entries', dropped'),
           Scoped = {} => entries' = <<>> /\ dropped' = 0
    PROVE  GateInv'
  <1>1. Totals(entries, budget)' /\ AtLimit(entries, dropped)'
    BY DEF Totals, AtLimit
  <1>2. (\A s \in Scoped : TellsOf(results[s], entries, dropped))'
    BY DEF TellsOf, Traced, Rank
  <1>3. QED
    BY <1>1, <1>2 DEF GateInv

LEMMA TraceStays ==
    ASSUME GateInv, GateTypes', UNCHANGED <<results, entries, dropped, budget>>
    PROVE  GateInv'
  <1>1. Totals(entries', budget') /\ AtLimit(entries', dropped') /\ (Scoped = {} => entries' = <<>> /\ dropped' = 0)
    BY DEF GateInv
  <1>2. \A s \in Scoped : TellsOf(results'[s], entries', dropped')
    BY DEF GateInv
  <1>3. QED
    BY <1>1, <1>2, GateInvNext

\* A step that ends no request.
LEMMA GoesOn ==
    ASSUME GateInv, NEW t \in Task, NEW q \in Requests, requests' = [requests EXCEPT ![t] = q],
           Unrecorded, UNCHANGED results, contacted' \subseteq Host, \A h \in contacted' : Allowed(h)
    PROVE  GateInv'
  <1>1. UNCHANGED <<results, entries, dropped, budget>>
    BY DEF Unrecorded
  <1>2. \A h : Allowed(h)' <=> Allowed(h)
    BY DEF Allowed, TrimmedHost, EndsWith, Dot
  <1>3. GateTypes'
    <2>1. requests' \in [Task -> Requests]
      BY DEF GateInv, GateTypes
    <2>2. QED
      BY <1>1, <1>2, <2>1 DEF GateInv, GateTypes
  <1>4. QED
    BY <1>1, <1>3, TraceStays

\* An entry is recorded within the limit.
LEMMA RecordTotals ==
    ASSUME GateInv, NEW e \in TraceEntry, Record(e)
    PROVE  /\ entries' \in Seq(TraceEntry) /\ budget' \in Nat /\ Totals(entries', budget')
           /\ Len(entries') = Len(entries) + 1 /\ entries'[Len(entries) + 1].outcome = e.outcome
           /\ \A i \in 1..Len(entries) : entries'[i] = entries[i]
  <1>1. entries \in Seq(TraceEntry) /\ budget \in Nat /\ Len(entries) \in Nat
    BY DEF GateInv, GateTypes
  <1>2. PICK kept \in CutTo(e.preview) : entries' = Append(entries, [e EXCEPT !.preview = kept])
    BY DEF Record
  <1>3. e.preview \in Nat
    BY DEF TraceEntry
  <1>4. kept \in Nat /\ kept <= budget /\ (e.preview <= budget => kept = e.preview)
    BY <1>1, <1>2, <1>3 DEF CutTo
  <1>5. budget' \in Nat /\ kept + budget' <= budget
    BY <1>1, <1>3, <1>4 DEF Record
  <1>6. PICK d : d = [e EXCEPT !.preview = kept]
    OBVIOUS
  <1>7. d \in TraceEntry /\ d.preview = kept /\ d.outcome = e.outcome
    BY <1>4, <1>6 DEF TraceEntry
  <1>8. entries' = Append(entries, d)
    BY <1>2, <1>6
  <1>9. /\ entries' \in Seq(TraceEntry) /\ Len(entries') = Len(entries) + 1 /\ entries'[Len(entries) + 1] = d
        /\ \A i \in 1..Len(entries) : entries'[i] = entries[i]
    BY <1>1, <1>7, <1>8
  <1>10. PICK total \in [0..Len(entries) -> 0..BodyBudget] :
           /\ total[0] = 0 /\ \A n \in DOMAIN entries : total[n] = total[n - 1] + entries[n].preview
           /\ total[Len(entries)] + budget <= BodyBudget
    BY DEF GateInv, Totals
  <1>11. PICK l : l = Len(entries)
    OBVIOUS
  <1>12. PICK more : more = [n \in 0..l + 1 |-> IF n = l + 1 THEN total[l] + kept ELSE total[n]]
    OBVIOUS
  <1>13. total[l] \in Nat /\ total[l] + kept + budget' <= BodyBudget
    <2>1. l \in 0..Len(entries)
      BY <1>1, <1>11
    <2>2. total[l] \in 0..BodyBudget /\ total[l] + budget <= BodyBudget
      BY <1>10, <1>11, <2>1
    <2>3. QED
      BY <1>1, <1>4, <1>5, <2>2, LimitsAre
  <1>14. more \in [0..l + 1 -> 0..BodyBudget]
    <2>1. total[l] + kept \in 0..BodyBudget
      BY <1>4, <1>5, <1>13, LimitsAre
    <2>2. \A n \in 0..l : total[n] \in 0..BodyBudget
      BY <1>10, <1>11
    <2>3. QED
      BY <1>1, <1>11, <1>12, <2>1, <2>2
  <1>15. more[0] = 0 /\ more[l + 1] = total[l] + kept /\ \A n \in 0..l : more[n] = total[n]
    BY <1>1, <1>10, <1>11, <1>12
  <1>16. ASSUME NEW n \in DOMAIN entries'
         PROVE  more[n] = more[n - 1] + entries'[n].preview
    <2>1. n \in 1..l + 1
      BY <1>9, <1>11
    <2>2. CASE n = l + 1
      BY <1>1, <1>7, <1>9, <1>11, <1>15, <2>2
    <2>3. CASE n \in 1..l
      <3>1. n \in DOMAIN entries /\ n - 1 \in 0..l /\ n \in 0..l
        BY <1>1, <1>11, <2>3
      <3>2. QED
        BY <1>9, <1>10, <1>11, <1>15, <2>3, <3>1
    <2>4. QED
      BY <1>1, <1>11, <2>1, <2>2, <2>3
  <1>17. Totals(entries', budget')
    <2>1. Len(entries') = l + 1
      BY <1>9, <1>11
    <2>2. budget' >= 0 /\ more[Len(entries')] + budget' <= BodyBudget
      BY <1>5, <1>13, <1>15, <2>1
    <2>3. more \in [0..Len(entries') -> 0..BodyBudget]
      BY <1>14, <2>1
    <2>4. QED
      BY <1>15, <1>16, <2>2, <2>3 DEF Totals
  <1>18. QED
    BY <1>5, <1>7, <1>9, <1>17

\* A request ends: the trace tells of it, or it is none the trace tells of.
LEMMA RequestEndsKeeps ==
    ASSUME GateInv, NEW t \in Task, NEW o \in Outcome, NEW size \in Nat, NEW preview \in Nat,
           Ends(t, o, size, preview), UNCHANGED contacted
    PROVE  GateInv'
  <1>1. /\ requests \in [Task -> Requests] /\ results \in [Task -> Seq(Outcome)] /\ contacted \subseteq Host
        /\ entries \in Seq(TraceEntry) /\ dropped \in Nat /\ budget \in Nat /\ Len(entries) \in Nat
        /\ \A h \in contacted : Allowed(h)
    BY DEF GateInv, GateTypes
  <1>0. Len(entries) \in Nat /\ dropped \in Nat
    BY <1>1
  <1>2. requests' \in [Task -> Requests]
    <2>1. Idle \in Requests
      BY LimitsAre DEF Idle, Requests
    <2>2. QED
      BY <1>1, <2>1 DEF Ends
  <1>3. PICK as : as = Append(results[t], o)
    OBVIOUS
  <1>4. as \in Seq(Outcome) /\ results' = [results EXCEPT ![t] = as]
    BY <1>1, <1>3 DEF Ends
  <1>5. results' \in [Task -> Seq(Outcome)] /\ results'[t] = as
    BY <1>1, <1>4
  <1>6. \A h \in contacted' : h \in Host /\ Allowed(h)'
    <2>1. \A h : Allowed(h)' <=> Allowed(h)
      BY DEF Allowed, TrimmedHost, EndsWith, Dot
    <2>2. QED
      BY <1>1, <2>1
  <1>7. CASE t \notin Scoped \/ o \in Silent
    <2>1. UNCHANGED <<entries, dropped, budget>>
      BY <1>7 DEF Ends, Unrecorded, Silent
    <2>2. GateTypes'
      BY <1>1, <1>2, <1>5, <1>6, <2>1 DEF GateTypes
    <2>3. ASSUME NEW s \in Scoped
          PROVE  TellsOf(results'[s], entries, dropped)
      <3>1. TellsOf(results[s], entries, dropped) /\ s \in Task
        BY OneScope DEF GateInv
      <3>2. CASE s # t
        BY <1>1, <1>4, <3>1, <3>2
      <3>3. CASE s = t
        <4>1. /\ Traced(as) = Traced(results[t])
              /\ \A n \in Traced(results[t]) : as[n] = results[t][n] /\ Rank(as, n) = Rank(results[t], n)
          <5>1. PICK rs : rs = results[t]
            OBVIOUS
          <5>2. PICK k : Adds(rs, o, as, k)
            BY <1>1, <1>3, <5>1 DEF Adds
          <5>3. Traced(as) = Traced(rs) /\ \A n \in Traced(rs) : as[n] = rs[n] /\ Rank(as, n) = Rank(rs, n)
            <6>1. Grown(rs, o, as, k) /\ o \in Silent
              BY <1>7, <3>3, <5>2, TracedGrows
            <6>2. QED
              BY <6>1 DEF Grown
          <5>4. QED
            BY <5>1, <5>3
        <4>2. QED
          BY <1>5, <3>1, <3>3, <4>1 DEF TellsOf
      <3>4. QED
        BY <3>2, <3>3
    <2>4. QED
      BY <2>1, <2>2, <2>3 DEF GateInv, Totals, AtLimit, TellsOf, Traced, Rank
  <1>8. CASE t \in Scoped /\ o \notin Silent
    <2>1. PICK e : e = [outcome |-> o, size |-> size, preview |-> preview]
      OBVIOUS
    <2>2. Push(e) /\ e \in TraceEntry /\ e.outcome = o
      BY <1>8, <2>1 DEF Ends, Silent, TraceEntry
    <2>3. PICK rs : rs = results[t]
      OBVIOUS
    <2>4. rs \in Seq(Outcome) /\ TellsOf(rs, entries, dropped) /\ \E k : Adds(rs, o, as, k)
      BY <1>1, <1>3, <1>8, <2>3 DEF GateInv, Adds
    <2>0. PICK k : Adds(rs, o, as, k)
      BY <2>4
    <2>5. /\ Traced(as) = Traced(rs) \cup {k} /\ as[k] = o
          /\ Cardinality(Traced(as)) = Len(entries) + dropped + 1
          /\ Rank(as, k) = Len(entries) + dropped + 1
          /\ \A n \in Traced(rs) : as[n] = rs[n] /\ Rank(as, n) = Rank(rs, n) /\ Rank(as, n) \in Nat
                                   /\ 1 <= Rank(as, n) /\ Rank(as, n) <= Len(entries) + dropped
      <3>1. Cardinality(Traced(rs)) = Len(entries) + dropped
        BY <2>4 DEF TellsOf
      <3>2. \A n \in Traced(rs) : Rank(rs, n) \in Nat /\ 1 <= Rank(rs, n) /\ Rank(rs, n) <= Cardinality(Traced(rs))
        BY <2>4, RankIs
      <3>3. QED
        <4>1. o \notin Silent
          BY <1>8
        <4>2. /\ Traced(as) = Traced(rs) \cup {k} /\ as[k] = o
              /\ Cardinality(Traced(as)) = Cardinality(Traced(rs)) + 1
              /\ Rank(as, k) = Cardinality(Traced(rs)) + 1
              /\ \A n \in Traced(rs) : as[n] = rs[n] /\ Rank(as, n) = Rank(rs, n)
          <5>1. Grown(rs, o, as, k)
            BY <2>0, TracedGrows
          <5>2. QED
            BY <4>1, <5>1 DEF Grown
        <4>3. QED
          BY <3>1, <3>2, <4>2
    <2>6. \A s \in Scoped : s = t
      BY <1>8, OneScope
    <2>7. CASE Len(entries) >= EntryLimit
      <3>1. dropped' = dropped + 1 /\ UNCHANGED <<entries, budget>>
        BY <2>2, <2>7 DEF Push
      <3>2. GateTypes'
        BY <1>1, <1>2, <1>5, <1>6, <3>1 DEF GateTypes
      <3>3. AtLimit(entries, dropped + 1)
        BY <1>1, <2>7, LimitsAre DEF GateInv, AtLimit
      <3>4. TellsOf(as, entries, dropped + 1)
        <4>1. Len(entries) + (dropped + 1) = Cardinality(Traced(as))
          BY <1>1, <2>5
        <4>2. ASSUME NEW n \in Traced(as), Rank(as, n) <= Len(entries)
              PROVE  entries[Rank(as, n)].outcome = as[n]
          <5>1. n # k
            <6> SUFFICES ASSUME n = k
                         PROVE  FALSE
              OBVIOUS
            <6>1. Rank(as, n) = Len(entries) + dropped + 1
              BY <2>5
            <6>2. QED
              BY <1>0, <4>2, <6>1
          <5>2. n \in Traced(rs)
            BY <2>5, <5>1
          <5>3. QED
            BY <2>4, <2>5, <4>2, <5>2 DEF TellsOf
        <4>3. QED
          BY <4>1, <4>2 DEF TellsOf
      <3>5. \A s \in Scoped : TellsOf(results'[s], entries', dropped')
        BY <1>5, <2>6, <3>1, <3>4
      <3>6. Totals(entries', budget') /\ AtLimit(entries', dropped')
        BY <3>1, <3>3 DEF GateInv
      <3>7. QED
        BY <1>8, <3>2, <3>5, <3>6, GateInvNext
    <2>8. CASE ~(Len(entries) >= EntryLimit)
      <3>1. Record(e) /\ dropped' = dropped
        BY <2>2, <2>8 DEF Push, Record
      <3>2. /\ entries' \in Seq(TraceEntry) /\ budget' \in Nat /\ Totals(entries', budget')
            /\ Len(entries') = Len(entries) + 1 /\ entries'[Len(entries) + 1].outcome = o
            /\ \A i \in 1..Len(entries) : entries'[i] = entries[i]
        BY <2>2, <3>1, RecordTotals
      <3>3. dropped = 0
        BY <1>1, <2>8, LimitsAre DEF GateInv, AtLimit
      <3>4. GateTypes'
        BY <1>1, <1>2, <1>5, <1>6, <3>1, <3>2 DEF GateTypes
      <3>5. AtLimit(entries', 0)
        BY <1>1, <2>8, <3>2, LimitsAre DEF AtLimit
      <3>6. TellsOf(as, entries', 0)
        <4>1. Len(entries') + 0 = Cardinality(Traced(as))
          BY <1>1, <2>5, <3>2, <3>3
        <4>2. ASSUME NEW n \in Traced(as)
              PROVE  entries'[Rank(as, n)].outcome = as[n]
          <5>1. CASE n = k
            <6>1. Rank(as, n) = Len(entries) + 1 /\ as[n] = o
              <7>1. Rank(as, k) = Len(entries) + dropped + 1 /\ as[k] = o
                BY <2>5
              <7>2. QED
                BY <1>0, <3>3, <5>1, <7>1
            <6>2. QED
              BY <3>2, <6>1
          <5>2. CASE n # k
            <6>1. n \in Traced(rs)
              BY <2>5, <5>2
            <6>2. Rank(as, n) \in 1..Len(entries) /\ Rank(as, n) = Rank(rs, n) /\ as[n] = rs[n]
              <7>1. /\ as[n] = rs[n] /\ Rank(as, n) = Rank(rs, n) /\ Rank(as, n) \in Nat
                    /\ 1 <= Rank(as, n) /\ Rank(as, n) <= Len(entries) + dropped
                BY <2>5, <6>1
              <7>2. QED
                BY <1>0, <3>3, <7>1
            <6>3. entries[Rank(rs, n)].outcome = rs[n]
              BY <1>1, <2>4, <6>1, <6>2 DEF TellsOf
            <6>4. QED
              BY <3>2, <6>2, <6>3
          <5>3. QED
            BY <5>1, <5>2
        <4>3. QED
          BY <4>1, <4>2 DEF TellsOf
      <3>7. \A s \in Scoped : TellsOf(results'[s], entries', dropped')
        BY <1>5, <2>6, <3>1, <3>3, <3>6
      <3>8. QED
        BY <1>8, <3>1, <3>2, <3>3, <3>4, <3>5, <3>7, GateInvNext
    <2>9. QED
      BY <2>7, <2>8
  <1>9. QED
    BY <1>7, <1>8

LEMMA GoesTo ==
    ASSUME GateInv, NEW t \in Task, NEW q, q \in Requests, requests' = [requests EXCEPT ![t] = q],
           Unrecorded, UNCHANGED results, contacted' = contacted
    PROVE  GateInv'
  BY GoesOn DEF GateInv, GateTypes

LEMMA SentKeeps ==
    ASSUME GateInv, NEW t \in Task, NEW h \in Host, Allowed(h), NEW hops \in 0..MaxRedirects, Sent(t, h, hops)
    PROVE  GateInv'
  <1>1. PICK q : q = [phase |-> "sent", host |-> h, hops |-> hops, body |-> 0]
    OBVIOUS
  <1>2. q \in Requests /\ requests' = [requests EXCEPT ![t] = q]
    BY <1>1, LimitsAre DEF Sent, Requests
  <1>3. contacted' = contacted \cup {h} /\ Unrecorded /\ UNCHANGED results
    BY DEF Sent
  <1>4. contacted' \subseteq Host /\ \A g \in contacted' : Allowed(g)
    BY <1>3 DEF GateInv, GateTypes
  <1>5. QED
    BY <1>2, <1>3, <1>4, GoesOn

LEMMA FailsKeeps ==
    ASSUME GateInv, NEW t \in Task, NEW o \in Outcome, Fails(t, o)
    PROVE  GateInv'
  <1>1. Ends(t, o, 0, 0) /\ UNCHANGED contacted
    BY DEF Fails
  <1>2. QED
    BY <1>1, RequestEndsKeeps

LEMMA OutcomesAre == {"response", "blocked", "bad_method", "send_error", "body_error", "too_large"} \subseteq Outcome
  BY DEF Outcome

LEMMA ReadingKeeps ==
    ASSUME GateInv, NEW t \in Task,
           \/ \E c \in ChunkSize \cup {0, Cap + 1} : Answered(t, c)
           \/ \E c \in ChunkSize : ReadChunk(t, c)
           \/ BodyEnds(t)
    PROVE  GateInv'
  <1>1. PICK r : r = requests[t]
    OBVIOUS
  <1>2. requests \in [Task -> Requests] /\ r \in Requests /\ r.body \in Nat /\ r.body <= Cap
    BY <1>1, LimitsAre DEF GateInv, GateTypes, Requests
  <1>3. ASSUME NEW c \in ChunkSize \cup {0, Cap + 1}, Answered(t, c)
        PROVE  GateInv'
    <2>1. CASE Fails(t, "too_large")
      BY <2>1, FailsKeeps, OutcomesAre
    <2>2. CASE /\ requests' = [requests EXCEPT ![t].phase = "reading"]
               /\ Unrecorded /\ UNCHANGED <<contacted, results>>
      <3>1. PICK q : q = [r EXCEPT !.phase = "reading"]
        OBVIOUS
      <3>2. q \in Requests /\ requests' = [requests EXCEPT ![t] = q]
        BY <1>1, <1>2, <2>2, <3>1 DEF Requests
      <3>3. QED
        BY <2>2, <3>2, GoesTo
    <2>3. QED
      BY <1>3, <2>1, <2>2 DEF Answered
  <1>4. ASSUME NEW c \in ChunkSize, ReadChunk(t, c)
        PROVE  GateInv'
    <2>1. CASE Fails(t, "too_large")
      BY <2>1, FailsKeeps, OutcomesAre
    <2>2. CASE /\ FitsCap(t, c) /\ requests' = [requests EXCEPT ![t].body = @ + c]
               /\ Unrecorded /\ UNCHANGED <<contacted, results>>
      <3>1. PICK b : b = r.body + c
        OBVIOUS
      <3>2. b \in 0..Cap
        BY <1>1, <1>2, <2>2, <3>1, GateAssumption DEF FitsCap
      <3>3. PICK q : q = [r EXCEPT !.body = b]
        OBVIOUS
      <3>4. q \in Requests
        BY <1>2, <3>2, <3>3 DEF Requests
      <3>5. requests' = [requests EXCEPT ![t] = q]
        BY <1>1, <1>2, <2>2, <3>1, <3>3
      <3>6. QED
        BY <2>2, <3>4, <3>5, GoesTo
    <2>3. QED
      BY <1>4, <2>1, <2>2 DEF ReadChunk
  <1>5. ASSUME BodyEnds(t)
        PROVE  GateInv'
    <2>1. PICK p \in Previews(r.body) : Ends(t, "response", r.body, p) /\ UNCHANGED contacted
      BY <1>1, <1>5 DEF BodyEnds
    <2>2. p \in Nat
      <3>1. PICK n : n = Min({r.body, PreviewCap})
        OBVIOUS
      <3>2. \E m \in {r.body, PreviewCap} : \A k \in {r.body, PreviewCap} : m <= k
        BY <1>2, LimitsAre
      <3>3. n \in Nat
        BY <1>2, <3>1, <3>2, LimitsAre DEF Min
      <3>4. p = n \/ p = 3 * n
        BY <3>1 DEF Previews
      <3>5. QED
        BY <3>3, <3>4
    <2>3. QED
      BY <1>2, <2>1, <2>2, RequestEndsKeeps, OutcomesAre
  <1>6. QED
    BY <1>3, <1>4, <1>5

LEMMA GateInvStep ==
    ASSUME GateInv, GateNext
    PROVE  GateInv'
  <1>1. PICK t \in Task :
            \/ \E h \in Host : Redirected(t, h) \/ \E parses \in BOOLEAN : Execute(t, h, parses)
            \/ \E c \in ChunkSize \cup {0, Cap + 1} : Answered(t, c)
            \/ \E c \in ChunkSize : ReadChunk(t, c)
            \/ SendFails(t) \/ BodyFails(t) \/ BodyEnds(t)
    BY DEF GateNext
  <1>2. ASSUME NEW h \in Host, Redirected(t, h)
        PROVE  GateInv'
    <2>1. PICK hop : hop = requests[t].hops + 1
      OBVIOUS
    <2>2. \/ Fails(t, "send_error") \/ Fails(t, "blocked")
          \/ (hop <= MaxRedirects /\ Allowed(h) /\ Sent(t, h, hop))
      BY <1>2, <2>1 DEF Redirected
    <2>3. hop \in Nat
      BY <2>1, LimitsAre DEF GateInv, GateTypes, Requests
    <2>4. QED
      BY <2>2, <2>3, FailsKeeps, OutcomesAre, SentKeeps, LimitsAre
  <1>3. ASSUME NEW h \in Host, NEW parses \in BOOLEAN, Execute(t, h, parses)
        PROVE  GateInv'
    <2>1. \/ Fails(t, "blocked") \/ Fails(t, "bad_method") \/ (Allowed(h) /\ Sent(t, h, 0))
      BY <1>3 DEF Execute
    <2>2. 0 \in 0..MaxRedirects
      BY LimitsAre
    <2>3. QED
      BY <2>1, <2>2, FailsKeeps, OutcomesAre, SentKeeps
  <1>4. CASE SendFails(t) \/ BodyFails(t)
    BY <1>4, FailsKeeps, OutcomesAre DEF SendFails, BodyFails
  <1>5. QED
    BY <1>1, <1>2, <1>3, <1>4, ReadingKeeps

LEMMA GateInvShows == GateInv => RequestsContained /\ TraceTrue
  <1> SUFFICES ASSUME GateInv
               PROVE  RequestsContained /\ TraceTrue
    OBVIOUS
  <1>1. \A h \in contacted : \E e \in AccessDomains : Covers(e, h)
    BY AllowedCovers DEF GateInv, GateTypes
  <1>2. \A t \in Task : requests[t].hops <= MaxRedirects /\ requests[t].body <= Cap
    BY LimitsAre DEF GateInv, GateTypes, Requests
  <1>3. TraceTrue
    BY DEF GateInv, Totals, AtLimit, TellsOf, TraceTrue
  <1>4. QED
    BY <1>1, <1>2, <1>3 DEF RequestsContained

LEMMA GateStays ==
    ASSUME GateInv, UNCHANGED gateVars
    PROVE  GateInv'
  <1>1. UNCHANGED <<requests, contacted, results, entries, dropped, budget>>
    BY DEF gateVars
  <1>2. \A h : Allowed(h)' <=> Allowed(h)
    BY DEF Allowed, TrimmedHost, EndsWith, Dot
  <1>3. GateTypes'
    BY <1>1, <1>2 DEF GateInv, GateTypes
  <1>4. QED
    BY <1>1, <1>3, TraceStays

LEMMA SearchStays ==
  ASSUME SearchInv, UNCHANGED screenVars
  PROVE  SearchInv'
  <1> USE DEF screenVars
  <1>1. SearchTypes'
    BY DEF SearchInv, SearchTypes, Screen!Run, Screen!Event
  <1>2. Screen!SpinnerDriven' /\ Screen!HandlesReleased'
    BY DEF SearchInv, Screen!SpinnerDriven, Screen!HandlesReleased, Screen!Spinning, Screen!Awaits, Screen!Run
  <1>3. ScreenMade' /\ LoaderMade'
    BY DEF SearchInv, ScreenMade, LoaderMade, Made, Upto
  <1>4. QED
    BY <1>1, <1>2, <1>3 DEF SearchInv

LEMMA ThreadStays ==
  ASSUME ThreadInv, UNCHANGED threadVars
  PROVE  ThreadInv'
  <1> USE DEF threadVars
  <1>1. ThreadTypes'
    BY DEF ThreadInv, ThreadTypes, Thread!Gen
  <1>2. PagesChain'
    BY DEF ThreadInv, PagesChain, NextOf
  <1>3. CommentsOfPages'
    BY DEF ThreadInv, CommentsOfPages, Thread!OfPages, Different, Elements
  <1>4. LoadAsks'
    BY DEF ThreadInv, LoadAsks
  <1>5. Thread!LoadDriven'
    BY DEF ThreadInv, Thread!LoadDriven, Thread!At
  <1>6. QED
    BY <1>1, <1>2, <1>3, <1>4, <1>5 DEF ThreadInv

LEMMA MarksStay ==
  ASSUME MarksInv, UNCHANGED marksVars
  PROVE  MarksInv'
  <1> USE DEF marksVars
  <1>1. MarkTypes'
    BY DEF MarksInv, MarkTypes, MarkCall, Marks!RowsOf
  <1>2. ShowsBook' <=> ShowsBook
    BY DEF ShowsBook, Marks!ListOf, Marks!RowsOf
  <1>3. \A c : CallTells(c)' <=> CallTells(c)
    BY DEF CallTells, ShowsBook, Marks!ListOf, Marks!RowsOf, Marks!Without
  <1>4. QED
    BY <1>1, <1>2, <1>3 DEF MarksInv

LEMMA SettingsStay ==
  ASSUME SettingsInv, UNCHANGED settingsVars
  PROVE  SettingsInv'
  BY DEF SettingsInv, SettingsTypes, StoredFirst, LoadsCarry, SavesCarry, InStep, Firstly, Conf, settingsVars

LEMMA ShelfStays ==
  ASSUME ShelfInv, UNCHANGED shelfVars
  PROVE  ShelfInv'
  <1> USE DEF shelfVars, ShelfInv
  <1>1. ShelfTypes'
    BY DEF ShelfTypes, Shelf!Gen, Shelf!View
  <1>2. ChecksTrue'
    BY DEF ChecksTrue, Announces, Anchored, Snapshot, Blank, Shelf!Gen, Shelf!NoCheck, Shelf!Zero
  <1>3. LatestTrue'
    BY DEF LatestTrue, Shelf!CheckDriven, Avoids, Shelf!Zero
  <1>4. MarksRace' /\ BadgesAreNews' /\ GoneIsGone'
    BY DEF MarksRace, BadgesAreNews, GoneIsGone, IsNews, Snapshot, Shelf!Gen, Shelf!Leaving, Shelf!View
  <1>5. QED
    BY <1>1, <1>2, <1>3, <1>4

-----------------------------------------------------------------------------
(* All parts together: a step of the app is one of a single part.            *)
AppInv == SearchInv /\ ThreadInv /\ MarksInv /\ SettingsInv /\ ShelfInv /\ PageInv /\ ProgressInv /\ GateInv

LEMMA AppInvInit == AppInit => AppInv
  BY SearchInvInit, ThreadInvInit, MarksInvInit, SettingsInvInit, ShelfInvInit, PageInvInit,
     ProgressInvInit, GateInvInit DEF AppInit, AppInv

LEMMA AppStepSearch == AppNext => Screen!SearchNext \/ UNCHANGED screenVars
  BY DEF AppNext
LEMMA AppStepThread == AppNext => Thread!ThreadNext \/ UNCHANGED threadVars
  BY DEF AppNext
LEMMA AppStepMarks == AppNext => Marks!MarksNext \/ UNCHANGED marksVars
  BY DEF AppNext
LEMMA AppStepSettings == AppNext => Settings!SettingsNext \/ UNCHANGED settingsVars
  BY DEF AppNext
LEMMA AppStepShelf == AppNext => Shelf!UpdatesNext \/ UNCHANGED shelfVars
  BY DEF AppNext

LEMMA AppStepPages == AppNext => PageNext \/ UNCHANGED pageVars
  BY DEF AppNext
LEMMA AppStepProgress == AppNext => Position!ProgressNext \/ UNCHANGED progressVars
  BY DEF AppNext

LEMMA AppStepHttp == AppNext => GateNext \/ UNCHANGED gateVars
  BY DEF AppNext

LEMMA AppInvStep ==
  ASSUME AppInv, [AppNext]_appVars
  PROVE  AppInv'
  <1>1. UNCHANGED appVars => /\ UNCHANGED screenVars /\ UNCHANGED threadVars /\ UNCHANGED marksVars
                             /\ UNCHANGED settingsVars /\ UNCHANGED shelfVars
                             /\ UNCHANGED pageVars /\ UNCHANGED progressVars /\ UNCHANGED gateVars
    BY DEF appVars
  <1>2. /\ Screen!SearchNext \/ UNCHANGED screenVars
        /\ Thread!ThreadNext \/ UNCHANGED threadVars
        /\ Marks!MarksNext \/ UNCHANGED marksVars
        /\ Settings!SettingsNext \/ UNCHANGED settingsVars
        /\ Shelf!UpdatesNext \/ UNCHANGED shelfVars
        /\ PageNext \/ UNCHANGED pageVars
        /\ Position!ProgressNext \/ UNCHANGED progressVars
        /\ GateNext \/ UNCHANGED gateVars
    BY <1>1, AppStepSearch, AppStepThread, AppStepMarks, AppStepSettings, AppStepShelf, AppStepPages,
       AppStepProgress, AppStepHttp
  <1>3. SearchInv'
    BY <1>2, SearchInvStep, SearchStays DEF AppInv
  <1>4. ThreadInv'
    BY <1>2, ThreadInvStep, ThreadStays DEF AppInv
  <1>5. MarksInv'
    BY <1>2, MarksInvStep, MarksStay DEF AppInv
  <1>6. SettingsInv'
    BY <1>2, SettingsInvStep, SettingsStay DEF AppInv
  <1>7. ShelfInv'
    BY <1>2, ShelfInvStep, ShelfStays DEF AppInv
  <1>8. PageInv'
    BY <1>2, PageInvStep, PagesStay DEF AppInv
  <1>9. ProgressInv'
    <2>1. UNCHANGED progressVars => UNCHANGED progressShown
      BY DEF progressVars, progressShown
    <2>2. QED
      BY <1>2, <2>1, ProgressInvStep, ProgressStays DEF AppInv
  <1>10. GateInv'
    BY <1>2, GateInvStep, GateStays DEF AppInv
  <1>11. QED
    BY <1>3, <1>4, <1>5, <1>6, <1>7, <1>8, <1>9, <1>10 DEF AppInv

LEMMA AppAlways == AppSpec => []AppInv
  BY AppInvInit, AppInvStep, PTL DEF AppSpec

\* What the search screen, a thread of comments, the bookmarks of the open book
\* and the transformer settings show is what their source holds, and the streams
\* a search opened are closed or still in use (search_provider.dart,
\* comments_controller.dart, the bookmark and settings providers).
THEOREM ScreensAlwaysTrue == AppSpec => []ScreensTrue
  <1>1. AppInv => ScreensTrue
    BY SearchInvShows, ThreadInvShows, MarksInvShows, SettingsInvShows DEF AppInv, ScreensTrue
  <1>2. QED
    BY AppAlways, <1>1, PTL

\* A badge of the shelf counts chapters that exist and that come after those the
\* user has seen, and a feed that was removed brings nothing back
\* (BookshelfUpdatesNotifier, api/bookshelf.rs).
THEOREM BadgesAlwaysTrue == AppSpec => []BadgesTrue
  <1>1. AppInv => BadgesTrue
    BY ShelfInvShows DEF AppInv, BadgesTrue
  <1>2. QED
    BY AppAlways, <1>1, PTL

\* The search screen, a thread of comments and the shelf show a spinner exactly
\* while the work it stands for is under way.
THEOREM SpinnersAlwaysDriven == AppSpec => []SpinnersDriven
  <1>1. AppInv => SpinnersDriven
    BY SearchInvShows, ThreadInvShows, ShelfInvShows DEF AppInv, SpinnersDriven
  <1>2. QED
    BY AppAlways, <1>1, PTL

\* The pages of a chapter hold it whole, in order and in sight, each paragraph
\* with its badge, and a position saved on a page restores to that page
\* (page_breaker.dart); the place that is stored is the one the reader left, and
\* opening a book does not move it (reader_screen_controller.dart).
THEOREM PagesAlwaysTrue == AppSpec => []PagesTrue
  <1>1. AppInv => PagesTrue
    BY PageInvShows, ProgressInvShows DEF AppInv, PagesTrue
  <1>2. QED
    BY AppAlways, <1>1, PTL

\* No request of a feed, first or redirected, reaches a host outside its
\* access_domains, none passes the limits on hops and bodies, and the trace of a
\* debug run tells of its requests in order, within its limits (http.rs, trace.rs).
THEOREM RequestsAlwaysTrue == AppSpec => []RequestsTrue
  <1>1. AppInv => RequestsTrue
    BY GateInvShows DEF AppInv, RequestsTrue
  <1>2. QED
    BY AppAlways, <1>1, PTL
==============================================================================
