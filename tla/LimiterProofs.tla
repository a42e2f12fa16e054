---------------------------- MODULE LimiterProofs ----------------------------
(* Proofs about Limiter for all window sizes and caps and any number of    *)
(* handlers: what the ring knows after requests overlapped, and what the   *)
(* windows let through from then on.                                       *)
EXTENDS Limiter, FiniteSetTheorems, TLAPS

Request == [pc : {"outside", "judge", "store", "advance"}, w : Windows, at : Times]

LEMMA Constants ==
  ASSUME NEW w \in Windows
  PROVE  Cap[w] \in Nat /\ Cap[w] > 0 /\ Size[w] \in Nat
BY SizeAssumption, CapsAssumption

LEMMA TimesAreNat == Times \subseteq Nat /\ ZeroTime \notin Times
BY TimeAssumption DEF Times, ZeroTime

(* The cursor goes round.                                                  *)
LEMMA NextSlotWraps ==
  ASSUME NEW w \in Windows, cur[w] \in Slots(w)
  PROVE  /\ NextSlot(w) \in Slots(w)
         /\ NextSlot(w) = IF cur[w] + 1 = Cap[w] THEN 0 ELSE cur[w] + 1
<1>1. PICK c \in Nat \ {0} : c = Cap[w]
  BY Constants
<1>2. PICK x \in 0..(c - 1) : x = cur[w]
  BY <1>1 DEF Slots
<1>3. (x + 1) % c = IF x + 1 = c THEN 0 ELSE x + 1
  <2>1. CASE x + 1 = c
    BY <2>1
  <2>2. CASE x + 1 < c
    BY <2>2
  <2> QED
    BY <2>1, <2>2
<1> QED
  BY <1>1, <1>2, <1>3 DEF NextSlot, Slots

-----------------------------------------------------------------------------
(* TypeOK is inductive.                                                    *)
LEMMA TypeStep == TypeOK /\ [Next]_vars => TypeOK'
<1> SUFFICES ASSUME TypeOK, [Next]_vars PROVE TypeOK'
  OBVIOUS
<1> USE DEF Request
<1>1. CASE UNCHANGED vars
  BY <1>1 DEF vars, TypeOK
<1>2. CASE Tick
  BY <1>2, TimeAssumption DEF Tick, TypeOK, Times
<1>3. ASSUME NEW q \in Requests, Arrive(q) PROVE TypeOK'
  <2>1. [pc |-> "judge", w |-> "burst", at |-> now] \in Request
    BY DEF TypeOK, Windows
  <2>2. met' \subseteq Requests
    BY <1>3 DEF Arrive, Inside, TypeOK
  <2> QED
    BY <1>3, <2>1, <2>2 DEF Arrive, TypeOK
<1>4. ASSUME NEW q \in Requests, Refuse(q) PROVE TypeOK'
  <2>1. Outside \in Request
    BY TimeAssumption DEF Outside, Windows, Times
  <2> QED
    BY <1>4, <2>1 DEF Refuse, TypeOK
<1>5. ASSUME NEW q \in Requests, Fits(q) PROVE TypeOK'
  BY <1>5 DEF Fits, TypeOK
<1>6. ASSUME NEW q \in Requests, Store(q) PROVE TypeOK'
  <2>1. PICK w \in Windows, at \in Times : w = req[q].w /\ at = req[q].at
    BY DEF TypeOK
  <2>2. /\ times' = [times EXCEPT ![w] = [@ EXCEPT ![cur[w]] = at]]
        /\ log' = [log EXCEPT ![w] = IF q \in met THEN <<>> ELSE Append(@, at)]
        /\ req' = [req EXCEPT ![q].pc = "advance"]
        /\ raced' \subseteq raced \cup {w}
        /\ UNCHANGED <<now, cur, met>>
    BY <1>6, <2>1 DEF Store
  <2>3. log' \in [Windows -> Seq(Times)]
    BY <2>2 DEF TypeOK
  <2>6. raced' \subseteq Windows
    BY <2>2 DEF TypeOK
  <2>4. req' \in [Requests -> Request]
    BY <2>2 DEF TypeOK
  <2>5. /\ times' = [v \in Windows |-> times'[v]]
        /\ \A v \in Windows : times'[v] \in [Slots(v) -> Times \cup {ZeroTime}]
    BY <2>2 DEF TypeOK
  <2> QED
    BY <2>2, <2>3, <2>4, <2>5, <2>6 DEF TypeOK
<1>7. ASSUME NEW q \in Requests, Advance(q) PROVE TypeOK'
  <2>1. PICK w \in Windows : w = req[q].w
    BY DEF TypeOK
  <2>2. /\ cur' = [cur EXCEPT ![w] = NextSlot(w)] /\ UNCHANGED <<now, times>>
        /\ log' = [log EXCEPT ![w] = IF q \in met THEN <<>> ELSE @]
        /\ raced' \subseteq raced \cup {w} /\ met' \subseteq met
    BY <1>7, <2>1 DEF Advance
  <2>6. /\ log' \in [Windows -> Seq(Times)]
        /\ met' \subseteq Requests /\ raced' \subseteq Windows
    BY <2>2 DEF TypeOK
  <2>3. NextSlot(w) \in Slots(w) /\ NextSlot(w) \in Nat
    BY NextSlotWraps, Constants DEF TypeOK, Slots
  <2>4. PICK x \in Request : req' = [req EXCEPT ![q] = x]
    <3> DEFINE y == [req[q] EXCEPT !.pc = "judge", !.w = "rate"]
    <3>1. y \in Request
      <4>1. PICK x \in Request : x = req[q]
        BY DEF TypeOK
      <4>2. [[x EXCEPT !.pc = "judge"] EXCEPT !.w = "rate"] \in Request
        BY DEF Windows
      <4> QED
        BY <4>1, <4>2
    <3>2. Outside \in Request
      BY TimeAssumption DEF Outside, Windows, Times
    <3>3. req' = [req EXCEPT ![q] = y] \/ req' = [req EXCEPT ![q] = Outside]
      BY <1>7 DEF Advance
    <3> HIDE DEF y, Request
    <3> QED
      BY <3>1, <3>2, <3>3
  <2>5. req' \in [Requests -> Request]
    BY <2>4 DEF TypeOK
  <2> QED
    BY <2>2, <2>3, <2>5, <2>6 DEF TypeOK
<1> QED
  BY <1>1, <1>2, <1>3, <1>4, <1>5, <1>6, <1>7 DEF Next, Allow

LEMMA InitType == Init => TypeOK
<1> SUFFICES ASSUME Init PROVE TypeOK
  OBVIOUS
<1>1. Outside \in Request
  BY TimeAssumption DEF Outside, Windows, Times, Request
<1>2. 0 \in Times
  BY TimeAssumption DEF Times
<1>3. cur \in [Windows -> Nat] /\ \A w \in Windows : cur[w] \in Slots(w)
  BY Constants DEF Init, Slots
<1> QED
  BY <1>1, <1>2, <1>3 DEF Init, TypeOK, Request

(* The variables keep their types, however many handlers race: an index of *)
(* the ring is never out of its range.                                     *)
THEOREM TypeCorrect == Spec => []TypeOK
BY InitType, TypeStep, PTL DEF Spec

-----------------------------------------------------------------------------
(* The ring, read through the invariant.                                   *)
LEMMA CursorType ==
  ASSUME TypeOK, NEW w \in Windows
  PROVE  Cursor(w) \in 0..(Cap[w] - 1)
BY NextSlotWraps DEF TypeOK, Cursor, Slots

(* The offsets 1..Cap reach every slot. *)
LEMMA SlotsByOffset ==
  ASSUME TypeOK, NEW w \in Windows
  PROVE  /\ \A d \in 1..Cap[w] : Slot(w, d) \in Slots(w)
         /\ \A i \in Slots(w) : \E d \in 1..Cap[w] : Slot(w, d) = i
<1>1. PICK c \in Nat \ {0} : c = Cap[w]
  BY Constants
<1>2. PICK x \in 0..(c - 1) : x = Cursor(w)
  BY <1>1, CursorType
<1>3. \A d \in 1..c : Slot(w, d) \in Slots(w)
  BY <1>1, <1>2 DEF Slot, Slots
<1>4. ASSUME NEW i \in 0..(c - 1)
      PROVE  \E d \in 1..c : Slot(w, d) = i
  <2>1. CASE i < x
    <3>1. x - i \in 1..c /\ Slot(w, x - i) = i
      BY <1>1, <1>2, <2>1 DEF Slot
    <3> QED
      BY <3>1
  <2>2. CASE i >= x
    <3>1. x - i + c \in 1..c /\ Slot(w, x - i + c) = i
      BY <1>1, <1>2, <2>2 DEF Slot
    <3> QED
      BY <3>1
  <2> QED
    BY <2>1, <2>2
<1> QED
  BY <1>1, <1>3, <1>4 DEF Slots

LEMMA LogType ==
  ASSUME TypeOK, NEW w \in Windows
  PROVE  /\ Len(log[w]) \in Nat /\ DOMAIN log[w] = 1..Len(log[w])
         /\ \A i \in 1..Len(log[w]) : log[w][i] \in Times
BY DEF TypeOK

(* A window whose ring is known is full when its oldest time still counts. *)
LEMMA FullWhenOldestCounts ==
  ASSUME TypeOK, RingHoldsNewest, Ordered, NEW w \in Windows, NEW at \in Times,
         Known(w, Cap[w])
  PROVE  Full(w, at) <=> Cap[w] =< Len(log[w]) /\ Newest(w, Cap[w]) >= at - Size[w]
<1>1. PICK c \in Nat \ {0}, n \in Nat, z \in Nat : c = Cap[w] /\ n = Len(log[w]) /\ z = Size[w]
  BY Constants, LogType
<1>2. IsFiniteSet(Slots(w)) /\ Cardinality(Slots(w)) = c
  <2>1. IsFiniteSet(0..(c - 1)) /\ Cardinality(0..(c - 1)) = c
    BY FS_Interval
  <2> QED
    BY <1>1, <2>1 DEF Slots
<1>3. Full(w, at) <=> Recent(w, at) = Slots(w)
  <2>1. Recent(w, at) \in SUBSET Slots(w)
    BY DEF Recent
  <2>2. /\ Cardinality(Recent(w, at)) \in Nat /\ Cardinality(Recent(w, at)) =< c
        /\ Cardinality(Recent(w, at)) = c => Recent(w, at) = Slots(w)
    BY <1>2, <2>1, FS_Subset, FS_CardinalityType
  <2> QED
    BY <1>1, <1>2, <2>2 DEF Full
<1>4. ASSUME NEW d \in 1..c
      PROVE  Slot(w, d) \in Recent(w, at) <=> d =< n /\ Newest(w, d) >= at - z
  <2>1. Slot(w, d) \in Slots(w) /\ times[w][Slot(w, d)] = Newest(w, d)
    <3>1. Known(w, d)
      BY <1>1 DEF Known
    <3> QED
      BY <1>1, <3>1, SlotsByOffset DEF RingHoldsNewest
  <2>2. d =< n => Newest(w, d) \in Times
    BY <1>1, LogType DEF Newest
  <2>3. d =< n <=> Newest(w, d) # ZeroTime
    BY <1>1, <2>2, TimesAreNat DEF Newest
  <2> QED
    BY <1>1, <2>1, <2>3 DEF Recent
<1>5. ASSUME NEW d \in 1..c, c =< n
      PROVE  Newest(w, d) >= Newest(w, c) /\ Newest(w, d) \in Nat /\ Newest(w, c) \in Nat
  <2>1. PICK i \in 1..n, j \in 1..n : i = n + 1 - c /\ j = n + 1 - d
    BY <1>5
  <2>2. i =< j
    BY <2>1
  <2>3. Newest(w, d) = log[w][j] /\ Newest(w, c) = log[w][i]
    BY <1>1, <1>5, <2>1 DEF Newest
  <2>4. log[w][i] =< log[w][j] /\ log[w][i] \in Nat /\ log[w][j] \in Nat
    <3>1. i \in DOMAIN log[w] /\ j \in i..Len(log[w]) /\ j \in 1..Len(log[w])
      BY <1>1, <2>1, <2>2, LogType
    <3>2. log[w][i] =< log[w][j]
      BY <3>1 DEF Ordered
    <3> QED
      BY <3>1, <3>2, LogType, TimesAreNat
  <2> QED
    BY <2>3, <2>4
<1>6. c \in 1..c /\ at \in Nat
  BY TimesAreNat
<1>7. Recent(w, at) = Slots(w) => c =< n /\ Newest(w, c) >= at - z
  BY <1>1, <1>4, <1>6, SlotsByOffset
<1>8. ASSUME c =< n, Newest(w, c) >= at - z
      PROVE  Recent(w, at) = Slots(w)
  <2> SUFFICES ASSUME NEW i \in Slots(w) PROVE i \in Recent(w, at)
    BY DEF Recent
  <2>1. PICK d \in 1..c : Slot(w, d) = i
    BY <1>1, SlotsByOffset
  <2>2. Newest(w, d) >= at - z /\ d =< n
    BY <1>5, <1>6, <1>8
  <2> QED
    BY <1>4, <2>1, <2>2
<1> QED
  BY <1>1, <1>3, <1>7, <1>8

-----------------------------------------------------------------------------
(* IInv is inductive.                                                      *)
LEMMA InitIInv == Init => IInv
<1> SUFFICES ASSUME Init PROVE IInv
  OBVIOUS
<1>1. TypeOK
  BY InitType
<1>2. \A w \in Windows : log[w] = <<>> /\ Len(log[w]) = 0
  BY DEF Init
<1>3. RingHoldsNewest
  <2> SUFFICES ASSUME NEW w \in Windows, NEW d \in 1..Cap[w]
               PROVE  times[w][Slot(w, d)] = Newest(w, d)
    BY DEF RingHoldsNewest
  <2>1. Slot(w, d) \in Slots(w)
    BY <1>1, SlotsByOffset
  <2>2. Newest(w, d) = ZeroTime
    BY <1>2, Constants DEF Newest
  <2> QED
    BY <2>1, <2>2 DEF Init
<1>4. Ordered /\ WithinCaps
  <2>1. ASSUME NEW w \in Windows
        PROVE  DOMAIN log[w] = {} /\ 1..(Len(log[w]) - Cap[w]) = {}
    BY <1>2, Constants
  <2>2. Ordered
    BY <2>1 DEF Ordered
  <2> QED
    BY <2>1, <2>2 DEF WithinCaps
<1>5. StoresFit /\ Alone
  BY DEF Init, StoresFit, Outside, Alone, Inside
<1> QED
  BY <1>1, <1>3, <1>4, <1>5 DEF IInv

(* Steps that record nothing: the rings and the logs stay.                 *)
LEMMA QuietIInv ==
  ASSUME IInv, TypeOK', Alone',
         UNCHANGED <<times, log, raced>>, \A w \in Windows : Cursor(w)' = Cursor(w),
         now' >= now,
         \A q \in Requests :
           /\ req'[q].at =< now'
           /\ req'[q].pc # "outside" =>
                req'[q].at = now \/ (req[q].pc # "outside" /\ req'[q].at = req[q].at)
           /\ req'[q].pc = "store" => Fitting(req'[q].w, req'[q].at)
  PROVE  IInv'
<1>1. RingHoldsNewest'
  BY DEF IInv, RingHoldsNewest, Slot, Newest, Known
<1>2. WithinCaps'
  BY DEF IInv, WithinCaps
<1>3. StoresFit'
  <2>1. ASSUME NEW w, NEW at, Fitting(w, at) PROVE Fitting(w, at)'
    BY <2>1 DEF Fitting, Newest
  <2> QED
    BY <2>1 DEF StoresFit
<1>4. Ordered'
  <2> SUFFICES ASSUME NEW w \in Windows, NEW i \in DOMAIN log[w]
               PROVE  /\ \A j \in i..Len(log[w]) : log[w][i] =< log[w][j]
                      /\ log[w][i] =< now'
                      /\ \A q \in Requests : req'[q].pc # "outside" => log[w][i] =< req'[q].at
    BY DEF Ordered
  <2>1. /\ \A j \in i..Len(log[w]) : log[w][i] =< log[w][j]
        /\ log[w][i] =< now
        /\ \A q \in Requests : req[q].pc # "outside" => log[w][i] =< req[q].at
    BY DEF IInv, Ordered
  <2>2. log[w][i] \in Nat /\ now \in Nat /\ now' \in Nat
    BY LogType, TimesAreNat DEF IInv, TypeOK
  <2>3. log[w][i] =< now'
    BY <2>1, <2>2
  <2>4. ASSUME NEW q \in Requests, req'[q].pc # "outside"
        PROVE  log[w][i] =< req'[q].at
    BY <2>1, <2>4
  <2> QED
    BY <2>1, <2>3, <2>4
<1> QED
  BY <1>1, <1>2, <1>3, <1>4 DEF IInv

LEMMA TickIInv == IInv /\ Tick => IInv'
<1> SUFFICES ASSUME IInv, Tick PROVE IInv'
  OBVIOUS
<1>1. TypeOK'
  BY TypeStep DEF IInv, Next
<1>2. UNCHANGED <<times, cur, req, met, raced, log>> /\ now \in Nat /\ now' = now + 1
  BY TimesAreNat DEF Tick, IInv, TypeOK
<1>3. \A w \in Windows : Cursor(w)' = Cursor(w)
  BY <1>2 DEF Cursor, Recording, NextSlot
<1>4. ASSUME NEW q \in Requests
      PROVE  req[q].at =< now' /\ (req[q].pc = "store" => Fitting(req[q].w, req[q].at))
  <2>1. req[q].at \in Nat
    BY TimesAreNat DEF IInv, TypeOK
  <2>2. req[q].at =< now /\ (req[q].pc = "store" => Fitting(req[q].w, req[q].at))
    BY DEF IInv, StoresFit
  <2> QED
    BY <1>2, <2>1, <2>2
<1>5. Alone'
  BY <1>2 DEF IInv, Alone, Inside
<1> QED
  BY <1>1, <1>2, <1>3, <1>4, <1>5, QuietIInv

LEMMA JudgeIInv ==
  ASSUME IInv, NEW q \in Requests, Arrive(q) \/ Refuse(q) \/ Fits(q)
  PROVE  IInv'
<1>1. TypeOK'
  BY TypeStep DEF IInv, Next, Allow
<1>2. /\ UNCHANGED <<now, times, cur, raced, log>>
      /\ now \in Times /\ now \in Nat /\ now' >= now
      /\ \A p \in Requests : req[p].at \in Times /\ req[p].at \in Nat
  BY TimesAreNat DEF Arrive, Refuse, Fits, IInv, TypeOK
<1>3. PICK x \in Request :
        /\ req' = [req EXCEPT ![q] = x]
        /\ req[q].pc # "advance" /\ x.pc # "advance"
        /\ x.at =< now
        /\ x.pc # "outside" => x.at = now \/ (req[q].pc # "outside" /\ x.at = req[q].at)
        /\ x.pc = "store" => ~ Full(x.w, x.at)
  <2>1. CASE Arrive(q)
    <3> DEFINE x == [pc |-> "judge", w |-> "burst", at |-> now]
    <3>1. x \in Request /\ x.pc = "judge" /\ x.at = now
      BY <1>2 DEF Request, Windows
    <3>2. req' = [req EXCEPT ![q] = x] /\ req[q].pc = "outside"
      BY <2>1 DEF Arrive
    <3> HIDE DEF x
    <3> QED
      BY <1>2, <3>1, <3>2
  <2>2. CASE Refuse(q)
    <3>1. Outside \in Request /\ Outside.pc = "outside" /\ Outside.at = 0
      BY TimeAssumption DEF Outside, Request, Windows, Times
    <3>2. req' = [req EXCEPT ![q] = Outside] /\ req[q].pc = "judge"
      BY <2>2 DEF Refuse
    <3>3. PICK x \in Request : x = Outside
      BY <3>1
    <3>4. x.pc = "outside" /\ x.at =< now /\ req' = [req EXCEPT ![q] = x]
      BY <1>2, <3>1, <3>2, <3>3
    <3> QED
      BY <3>2, <3>4
  <2>3. CASE Fits(q)
    <3> DEFINE x == [req[q] EXCEPT !.pc = "store"]
    <3>1. x \in Request /\ x.pc = "store" /\ x.at = req[q].at /\ x.w = req[q].w
      BY DEF IInv, TypeOK, Request
    <3>2. req' = [req EXCEPT ![q] = x] /\ req[q].pc = "judge" /\ ~ Full(x.w, x.at)
      BY <2>3, <3>1 DEF Fits
    <3>3. x.at =< now
      BY <3>1 DEF IInv, StoresFit
    <3> HIDE DEF x
    <3> QED
      BY <3>1, <3>2, <3>3
  <2> QED
    BY <2>1, <2>2, <2>3
<1>4. \A w \in Windows : Cursor(w)' = Cursor(w)
  BY <1>2, <1>3 DEF Cursor, Recording, NextSlot, IInv, TypeOK
<1>5. x.pc = "store" => Fitting(x.w, x.at)
  <2>1. x.w \in Windows /\ x.at \in Times
    BY DEF Request
  <2>2. PICK w \in Windows, at \in Times : w = x.w /\ at = x.at
    BY <2>1
  <2>3. Cap[w] =< Len(log[w]) => Newest(w, Cap[w]) \in Nat
    <3>1. PICK c \in Nat \ {0}, s \in Seq(Times) : c = Cap[w] /\ s = log[w]
      BY Constants DEF IInv, TypeOK
    <3>2. c =< Len(s) => s[Len(s) + 1 - c] \in Times
      BY <3>1
    <3> QED
      BY <3>1, <3>2, TimesAreNat DEF Newest
  <2>4. ~ Full(w, at) => Fitting(w, at)
    BY <2>3, FullWhenOldestCounts, Constants, TimesAreNat DEF IInv, Fitting, Known
  <2> QED
    BY <1>3, <2>2, <2>4
<1>6. ASSUME NEW p \in Requests
      PROVE  /\ req'[p].at =< now'
             /\ req'[p].pc # "outside" =>
                  req'[p].at = now \/ (req[p].pc # "outside" /\ req'[p].at = req[p].at)
             /\ req'[p].pc = "store" => Fitting(req'[p].w, req'[p].at)
  <2>1. req'[p] = IF p = q THEN x ELSE req[p]
    BY <1>3 DEF IInv, TypeOK
  <2> QED
    BY <1>2, <1>3, <1>5, <2>1 DEF IInv, StoresFit
<1>7. Alone'
  <2>1. CASE Arrive(q)
    BY <2>1 DEF Arrive, IInv, TypeOK, Alone, Inside
  <2>2. CASE Refuse(q)
    BY <2>2 DEF Refuse, Outside, IInv, TypeOK, Alone, Inside
  <2>3. CASE Fits(q)
    BY <2>3 DEF Fits, IInv, TypeOK, Alone, Inside
  <2> QED
    BY <2>1, <2>2, <2>3
<1> QED
  BY <1>1, <1>2, <1>4, <1>6, <1>7, QuietIInv

(* Where Store and Advance leave the handler.                              *)
LEMMA Moved ==
  ASSUME IInv, NEW q \in Requests, Store(q) \/ Advance(q)
  PROVE  \E x \in Request :
           /\ req' = [req EXCEPT ![q] = x]
           /\ x.pc \in {"judge", "outside", "advance"} /\ x.at =< now
           /\ x.pc = "advance" => x.w = req[q].w
           /\ x.pc # "outside" => x.at = req[q].at
           /\ x.pc = "advance" <=> Store(q)
<1>1. PICK r \in Request : r = req[q]
  BY DEF IInv, TypeOK, Request
<1>2. r.at =< now /\ now \in Nat
  BY <1>1, TimesAreNat DEF IInv, TypeOK, StoresFit
<1>3. CASE Store(q)
  <2>1. PICK x : x = [r EXCEPT !.pc = "advance"]
    OBVIOUS
  <2>2. x \in Request /\ x.pc = "advance" /\ x.at = r.at /\ x.w = r.w
    BY <2>1 DEF Request
  <2>3. req' = [req EXCEPT ![q] = x]
    BY <1>1, <1>3, <2>1 DEF Store
  <2> QED
    BY <1>1, <1>2, <1>3, <2>2, <2>3
<1>4. CASE Advance(q)
  <2>1. PICK y : y = [[r EXCEPT !.pc = "judge"] EXCEPT !.w = "rate"]
    OBVIOUS
  <2>2. y \in Request /\ y.pc = "judge" /\ y.at = r.at
    BY <2>1 DEF Request, Windows
  <2>3. PICK z \in Request : z = Outside /\ z.pc = "outside" /\ z.at = 0
    <3>1. Outside \in Request
      BY TimeAssumption DEF Outside, Request, Windows, Times
    <3>2. Outside.pc = "outside" /\ Outside.at = 0
      BY DEF Outside
    <3> QED
      BY <3>1, <3>2
  <2>4. req' = [req EXCEPT ![q] = y] \/ req' = [req EXCEPT ![q] = z]
    BY <1>1, <1>4, <2>1, <2>3 DEF Advance
  <2>5. ~ Store(q)
    BY <1>4 DEF Store, Advance
  <2> QED
    BY <1>1, <1>2, <2>2, <2>3, <2>4, <2>5
<1> QED
  BY <1>3, <1>4

(* A handler that met nobody is alone inside.                              *)
LEMMA Solitary ==
  ASSUME IInv, NEW q \in Requests \ met, req[q].pc # "outside"
  PROVE  \A p \in Requests \ {q} : req[p].pc = "outside"
BY DEF IInv, Alone, Inside

(* A handler that met another records in w: of its ring nothing is known   *)
(* any more, and of the other window nothing changes.                      *)
LEMMA RacedIInv ==
  ASSUME IInv, NEW q \in Requests, Store(q) \/ Advance(q), q \in met
  PROVE  IInv'
<1>1. TypeOK'
  BY TypeStep DEF IInv, Next, Allow
<1>2. PICK w \in Windows : w = req[q].w
  BY DEF IInv, TypeOK
<1>3. /\ log' = [log EXCEPT ![w] = <<>>] /\ raced' = raced \cup {w}
      /\ now' = now /\ req[q].pc \in {"store", "advance"}
      /\ \A v \in Windows \ {w} : times'[v] = times[v] /\ cur'[v] = cur[v]
  BY <1>2 DEF Store, Advance, IInv, TypeOK
<1>4. /\ log'[w] = <<>> /\ Len(log'[w]) = 0
      /\ \A v \in Windows \ {w} : log'[v] = log[v]
  BY <1>3 DEF IInv, TypeOK
<1>5. PICK x \in Request :
        /\ req' = [req EXCEPT ![q] = x]
        /\ x.pc \in {"judge", "outside", "advance"} /\ x.at =< now
        /\ x.pc = "advance" => x.w = w
        /\ x.pc # "outside" => x.at = req[q].at
  BY <1>2, Moved
<1>6. \A p \in Requests : req'[p] = IF p = q THEN x ELSE req[p]
  BY <1>5 DEF IInv, TypeOK
<1>7. \A v \in Windows \ {w} : Cursor(v)' = Cursor(v)
  <2> SUFFICES ASSUME NEW v \in Windows \ {w} PROVE Cursor(v)' = Cursor(v)
    OBVIOUS
  <2>1. Recording(v)' <=> Recording(v)
    BY <1>2, <1>5, <1>6 DEF Recording
  <2>2. NextSlot(v)' = NextSlot(v)
    BY <1>3 DEF NextSlot
  <2> QED
    BY <1>3, <2>1, <2>2 DEF Cursor
<1>8. RingHoldsNewest'
  <2>1. ASSUME NEW d \in 1..Cap[w] PROVE ~ Known(w, d)'
    BY <1>3, <1>4, <2>1 DEF Known
  <2>2. ASSUME NEW v \in Windows \ {w}, NEW d \in 1..Cap[v], Known(v, d)'
        PROVE  times'[v][Slot(v, d)'] = Newest(v, d)'
    <3>1. Known(v, d) /\ Slot(v, d)' = Slot(v, d) /\ Newest(v, d)' = Newest(v, d)
      BY <1>3, <1>4, <1>7, <2>2 DEF Known, Slot, Newest
    <3> QED
      BY <1>3, <3>1 DEF IInv, RingHoldsNewest
  <2> QED
    BY <2>1, <2>2 DEF RingHoldsNewest
<1>9. Ordered'
  <2>1. DOMAIN log'[w] = {}
    BY <1>4
  <2>2. ASSUME NEW v \in Windows \ {w}, NEW i \in DOMAIN log'[v]
        PROVE  /\ \A j \in i..Len(log'[v]) : log'[v][i] =< log'[v][j]
               /\ log'[v][i] =< now'
               /\ \A p \in Requests : req'[p].pc # "outside" => log'[v][i] =< req'[p].at
    <3>1. /\ \A j \in i..Len(log[v]) : log[v][i] =< log[v][j]
          /\ log[v][i] =< now
          /\ \A p \in Requests : req[p].pc # "outside" => log[v][i] =< req[p].at
      BY <1>4, <2>2 DEF IInv, Ordered
    <3> QED
      BY <1>3, <1>4, <1>5, <1>6, <3>1
  <2> QED
    BY <2>1, <2>2 DEF Ordered
<1>10. StoresFit'
  <2> SUFFICES ASSUME NEW p \in Requests
               PROVE  /\ req'[p].at =< now
                      /\ (req[p].pc = "store" => Fitting(req[p].w, req[p].at))'
    BY <1>3 DEF StoresFit
  <2>1. CASE p = q
    BY <1>5, <1>6, <2>1
  <2>2. CASE p # q
    <3>1. req'[p] = req[p] /\ req[p].at =< now
      BY <1>6, <2>2 DEF IInv, StoresFit
    <3>2. PICK v \in Windows, at \in Times : v = req[p].w /\ at = req[p].at
      BY DEF IInv, TypeOK
    <3>3. req[p].pc = "store" => Fitting(v, at)
      BY <3>2 DEF IInv, StoresFit
    <3>4. Fitting(v, at) => Fitting(v, at)'
      BY <1>4, Constants DEF Fitting, Newest
    <3>5. v = req'[p].w /\ at = req'[p].at
      BY <3>1, <3>2
    <3> QED
      BY <3>1, <3>3, <3>4, <3>5
  <2> QED
    BY <2>1, <2>2
<1>11. WithinCaps'
  <2>1. 1..(Len(log'[w]) - Cap[w]) = {}
    BY <1>4, Constants
  <2>2. \A v \in Windows \ {w} : \A i \in 1..(Len(log'[v]) - Cap[v]) :
          log'[v][i + Cap[v]] - log'[v][i] > Size[v]
    BY <1>4 DEF IInv, WithinCaps
  <2> QED
    BY <2>1, <2>2 DEF WithinCaps
<1>12. Alone'
  <2>1. met' = met \/ (met' = met \ {q} /\ x.pc = "outside")
    <3>1. CASE Store(q)
      BY <3>1 DEF Store
    <3>2. CASE Advance(q)
      <4>1. CASE w = "burst"
        BY <1>2, <3>2, <4>1 DEF Advance
      <4>2. CASE w # "burst"
        <5>1. req'[q] = Outside
          BY <1>2, <3>2, <4>2 DEF Advance, IInv, TypeOK
        <5> QED
          BY <1>2, <1>6, <3>2, <4>2, <5>1 DEF Advance, Outside
      <4> QED
        BY <4>1, <4>2
    <3> QED
      BY <3>1, <3>2
  <2>2. \A p \in Inside' : p \in Inside
    BY <1>3, <1>6 DEF Inside
  <2> QED
    BY <1>6, <2>1, <2>2 DEF IInv, Alone, Inside
<1> QED
  BY <1>1, <1>8, <1>9, <1>10, <1>11, <1>12 DEF IInv

(* The cursor moves on: it stood there already, as far as Cursor tells.    *)
LEMMA AdvanceIInv ==
  ASSUME IInv, NEW q \in Requests \ met, Advance(q)
  PROVE  IInv'
<1>1. TypeOK'
  BY TypeStep DEF IInv, Next, Allow
<1>2. PICK w \in Windows : w = req[q].w
  BY DEF IInv, TypeOK
<1>3. /\ req[q].pc = "advance"
      /\ UNCHANGED <<now, times, log, raced>>
      /\ cur' = [cur EXCEPT ![w] = NextSlot(w)]
  BY <1>2 DEF Advance, IInv, TypeOK
<1>4. PICK x \in Request :
        /\ req' = [req EXCEPT ![q] = x]
        /\ x.pc \in {"judge", "outside"} /\ x.at =< now
        /\ x.pc # "outside" => x.at = req[q].at
  <2>1. ~ Store(q)
    BY <1>3 DEF Store
  <2> QED
    BY <2>1, Moved
<1>9. \A p \in Requests \ {q} : req[p].pc = "outside"
  BY <1>3, Solitary
<1>5. \A p \in Requests : req'[p] = IF p = q THEN x ELSE req[p]
  BY <1>4 DEF IInv, TypeOK
<1>6. \A v \in Windows : Cursor(v)' = Cursor(v)
  <2>1. Recording(w) /\ \A v \in Windows \ {w} : ~ Recording(v)
    BY <1>2, <1>3, <1>9 DEF Recording
  <2>2. \A v \in Windows : ~ Recording(v)'
    BY <1>4, <1>5, <1>9 DEF Recording
  <2>3. cur'[w] = NextSlot(w) /\ \A v \in Windows \ {w} : cur'[v] = cur[v]
    BY <1>3 DEF IInv, TypeOK
  <2> QED
    BY <2>1, <2>2, <2>3 DEF Cursor
<1>7. ASSUME NEW p \in Requests
      PROVE  /\ req'[p].at =< now'
             /\ req'[p].pc # "outside" =>
                  req'[p].at = now \/ (req[p].pc # "outside" /\ req'[p].at = req[p].at)
             /\ req'[p].pc = "store" => Fitting(req'[p].w, req'[p].at)
  BY <1>3, <1>4, <1>5, <1>9 DEF IInv, StoresFit
<1>8. now' >= now
  BY <1>3, TimesAreNat DEF IInv, TypeOK
<1>10. Alone'
  BY <1>5, <1>9 DEF Alone, Inside
<1> QED
  BY <1>1, <1>3, <1>6, <1>7, <1>8, <1>10, QuietIInv

(* The time goes into the slot of the oldest one, which no longer counts:  *)
(* the d-th newest becomes the next, and WithinCaps is what StoresFit said *)
(* of the one that is dropped.                                             *)
LEMMA StoreIInv ==
  ASSUME IInv, NEW q \in Requests \ met, Store(q)
  PROVE  IInv'
<1>1. TypeOK'
  BY TypeStep DEF IInv, Next, Allow
<1>2. PICK w \in Windows, at \in Times : w = req[q].w /\ at = req[q].at
  BY DEF IInv, TypeOK
<1>3. PICK c \in Nat \ {0}, n \in Nat : c = Cap[w] /\ n = Len(log[w])
  BY Constants, LogType DEF IInv
<1>4. PICK x \in 0..(c - 1) : x = cur[w]
  BY <1>3 DEF IInv, TypeOK, Slots
<1>5. /\ req[q].pc = "store"
      /\ times' = [times EXCEPT ![w] = [@ EXCEPT ![x] = at]]
      /\ log' = [log EXCEPT ![w] = Append(@, at)]
      /\ req' = [req EXCEPT ![q].pc = "advance"]
      /\ UNCHANGED <<now, cur, raced>>
  BY <1>2, <1>4 DEF Store
<1>6. /\ \A v \in Windows \ {w} : log'[v] = log[v] /\ times'[v] = times[v]
      /\ log[w] \in Seq(Times) /\ log'[w] = Append(log[w], at)
      /\ times'[w] = [times[w] EXCEPT ![x] = at]
  BY <1>5 DEF IInv, TypeOK
<1>7. /\ Len(log'[w]) = n + 1 /\ log'[w][n + 1] = at
      /\ \A i \in 1..n : log'[w][i] = log[w][i]
  BY <1>3, <1>6
<1>8. /\ req'[q].pc = "advance" /\ req'[q].w = w /\ req'[q].at = at
      /\ \A p \in Requests \ {q} : req'[p] = req[p] /\ req[p].pc = "outside"
  BY <1>2, <1>5, Solitary DEF IInv, TypeOK
<1>9. at \in Nat /\ now \in Nat /\ at =< now /\ \A i \in 1..n : log[w][i] \in Nat /\ log[w][i] =< at
  <2>1. ASSUME NEW i \in 1..n PROVE log[w][i] \in Nat /\ log[w][i] =< at
    BY <1>2, <1>3, <1>5, LogType, TimesAreNat DEF IInv, Ordered
  <2> QED
    BY <1>2, <2>1, TimesAreNat DEF IInv, TypeOK, StoresFit
<1>10. RingHoldsNewest'
  <2>1. /\ \A v \in Windows : Cursor(v) = cur[v]
        /\ Cursor(w)' = IF x + 1 = c THEN 0 ELSE x + 1
        /\ \A v \in Windows \ {w} : Cursor(v)' = cur[v]
    <3>1. \A v \in Windows : ~ Recording(v)
      BY <1>5, <1>8 DEF Recording
    <3>2. Recording(w)' /\ \A v \in Windows \ {w} : ~ Recording(v)'
      BY <1>8 DEF Recording
    <3>3. NextSlot(w)' = NextSlot(w) /\ cur' = cur
      BY <1>5 DEF NextSlot
    <3>4. NextSlot(w) = IF x + 1 = c THEN 0 ELSE x + 1
      BY <1>3, <1>4, NextSlotWraps DEF IInv, TypeOK
    <3> QED
      BY <3>1, <3>2, <3>3, <3>4 DEF Cursor
  <2>2. ASSUME NEW v \in Windows \ {w}, NEW d \in 1..Cap[v], Known(v, d)'
        PROVE  times'[v][Slot(v, d)'] = Newest(v, d)'
    <3>1. Slot(v, d)' = Slot(v, d) /\ Newest(v, d)' = Newest(v, d) /\ Known(v, d)
      BY <1>5, <1>6, <2>1, <2>2 DEF Slot, Newest, Known
    <3> QED
      BY <1>6, <3>1 DEF IInv, RingHoldsNewest
  <2>3. ASSUME NEW d \in 1..c, Known(w, d)'
        PROVE  times'[w][Slot(w, d)'] = Newest(w, d)'
    <3>1. times[w] \in [0..(c - 1) -> Times \cup {ZeroTime}]
      BY <1>3 DEF IInv, TypeOK, Slots
    <3>2. CASE d = 1
      <4>1. Slot(w, d)' = x
        BY <1>3, <1>4, <2>1, <3>2 DEF Slot
      <4>2. Newest(w, d)' = at
        BY <1>7, <3>2 DEF Newest
      <4> QED
        BY <1>4, <1>6, <3>1, <4>1, <4>2
    <3>3. CASE d > 1
      <4>1. PICK b \in 1..c : b = d - 1
        BY <3>3
      <4>2. Slot(w, d)' = Slot(w, b) /\ Slot(w, b) # x /\ Slot(w, b) \in 0..(c - 1)
        <5>1. Slot(w, b) = IF b =< x THEN x - b ELSE x - b + c
          BY <1>3, <1>4, <2>1 DEF Slot
        <5>2. Slot(w, d)' = IF d =< Cursor(w)' THEN Cursor(w)' - d ELSE Cursor(w)' - d + c
          BY <1>3 DEF Slot
        <5>3. CASE x + 1 = c
          BY <1>4, <2>1, <3>3, <4>1, <5>1, <5>2, <5>3
        <5>4. CASE x + 1 # c
          BY <1>4, <2>1, <3>3, <4>1, <5>1, <5>2, <5>4
        <5> QED
          BY <5>3, <5>4
      <4>3. Newest(w, d)' = Newest(w, b)
        <5>1. Newest(w, d)' = IF d =< n + 1 THEN log'[w][n + 2 - d] ELSE ZeroTime
          BY <1>7 DEF Newest
        <5>2. Newest(w, b) = IF b =< n THEN log[w][n + 1 - b] ELSE ZeroTime
          BY <1>3 DEF Newest
        <5>3. CASE b =< n
          <6>1. n + 1 - b \in 1..n /\ n + 2 - d = n + 1 - b /\ d =< n + 1
            BY <4>1, <5>3
          <6> QED
            BY <1>7, <5>1, <5>2, <5>3, <6>1
        <5>4. CASE b > n
          BY <4>1, <5>1, <5>2, <5>4
        <5> QED
          BY <4>1, <5>3, <5>4
      <4>4. times[w][Slot(w, b)] = Newest(w, b)
        <5>1. Known(w, b)
          BY <1>3, <1>5, <1>7, <2>3, <4>1 DEF Known
        <5> QED
          BY <1>3, <5>1 DEF IInv, RingHoldsNewest
      <4> QED
        BY <1>6, <3>1, <4>2, <4>3, <4>4
    <3> QED
      BY <3>2, <3>3
  <2> QED
    BY <1>3, <2>2, <2>3 DEF RingHoldsNewest
<1>11. Ordered'
  <2>1. ASSUME NEW v \in Windows \ {w}, NEW i \in DOMAIN log'[v]
        PROVE  /\ \A j \in i..Len(log'[v]) : log'[v][i] =< log'[v][j]
               /\ log'[v][i] =< now
               /\ log'[v][i] =< at
    BY <1>2, <1>5, <1>6 DEF IInv, Ordered
  <2>2. ASSUME NEW i \in 1..(n + 1)
        PROVE  /\ \A j \in i..(n + 1) : log'[w][i] =< log'[w][j]
               /\ log'[w][i] =< now
               /\ log'[w][i] =< at
    <3>1. CASE i = n + 1
      BY <1>7, <1>9, <3>1
    <3>2. CASE i \in 1..n
      <4>1. log'[w][i] = log[w][i] /\ log[w][i] \in Nat /\ log[w][i] =< at
        BY <1>7, <1>9, <3>2
      <4>2. ASSUME NEW j \in i..(n + 1) PROVE log'[w][i] =< log'[w][j]
        <5>1. CASE j = n + 1
          BY <1>7, <4>1, <5>1
        <5>2. CASE j \in 1..n
          <6>1. i \in DOMAIN log[w] /\ j \in i..Len(log[w])
            BY <1>3, <3>2, <5>2, LogType DEF IInv
          <6>2. log[w][i] =< log[w][j]
            BY <6>1 DEF IInv, Ordered
          <6> QED
            BY <1>7, <4>1, <5>2, <6>2
        <5> QED
          BY <3>2, <5>1, <5>2
      <4> QED
        BY <1>9, <4>1, <4>2
    <3> QED
      BY <3>1, <3>2
  <2>3. DOMAIN log'[w] = 1..(n + 1) /\ Len(log'[w]) = n + 1
    BY <1>2, <1>3, <1>6, <1>7
  <2>4. ASSUME NEW v \in Windows, NEW i \in DOMAIN log'[v]
        PROVE  /\ \A j \in i..Len(log'[v]) : log'[v][i] =< log'[v][j]
               /\ log'[v][i] =< now
               /\ log'[v][i] =< at
    BY <2>1, <2>2, <2>3
  <2> QED
    BY <1>5, <1>8, <2>4 DEF Ordered
<1>12. StoresFit' /\ Alone'
  <2>1. \A p \in Requests : req'[p].at =< now' /\ req'[p].pc # "store"
    BY <1>5, <1>8, <1>9 DEF IInv, StoresFit
  <2>2. Inside' \subseteq {q}
    BY <1>8 DEF Inside
  <2> QED
    BY <2>1, <2>2 DEF StoresFit, Alone
<1>13. WithinCaps'
  <2>1. ASSUME NEW v \in Windows \ {w}, NEW i \in 1..(Len(log'[v]) - Cap[v])
        PROVE  log'[v][i + Cap[v]] - log'[v][i] > Size[v]
    BY <1>6 DEF IInv, WithinCaps
  <2>2. ASSUME NEW i \in 1..(n + 1 - c)
        PROVE  log'[w][i + c] - log'[w][i] > Size[w]
    <3>1. CASE i = n + 1 - c
      <4>1. Fitting(w, at)
        BY <1>2, <1>5 DEF IInv, StoresFit
      <4>2. c =< n /\ Newest(w, c) = log[w][i] /\ i \in 1..n
        BY <1>3, <3>1 DEF Newest
      <4>3. at - log[w][i] > Size[w]
        BY <1>3, <4>1, <4>2 DEF Fitting
      <4>4. i + c = n + 1
        BY <3>1
      <4> QED
        BY <1>7, <4>2, <4>3, <4>4
    <3>2. CASE i \in 1..(n - c)
      <4>1. log[w][i + c] - log[w][i] > Size[w]
        BY <1>3, <3>2 DEF IInv, WithinCaps
      <4>2. i \in 1..n /\ i + c \in 1..n
        BY <3>2
      <4> QED
        BY <1>7, <4>1, <4>2
    <3> QED
      BY <3>1, <3>2
  <2>3. Len(log'[w]) = n + 1 /\ Cap[w] = c
    BY <1>3, <1>7
  <2>4. ASSUME NEW i \in 1..(Len(log'[w]) - Cap[w])
        PROVE  log'[w][i + Cap[w]] - log'[w][i] > Size[w]
    <3>1. i \in 1..(n + 1 - c)
      BY <2>3
    <3> QED
      BY <2>2, <2>3, <3>1
  <2> QED
    BY <1>3, <2>1, <2>4 DEF WithinCaps
<1> QED
  BY <1>1, <1>10, <1>11, <1>12, <1>13 DEF IInv

LEMMA StepIInv == IInv /\ [Next]_vars => IInv'
<1> SUFFICES ASSUME IInv, [Next]_vars PROVE IInv'
  OBVIOUS
<1>1. CASE UNCHANGED vars
  <2>1. TypeOK' /\ Alone'
    BY <1>1, TypeStep DEF vars, IInv, Alone, Inside
  <2> QED
    BY <1>1, <2>1 DEF vars, IInv, RingHoldsNewest, Known, Slot, Newest, Cursor, Recording, NextSlot,
                      Ordered, StoresFit, Fitting, WithinCaps
<1>2. CASE Tick
  BY <1>2, TickIInv
<1>3. ASSUME NEW q \in Requests, Allow(q) PROVE IInv'
  BY <1>3, JudgeIInv, StoreIInv, AdvanceIInv, RacedIInv DEF Allow
<1> QED
  BY <1>1, <1>2, <1>3 DEF Next

(* The inductive invariant, for any number of handlers: a ring is known as *)
(* far back as handlers recorded one after another.                        *)
THEOREM Inductive == Spec => []IInv
BY InitIInv, StepIInv, PTL DEF Spec

(* RATE-1, whatever the sizes and the caps of the windows: since the last  *)
(* overlap, no stretch of a window's size sees more than its cap pass,     *)
(* whatever the overlap made of the ring.                                  *)
THEOREM CapsHold == Spec => []WithinCaps
<1>1. IInv => WithinCaps
  BY DEF IInv
<1> QED
  BY <1>1, Inductive, PTL

(* A known ring judges as the log would, so a request is refused for the   *)
(* last Cap requests of the window and for no others.                      *)
LEMMA RingJudgesAsLog ==
  ASSUME IInv, NEW w \in Windows, Known(w, Cap[w])
  PROVE  Full(w, now) <=> Cardinality(InWindow(w)) >= Cap[w]
<1>1. PICK c \in Nat \ {0}, n \in Nat, z \in Nat, t \in Nat :
        c = Cap[w] /\ n = Len(log[w]) /\ z = Size[w] /\ t = now
  <2>1. TypeOK /\ now \in Nat
    BY TimesAreNat DEF IInv, TypeOK
  <2>2. Cap[w] \in Nat \ {0} /\ Size[w] \in Nat /\ Len(log[w]) \in Nat
    BY <2>1, Constants, LogType
  <2> QED
    BY <2>1, <2>2
<1>2. /\ DOMAIN log[w] = 1..n /\ \A i \in 1..n : log[w][i] \in Nat
      /\ \A i \in 1..n : \A j \in i..n : log[w][i] =< log[w][j]
  BY <1>1, LogType, TimesAreNat DEF IInv, Ordered
<1>3. Full(w, now) <=> c =< n /\ log[w][n + 1 - c] >= t - z
  <2>1. Full(w, now) <=> c =< n /\ Newest(w, c) >= t - z
    BY <1>1, FullWhenOldestCounts DEF IInv, TypeOK
  <2> QED
    BY <1>1, <2>1 DEF Newest
<1>4. InWindow(w) = {i \in 1..n : log[w][i] >= t - z}
  BY <1>1, <1>2 DEF InWindow
<1>5. /\ IsFiniteSet(1..n) /\ Cardinality(1..n) = n
      /\ IsFiniteSet(InWindow(w)) /\ Cardinality(InWindow(w)) \in Nat
      /\ Cardinality(InWindow(w)) =< n
  <2>1. IsFiniteSet(1..n) /\ Cardinality(1..n) = n
    BY FS_Interval
  <2>2. InWindow(w) \in SUBSET (1..n)
    BY <1>4
  <2> QED
    BY <2>1, <2>2, FS_Subset, FS_CardinalityType
<1>6. CASE c > n
  BY <1>1, <1>3, <1>5, <1>6
<1>7. CASE c =< n
  <2>1. PICK k \in 1..n : k = n + 1 - c
    BY <1>7
  <2>2. CASE log[w][k] >= t - z
    <3>1. IsFiniteSet(k..n) /\ Cardinality(k..n) = c
      BY <2>1, FS_Interval
    <3>2. k..n \in SUBSET InWindow(w)
      BY <1>2, <1>4, <2>2
    <3>3. c =< Cardinality(InWindow(w))
      BY <1>5, <3>1, <3>2, FS_Subset
    <3> QED
      BY <1>1, <1>3, <1>5, <1>7, <2>1, <2>2, <3>3
  <2>3. CASE log[w][k] < t - z
    <3>1. IsFiniteSet((k + 1)..n) /\ Cardinality((k + 1)..n) = c - 1
      BY <2>1, FS_Interval
    <3>2. InWindow(w) \in SUBSET ((k + 1)..n)
      <4>1. ASSUME NEW i \in 1..n, i =< k PROVE ~ log[w][i] >= t - z
        <5>1. log[w][i] =< log[w][k] /\ log[w][i] \in Nat /\ log[w][k] \in Nat
          BY <1>2, <2>1, <4>1
        <5> QED
          BY <2>3, <5>1
      <4>2. \A i \in InWindow(w) : i \in 1..n /\ ~ i =< k
        BY <1>4, <4>1
      <4>3. \A i \in 1..n : i =< k \/ i \in (k + 1)..n
        OBVIOUS
      <4> QED
        BY <4>2, <4>3
    <3>3. Cardinality(InWindow(w)) =< c - 1
      BY <3>1, <3>2, FS_Subset
    <3>4. ~ Cardinality(InWindow(w)) >= Cap[w]
      BY <1>1, <1>5, <3>3
    <3>5. log[w][k] \in Nat /\ ~ log[w][k] >= t - z
      BY <1>2, <2>3
    <3> QED
      BY <1>3, <2>1, <3>4, <3>5
  <2> QED
    BY <1>2, <2>2, <2>3
<1> QED
  BY <1>6, <1>7

(* The ring is exact, whatever the sizes and the caps, until requests      *)
(* overlap, and is so again once cap requests passed one after another.    *)
THEOREM RingForgetsNothing == Spec => []RingIsExact
<1>1. IInv => RingIsExact
  BY RingJudgesAsLog DEF RingIsExact
<1> QED
  BY <1>1, Inductive, PTL
=============================================================================
