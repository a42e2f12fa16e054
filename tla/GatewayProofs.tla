----------------------------- MODULE GatewayProofs -----------------------------
(***************************************************************************)
(* Proofs about Coalescer and Gateway for every set of events, keys and    *)
(* workers, every number of rows and queue capacity.  The first half is    *)
(* about Coalescer alone; the second rests on it and on TransportProofs.   *)
(***************************************************************************)
EXTENDS Gateway, FiniteSetTheorems, TLAPS

TP == INSTANCE TransportProofs

-----------------------------------------------------------------------------
(* Type correctness. *)

USE DEF Idle

LEMMA TypeInit == Init => TypeOK
BY KeyAssumption, NoBatchAssumption DEF Init, TypeOK

LEMMA FlushBatchType ==
  ASSUME TypeOK, NEW p, NEW by \in {"cap", "timer"}, FlushBatch(p, by)
  PROVE  calls' \in [Events -> Seq(Call)]
<1>1. CASE p \in Events
  <2>1. [by |-> by, batch |-> items[p]] \in Call
    BY <1>1 DEF TypeOK, Call
  <2>2. Append(calls[p], [by |-> by, batch |-> items[p]]) \in Seq(Call)
    BY <1>1, <2>1 DEF TypeOK
  <2> QED
    BY <1>1, <2>2 DEF TypeOK, FlushBatch
<1>2. CASE p \notin Events
  BY <1>2 DEF TypeOK, FlushBatch
<1> QED
  BY <1>1, <1>2

LEMMA TypeStep == TypeOK /\ [Next]_vars => TypeOK'
<1> SUFFICES ASSUME TypeOK, [Next]_vars PROVE TypeOK'
  OBVIOUS
<1> USE KeyAssumption, NoBatchAssumption DEF TypeOK
<1>1. ASSUME NEW w \in Workers, NEW e \in Events, Add(w, e) PROVE TypeOK'
  BY <1>1 DEF Add, Arm
<1>2. ASSUME NEW w \in Workers, ForceFlushLost(w) PROVE TypeOK'
  BY <1>2 DEF ForceFlushLost
<1>3. ASSUME NEW w \in Workers, ForceFlush(w) PROVE TypeOK'
  BY <1>3 DEF ForceFlush, Delete
<1>4. ASSUME NEW w \in Workers, CapFlush(w) PROVE TypeOK'
  <2>1. calls' \in [Events -> Seq(Call)]
    BY <1>4, FlushBatchType DEF CapFlush
  <2> QED
    BY <1>4, <2>1 DEF CapFlush
<1>5. ASSUME NEW p \in Events, Fire(p) PROVE TypeOK'
  BY <1>5 DEF Fire
<1>6. ASSUME NEW p \in Events, TimerLock(p) PROVE TypeOK'
  BY <1>6 DEF TimerLock, Delete
<1>7. ASSUME NEW p \in Events, TimerFlush(p) PROVE TypeOK'
  <2>1. calls' \in [Events -> Seq(Call)]
    BY <1>7, FlushBatchType DEF TimerFlush
  <2> QED
    BY <1>7, <2>1 DEF TimerFlush
<1>8. CASE UNCHANGED vars
  BY <1>8 DEF vars
<1> QED
  BY <1>1, <1>2, <1>3, <1>4, <1>5, <1>6, <1>7, <1>8 DEF Next, WorkerStep, TimerStep

(* Every reachable state is well-typed. *)
THEOREM TypeCorrect == Spec => []TypeOK
BY TypeInit, TypeStep, PTL DEF Spec
-----------------------------------------------------------------------------
(* The inductive invariant. *)

LEMMA ElemsAppend ==
  ASSUME NEW S, NEW s \in Seq(S), NEW e \in S
  PROVE  Elems(Append(s, e)) = Elems(s) \cup {e}
<1>1. /\ DOMAIN s = 1..Len(s) /\ Len(s) \in Nat
      /\ DOMAIN Append(s, e) = 1..(Len(s) + 1)
      /\ \A i \in 1..Len(s) : Append(s, e)[i] = s[i]
      /\ Append(s, e)[Len(s) + 1] = e
  OBVIOUS
<1>2. DOMAIN Append(s, e) = DOMAIN s \cup {Len(s) + 1} /\ Len(s) + 1 \notin DOMAIN s
  BY <1>1
<1> QED
  BY <1>1, <1>2 DEF Elems

LEMMA AppendLen ==
  ASSUME NEW S, NEW s \in Seq(S), NEW e \in S
  PROVE  Len(s) \in Nat /\ Len(Append(s, e)) = Len(s) + 1 /\ Append(s, e) # <<>>
<1>1. Len(s) \in Nat /\ Len(Append(s, e)) = Len(s) + 1
  OBVIOUS
<1>2. Len(<<>>) = 0
  OBVIOUS
<1> QED
  BY <1>1, <1>2

LEMMA InitIInv == Init => IInv
<1> SUFFICES ASSUME Init PROVE IInv
  OBVIOUS
<1>1. TypeOK
  BY TypeInit
<1>2. \A p \in Events : items[p] = <<>> /\ calls[p] = <<>> /\ timer[p] = "none"
  BY DEF Init
<1>3. \A p \in Events : Elems(items[p]) = {} /\ DOMAIN calls[p] = {}
  BY <1>2 DEF Elems
<1>4. \A k \in Keys : b[k] = NoBatch
  BY DEF Init
<1>5. \A w \in Workers : worker[w].pc = "idle"
  BY DEF Init
<1>6. \A p \in Events : ~ Open(p)
  BY <1>4, KeyAssumption, NoBatchAssumption DEF Open
<1>7. Cardinality(Workers) \in Nat
  BY WorkersAssumption, FS_CardinalityType
<1>8. Allocation /\ Registration /\ WorkersHoldBatches /\ OpenBatchBound
  BY <1>2, <1>4, <1>5, <1>6 DEF Allocation, Registration, WorkersHoldBatches, OpenBatchBound
<1>9. BatchBound
  BY <1>2, <1>7, CapAssumption DEF BatchBound
<1>10. OneCapFlush /\ OneFlushPerCause /\ FlushIsFinal /\ StoppedIsFlushed
  BY <1>2, <1>3, <1>5 DEF OneCapFlush, OneFlushPerCause, FlushIsFinal, StoppedIsFlushed,
       Flushing, CapFlushed, TimerFlushed
<1>11. Membership
  BY <1>3 DEF Membership, Init
<1> QED
  BY <1>1, <1>8, <1>9, <1>10, <1>11 DEF IInv, Consistent

LEMMA ForcingFinite ==
  ASSUME NEW p
  PROVE  /\ IsFiniteSet(Forcing(p))
         /\ Cardinality(Forcing(p)) \in Nat
         /\ Cardinality(Workers) \in Nat
         /\ Cardinality(Forcing(p)) =< Cardinality(Workers)
<1>1. Forcing(p) \in SUBSET Workers
  BY DEF Forcing
<1> QED
  BY <1>1, WorkersAssumption, FS_Subset, FS_CardinalityType

LEMMA AddKeeps ==
  ASSUME Consistent, TypeOK', NEW w \in Workers, NEW e \in Events, Add(w, e)
  PROVE  Consistent'
<1> DEFINE k == KeyOf[e]
<1> USE DEF TypeOK
<1>0. PICK p \in Events : p = IF b[k] = NoBatch THEN e ELSE b[k]
  BY KeyAssumption DEF Consistent
<1> DEFINE hit == HitCap(Append(items[p], e))
<1>1. TypeOK /\ k \in Keys /\ p \in Events /\ KeyOf[p] = k
  BY <1>0, KeyAssumption DEF Consistent, Registration
<1>2. /\ calls[p] = <<>> /\ Flushing(p) = {}
      /\ timer[p] \in {"none", "armed", "fired"}
  <2>1. CASE b[k] = NoBatch
    <3>1. p = e /\ e \in todo
      BY <2>1, <1>0 DEF Add
    <3>2. timer[e] = "none" /\ calls[e] = <<>>
      BY <3>1 DEF Consistent, Allocation
    <3>3. Flushing(e) = {}
      <4> SUFFICES ASSUME NEW v \in Workers, worker[v] = [pc |-> "flush", p |-> e]
                   PROVE  FALSE
        BY DEF Flushing
      <4>1. worker[v].pc = "flush" /\ worker[v].p = e
        OBVIOUS
      <4>2. WorkersHoldBatches
        BY DEF Consistent
      <4> QED
        BY <3>2, <4>1, <4>2 DEF WorkersHoldBatches
    <3> QED
      BY <3>1, <3>2, <3>3
  <2>2. CASE b[k] # NoBatch
    BY <2>2, <1>0, <1>1 DEF Consistent, Registration, Open
  <2> QED
    BY <2>1, <2>2
<1>3. /\ worker[w].pc = "idle"
      /\ e \in todo
      /\ todo' = todo \ {e}
      /\ b' = [b EXCEPT ![k] = p]
      /\ timer' = IF b[k] = NoBatch THEN [timer EXCEPT ![p] = "armed"] ELSE timer
      /\ items' = [items EXCEPT ![p] = Append(items[p], e)]
      /\ worker' = IF hit THEN [worker EXCEPT ![w] = [pc |-> "force", p |-> p]] ELSE worker
      /\ calls' = calls
  BY <1>0 DEF Add, Arm
<1>4. timer'[p] \in {"armed", "fired"} /\ \A q \in Events \ {p} : timer'[q] = timer[q]
  <2>1. b[k] # NoBatch => timer[p] \in {"armed", "fired"}
    BY <1>0, <1>1 DEF Consistent, Registration, Open
  <2> QED
    BY <2>1, <1>1, <1>3
<1>5. items'[p] = Append(items[p], e) /\ \A q \in Events \ {p} : items'[q] = items[q]
  BY <1>1, <1>3
<1>6. \A q : Flushing(q)' = Flushing(q)
  BY <1>3 DEF Flushing
<1>7. \A q \in Events : Forcing(q)' = IF q = p /\ hit THEN Forcing(q) \cup {w} ELSE Forcing(q)
  BY <1>1, <1>3 DEF Forcing
<1>8. w \notin Forcing(p)
  BY <1>3 DEF Forcing
<1>9. \A q \in Events \ {p} : Open(q)' => Open(q)
  BY <1>1, <1>3, KeyAssumption DEF Open
<1>10. Open(p)'
  BY <1>1, <1>3 DEF Open
<1>11. items'[p] # <<>> /\ Len(items'[p]) = Len(items[p]) + 1 /\ Len(items[p]) \in Nat
  <2>1. items[p] \in Seq(Events)
    BY <1>1
  <2>2. /\ Len(items[p]) \in Nat
        /\ Len(Append(items[p], e)) = Len(items[p]) + 1
        /\ Append(items[p], e) # <<>>
    BY <2>1, AppendLen
  <2> QED
    BY <2>2, <1>5
<1>12. Allocation'
  <2>1. Allocation
    BY DEF Consistent
  <2>2. timer'[p] # "none" /\ items'[p] # <<>>
    BY <1>4, <1>11
  <2>3. \A q \in Events : /\ timer'[q] = "none" => q # p
                          /\ items'[q] = <<>> => q # p
    BY <2>2
  <2> QED
    BY <2>1, <2>3, <1>3, <1>4, <1>5, <1>0 DEF Allocation
<1>13. Registration'
  <2>1. \A j \in Keys : b'[j] # NoBatch => KeyOf[b'[j]] = j
    BY <1>1, <1>3 DEF Consistent, Registration
  <2>2. \A q \in Events : Open(q)' =>
          timer'[q] \in {"armed", "fired"} /\ Flushing(q)' = {} /\ calls'[q] = <<>>
    BY <1>2, <1>3, <1>4, <1>6, <1>9 DEF Consistent, Registration
  <2> QED
    BY <2>1, <2>2 DEF Registration
<1>14. WorkersHoldBatches'
  BY <1>1, <1>3, <1>4 DEF Consistent, WorkersHoldBatches
<1>15. OpenBatchBound'
  <2> SUFFICES ASSUME NEW q \in Events, Open(q)'
               PROVE  Len(items'[q]) =< Cap - 1 + Cardinality(Forcing(q)')
    BY DEF OpenBatchBound
  <2>1. CASE q # p
    BY <2>1, <1>5, <1>7, <1>9 DEF Consistent, OpenBatchBound
  <2>2. CASE q = p /\ hit
    <3>1. Cardinality(Forcing(p)') = Cardinality(Forcing(p)) + 1
      <4>1. Forcing(p)' = Forcing(p) \cup {w} /\ w \notin Forcing(p)
        BY <2>2, <1>1, <1>7, <1>8
      <4> QED
        BY <4>1, ForcingFinite, FS_AddElement
    <3>2. Len(items[p]) =< Cap - 1 + Cardinality(Forcing(p))
      <4>1. CASE b[k] = NoBatch
        <5>1. items[p] = <<>>
          BY <4>1, <1>0, <1>3 DEF Consistent, Allocation
        <5> QED
          BY <5>1, ForcingFinite, CapAssumption
      <4>2. CASE b[k] # NoBatch
        BY <4>2, <1>0, <1>1 DEF Consistent, OpenBatchBound, Open
      <4> QED
        BY <4>1, <4>2
    <3> QED
      BY <2>2, <3>1, <3>2, <1>11, ForcingFinite, CapAssumption
  <2>3. CASE q = p /\ ~ hit
    <3>1. Len(Append(items[p], e)) < Cap
      BY <2>3, <1>5, <1>11, CapAssumption DEF HitCap
    <3>2. Forcing(p)' = Forcing(p)
      BY <2>3, <1>1, <1>7
    <3> QED
      BY <2>3, <3>1, <3>2, <1>5, <1>11, ForcingFinite, CapAssumption
  <2> QED
    BY <2>1, <2>2, <2>3
<1>16. BatchBound'
  <2> SUFFICES ASSUME NEW q \in Events
               PROVE  Len(items'[q]) =< Cap - 1 + Cardinality(Workers)
    BY DEF BatchBound
  <2>1. CASE q # p
    BY <2>1, <1>5 DEF Consistent, BatchBound
  <2>2. CASE q = p
    <3>1. Len(items'[p]) =< Cap - 1 + Cardinality(Forcing(p)')
      BY <1>1, <1>10, <1>15 DEF OpenBatchBound
    <3>2. Cardinality(Forcing(p)') \in Nat /\ Cardinality(Forcing(p)') =< Cardinality(Workers)
      <4>1. Forcing(p)' \in SUBSET Workers
        BY DEF Forcing
      <4> QED
        BY <4>1, WorkersAssumption, FS_Subset, FS_CardinalityType
    <3> QED
      <4> HIDE DEF TypeOK
      <4>1. Len(items'[p]) \in Nat /\ Cardinality(Workers) \in Nat /\ Cap \in Nat
        BY <1>11, ForcingFinite, CapAssumption
      <4> QED
        BY <2>2, <3>1, <3>2, <4>1
  <2> QED
    BY <2>1, <2>2
<1>17. OneCapFlush'
  <2>1. \A q \in Events : /\ CapFlushed(q)' = CapFlushed(q)
                          /\ TimerFlushed(q)' = TimerFlushed(q)
    BY <1>3 DEF CapFlushed, TimerFlushed
  <2>2. ~ TimerFlushed(p)
    BY <1>2 DEF TimerFlushed
  <2> QED
    BY <2>1, <2>2, <1>4, <1>6 DEF Consistent, OneCapFlush
<1>18. OneFlushPerCause'
  BY <1>3 DEF Consistent, OneFlushPerCause
<1>19. FlushIsFinal'
  <2>1. DOMAIN calls'[p] = {}
    BY <1>2, <1>3
  <2> QED
    BY <2>1, <1>3, <1>5 DEF Consistent, FlushIsFinal
<1>21. Membership'
  <2>1. Elems(items'[p]) = Elems(items[p]) \cup {e}
    BY <1>1, <1>5, ElemsAppend
  <2>2. \A q \in Events \ {p} : Elems(items'[q]) = Elems(items[q])
    BY <1>5 DEF Elems
  <2>3. \A q \in Events : e \notin Elems(items[q])
    BY <1>3 DEF Consistent, Membership
  <2>4. Membership
    BY DEF Consistent
  <2>5. \A d \in Events \ todo' : \E q \in Events : d \in Elems(items'[q])
    BY <2>1, <2>2, <2>4, <1>3 DEF Membership
  <2>6. \A q, d \in Events : d \in Elems(items'[q]) => d \notin todo' /\ KeyOf[q] = KeyOf[d]
    BY <2>1, <2>2, <2>4, <1>1, <1>3 DEF Membership
  <2>7. ASSUME NEW q \in Events, NEW r \in Events, NEW d \in Events,
               d \in Elems(items'[q]), d \in Elems(items'[r])
        PROVE  q = r
    <3>1. CASE d = e
      BY <3>1, <2>1, <2>2, <2>3, <2>7
    <3>2. CASE d # e
      BY <3>2, <2>1, <2>2, <2>4, <2>7 DEF Membership
    <3> QED
      BY <3>1, <3>2
  <2> QED
    BY <2>5, <2>6, <2>7 DEF Membership, Elems
<1> QED
  BY <1>12, <1>13, <1>14, <1>15, <1>16, <1>17, <1>18, <1>19, <1>21 DEF Consistent

LEMMA ForceFlushLostKeeps ==
  ASSUME Consistent, TypeOK', NEW w \in Workers, ForceFlushLost(w)
  PROVE  Consistent'
<1>1. PICK p \in Events : p = worker[w].p
  BY DEF Consistent, WorkersHoldBatches, ForceFlushLost
<1>2. /\ worker[w].pc = "force" /\ ~ Open(p)
      /\ worker' = [worker EXCEPT ![w] = Idle]
      /\ UNCHANGED <<todo, b, items, timer, calls>>
  BY <1>1 DEF ForceFlushLost
<1>3. worker \in [Workers -> [pc : {"idle", "force", "flush"}, p : Events \cup {NoBatch}]]
  BY DEF Consistent, TypeOK
<1>4. \A q \in Events : Open(q)' <=> Open(q)
  BY <1>2 DEF Open
<1>5. \A q \in Events : Flushing(q)' = Flushing(q)
  BY <1>2, <1>3 DEF Flushing
<1>6. \A q \in Events \ {p} : Forcing(q)' = Forcing(q)
  BY <1>1, <1>2, <1>3 DEF Forcing
<1>7. \A q \in Events : /\ CapFlushed(q)' = CapFlushed(q)
                        /\ TimerFlushed(q)' = TimerFlushed(q)
  BY <1>2 DEF CapFlushed, TimerFlushed
<1>8. /\ Allocation' /\ BatchBound' /\ OneFlushPerCause' /\ FlushIsFinal' /\ Membership'
  BY <1>2 DEF Consistent, Allocation, BatchBound, OneFlushPerCause, FlushIsFinal, Membership
<1>9. Registration'
  BY <1>2, <1>4, <1>5 DEF Consistent, Registration
<1>10. WorkersHoldBatches'
  BY <1>2, <1>3 DEF Consistent, WorkersHoldBatches
<1>11. OpenBatchBound'
  BY <1>2, <1>4, <1>6 DEF Consistent, OpenBatchBound
<1>12. OneCapFlush'
  BY <1>2, <1>5, <1>7 DEF Consistent, OneCapFlush
<1> QED
  BY <1>8, <1>9, <1>10, <1>11, <1>12 DEF Consistent

LEMMA ForceFlushKeeps ==
  ASSUME Consistent, TypeOK', NEW w \in Workers, ForceFlush(w)
  PROVE  Consistent'
<1>1. PICK p \in Events : p = worker[w].p
  BY DEF Consistent, WorkersHoldBatches, ForceFlush
<1> DEFINE k == KeyOf[p]
<1>2. /\ worker[w].pc = "force" /\ Open(p)
      /\ b' = [b EXCEPT ![k] = NoBatch]
      /\ timer' = IF timer[p] = "armed" THEN [timer EXCEPT ![p] = "stopped"] ELSE timer
      /\ worker' = [worker EXCEPT ![w].pc = "flush"]
      /\ UNCHANGED <<todo, items, calls>>
  BY <1>1 DEF ForceFlush, Delete
<1>3. /\ worker \in [Workers -> [pc : {"idle", "force", "flush"}, p : Events \cup {NoBatch}]]
      /\ b \in [Keys -> Events \cup {NoBatch}]
      /\ timer \in [Events -> {"none", "armed", "fired", "flushing", "stopped", "done"}]
  BY DEF Consistent, TypeOK
<1>4. /\ k \in Keys /\ b[k] = p /\ p # NoBatch
      /\ timer[p] \in {"armed", "fired"} /\ Flushing(p) = {} /\ calls[p] = <<>>
  BY <1>2, KeyAssumption, NoBatchAssumption DEF Consistent, Registration, Open
<1>5. \A q \in Events : Open(q)' => Open(q) /\ q # p
  BY <1>2, <1>3, <1>4, KeyAssumption, NoBatchAssumption DEF Open
<1>6. \A q \in Events \ {p} : Flushing(q)' = Flushing(q) /\ Forcing(q)' = Forcing(q)
  BY <1>1, <1>2, <1>3 DEF Flushing, Forcing
<1>7. Flushing(p)' = {w}
  <2>1. worker'[w] = [pc |-> "flush", p |-> p]
    BY <1>1, <1>2, <1>3
  <2>2. \A v \in Workers \ {w} : worker'[v] = worker[v]
    BY <1>2
  <2>3. \A v \in Workers : worker[v] # [pc |-> "flush", p |-> p]
    BY <1>4 DEF Flushing
  <2> QED
    BY <2>1, <2>2, <2>3 DEF Flushing
<1>8. /\ timer'[p] \in {"stopped", "fired"}
      /\ \A q \in Events \ {p} : timer'[q] = timer[q]
  BY <1>2, <1>3, <1>4
<1>9. \A q \in Events : /\ CapFlushed(q)' = CapFlushed(q)
                        /\ TimerFlushed(q)' = TimerFlushed(q)
  BY <1>2 DEF CapFlushed, TimerFlushed
<1>10. ~ CapFlushed(p) /\ ~ TimerFlushed(p)
  BY <1>4 DEF CapFlushed, TimerFlushed
<1>11. BatchBound' /\ OneFlushPerCause' /\ FlushIsFinal' /\ Membership'
  BY <1>2 DEF Consistent, BatchBound, OneFlushPerCause, FlushIsFinal, Membership
<1>12. Allocation'
  BY <1>2, <1>4, <1>8 DEF Consistent, Allocation
<1>13. Registration'
  <2>1. \A j \in Keys : b'[j] # NoBatch => KeyOf[b'[j]] = j
    BY <1>2, <1>3 DEF Consistent, Registration
  <2>2. \A q \in Events : Open(q)' =>
          timer'[q] \in {"armed", "fired"} /\ Flushing(q)' = {} /\ calls'[q] = <<>>
    BY <1>2, <1>5, <1>6, <1>8 DEF Consistent, Registration
  <2> QED
    BY <2>1, <2>2 DEF Registration
<1>14. WorkersHoldBatches'
  BY <1>1, <1>2, <1>3, <1>8 DEF Consistent, WorkersHoldBatches
<1>15. OpenBatchBound'
  BY <1>2, <1>5, <1>6 DEF Consistent, OpenBatchBound
<1>16. OneCapFlush'
  BY <1>6, <1>7, <1>8, <1>9, <1>10 DEF Consistent, OneCapFlush
<1> QED
  BY <1>11, <1>12, <1>13, <1>14, <1>15, <1>16 DEF Consistent

(* What one Flush call does to the record of calls of a non-empty batch. *)
LEMMA FlushBatchEffect ==
  ASSUME TypeOK, NEW p \in Events, NEW by \in {"cap", "timer"}, items[p] # <<>>,
         FlushBatch(p, by)
  PROVE  /\ calls'[p] # <<>>
         /\ DOMAIN calls'[p] = DOMAIN calls[p] \cup {Len(calls[p]) + 1}
         /\ Len(calls[p]) + 1 \notin DOMAIN calls[p]
         /\ \A i \in DOMAIN calls[p] : calls'[p][i] = calls[p][i]
         /\ calls'[p][Len(calls[p]) + 1] = [by |-> by, batch |-> items[p]]
         /\ \A q \in Events \ {p} : calls'[q] = calls[q]
<1> DEFINE c == [by |-> by, batch |-> items[p]]
<1>1. c \in Call /\ calls[p] \in Seq(Call)
  BY DEF TypeOK, Call
<1>2. calls'[p] = Append(calls[p], c) /\ \A q \in Events \ {p} : calls'[q] = calls[q]
  BY DEF FlushBatch, TypeOK
<1> HIDE DEF c
<1>3. /\ DOMAIN calls[p] = 1..Len(calls[p]) /\ Len(calls[p]) \in Nat
      /\ DOMAIN Append(calls[p], c) = 1..(Len(calls[p]) + 1)
      /\ \A i \in 1..Len(calls[p]) : Append(calls[p], c)[i] = calls[p][i]
      /\ Append(calls[p], c)[Len(calls[p]) + 1] = c
  BY <1>1
<1>4. Append(calls[p], c) # <<>>
  BY <1>1, AppendLen
<1> QED
  BY <1>2, <1>3, <1>4 DEF c

(* A first Flush of its kind keeps the history of calls sound. *)
LEMMA FlushBatchHistory ==
  ASSUME TypeOK, OneFlushPerCause, FlushIsFinal, UNCHANGED items,
         NEW p \in Events, NEW by \in {"cap", "timer"}, items[p] # <<>>,
         FlushBatch(p, by), \A i \in DOMAIN calls[p] : calls[p][i].by # by
  PROVE  /\ OneFlushPerCause' /\ FlushIsFinal'
         /\ \A q \in Events : /\ CapFlushed(q)' <=> CapFlushed(q) \/ (q = p /\ by = "cap")
                              /\ TimerFlushed(q)' <=> TimerFlushed(q) \/ (q = p /\ by = "timer")
<1> DEFINE n == Len(calls[p]) + 1
<1>1. /\ DOMAIN calls'[p] = DOMAIN calls[p] \cup {n} /\ n \notin DOMAIN calls[p]
      /\ \A i \in DOMAIN calls[p] : calls'[p][i] = calls[p][i]
      /\ calls'[p][n].by = by /\ calls'[p][n].batch = items[p]
      /\ \A q \in Events \ {p} : calls'[q] = calls[q]
  <2>1. [by |-> by, batch |-> items[p]].by = by /\ [by |-> by, batch |-> items[p]].batch = items[p]
    OBVIOUS
  <2> QED
    BY <2>1, FlushBatchEffect
<1> HIDE DEF n
<1>2. OneFlushPerCause'
  <2> SUFFICES ASSUME NEW q \in Events, NEW i \in DOMAIN calls'[q], NEW j \in DOMAIN calls'[q],
                      calls'[q][i].by = calls'[q][j].by
               PROVE  i = j
    BY DEF OneFlushPerCause
  <2>1. CASE q # p
    BY <2>1, <1>1 DEF OneFlushPerCause
  <2>2. CASE q = p
    BY <2>2, <1>1 DEF OneFlushPerCause
  <2> QED
    BY <2>1, <2>2
<1>3. FlushIsFinal'
  <2> SUFFICES ASSUME NEW q \in Events, NEW i \in DOMAIN calls'[q]
               PROVE  calls'[q][i].batch = items[q]
    BY DEF FlushIsFinal
  <2>1. CASE q # p
    BY <2>1, <1>1 DEF FlushIsFinal
  <2>2. CASE q = p
    BY <2>2, <1>1 DEF FlushIsFinal
  <2> QED
    BY <2>1, <2>2
<1>4. \A q \in Events : /\ CapFlushed(q)' <=> CapFlushed(q) \/ (q = p /\ by = "cap")
                        /\ TimerFlushed(q)' <=> TimerFlushed(q) \/ (q = p /\ by = "timer")
  BY <1>1 DEF CapFlushed, TimerFlushed
<1> QED
  BY <1>2, <1>3, <1>4

LEMMA CapFlushKeeps ==
  ASSUME Consistent, TypeOK', NEW w \in Workers, CapFlush(w)
  PROVE  Consistent'
<1>1. PICK p \in Events : p = worker[w].p
  BY DEF Consistent, WorkersHoldBatches, CapFlush
<1>2. /\ worker[w].pc = "flush" /\ FlushBatch(p, "cap")
      /\ worker' = [worker EXCEPT ![w] = Idle]
      /\ UNCHANGED <<todo, b, items, timer>>
  BY <1>1 DEF CapFlush
<1>3. /\ worker \in [Workers -> [pc : {"idle", "force", "flush"}, p : Events \cup {NoBatch}]]
      /\ b \in [Keys -> Events \cup {NoBatch}]
  BY DEF Consistent, TypeOK
<1>4. w \in Flushing(p) /\ \A v \in Flushing(p) : v = w
  <2>1. worker[w] = [pc |-> "flush", p |-> p]
    BY <1>1, <1>2, <1>3
  <2>2. w \in Flushing(p)
    BY <2>1 DEF Flushing
  <2> QED
    BY <2>2 DEF Consistent, OneCapFlush
<1>5. items[p] # <<>> /\ timer[p] # "none"
  BY <1>1, <1>2 DEF Consistent, WorkersHoldBatches, Allocation
<1>6. ~ CapFlushed(p)
  BY <1>4 DEF Consistent, OneCapFlush
<1>7. /\ OneFlushPerCause' /\ FlushIsFinal'
      /\ \A q \in Events : /\ CapFlushed(q)' <=> CapFlushed(q) \/ q = p
                           /\ TimerFlushed(q)' <=> TimerFlushed(q)
  BY <1>2, <1>5, <1>6, FlushBatchHistory DEF Consistent, CapFlushed
<1>8. calls'[p] # <<>> /\ \A q \in Events \ {p} : calls'[q] = calls[q]
  BY <1>2, <1>5, FlushBatchEffect DEF Consistent
<1>9. Flushing(p)' = {} /\ \A q \in Events \ {p} : Flushing(q)' = Flushing(q)
  <2>1. \A v \in Workers \ {w} : worker'[v] = worker[v]
    BY <1>2
  <2>2. worker'[w] = Idle
    BY <1>2, <1>3
  <2> QED
    BY <2>1, <2>2, <1>1, <1>4 DEF Flushing
<1>10. \A q \in Events : Forcing(q)' = Forcing(q)
  BY <1>2, <1>3 DEF Forcing
<1>11. ~ Open(p)
  BY <1>4 DEF Consistent, Registration
<1>12. BatchBound' /\ Membership'
  BY <1>2 DEF Consistent, BatchBound, Membership
<1>13. Allocation'
  BY <1>2, <1>5, <1>8 DEF Consistent, Allocation
<1>14. Registration'
  <2>1. \A k \in Keys : b'[k] # NoBatch => KeyOf[b'[k]] = k
    BY <1>2 DEF Consistent, Registration
  <2>2. \A q \in Events : Open(q)' =>
          timer'[q] \in {"armed", "fired"} /\ Flushing(q)' = {} /\ calls'[q] = <<>>
    BY <1>2, <1>8, <1>9, <1>11 DEF Consistent, Registration, Open
  <2> QED
    BY <2>1, <2>2 DEF Registration
<1>15. WorkersHoldBatches'
  BY <1>2, <1>3 DEF Consistent, WorkersHoldBatches
<1>16. OpenBatchBound'
  BY <1>2, <1>10 DEF Consistent, OpenBatchBound, Open
<1>17. OneCapFlush'
  BY <1>2, <1>7, <1>9 DEF Consistent, OneCapFlush
<1> QED
  BY <1>7, <1>12, <1>13, <1>14, <1>15, <1>16, <1>17 DEF Consistent

LEMMA FireKeeps ==
  ASSUME Consistent, TypeOK', NEW p \in Events, Fire(p)
  PROVE  Consistent'
<1>1. /\ timer[p] = "armed" /\ timer' = [timer EXCEPT ![p] = "fired"]
      /\ timer'[p] = "fired" /\ \A q \in Events \ {p} : timer'[q] = timer[q]
      /\ UNCHANGED <<todo, b, items, worker, calls>>
  BY DEF Consistent, TypeOK, Fire
<1>2. \A q \in Events : /\ Open(q)' = Open(q)
                        /\ Flushing(q)' = Flushing(q) /\ Forcing(q)' = Forcing(q)
                        /\ CapFlushed(q)' = CapFlushed(q)
                        /\ TimerFlushed(q)' = TimerFlushed(q)
  BY <1>1 DEF Open, Flushing, Forcing, CapFlushed, TimerFlushed
<1>3. BatchBound' /\ OneFlushPerCause' /\ FlushIsFinal' /\ Membership'
  BY <1>1 DEF Consistent, BatchBound, OneFlushPerCause, FlushIsFinal, Membership
<1>4. Allocation'
  BY <1>1 DEF Consistent, Allocation
<1>5. Registration'
  BY <1>1, <1>2 DEF Consistent, Registration
<1>6. WorkersHoldBatches'
  BY <1>1 DEF Consistent, WorkersHoldBatches
<1>7. OpenBatchBound'
  BY <1>1, <1>2 DEF Consistent, OpenBatchBound
<1>8. OneCapFlush'
  BY <1>1, <1>2 DEF Consistent, OneCapFlush
<1> QED
  BY <1>3, <1>4, <1>5, <1>6, <1>7, <1>8 DEF Consistent

LEMMA TimerLockKeeps ==
  ASSUME Consistent, TypeOK', NEW p \in Events, TimerLock(p)
  PROVE  Consistent'
<1>1. /\ timer[p] = "fired" /\ timer' = [timer EXCEPT ![p] = "flushing"]
      /\ timer'[p] = "flushing" /\ \A q \in Events \ {p} : timer'[q] = timer[q]
      /\ b' = IF Open(p) THEN [b EXCEPT ![KeyOf[p]] = NoBatch] ELSE b
      /\ UNCHANGED <<todo, items, worker, calls>>
  BY DEF Consistent, TypeOK, TimerLock, Delete
<1>2. b \in [Keys -> Events \cup {NoBatch}]
  BY DEF Consistent, TypeOK
<1>3. \A q \in Events : /\ Flushing(q)' = Flushing(q) /\ Forcing(q)' = Forcing(q)
                        /\ CapFlushed(q)' = CapFlushed(q)
                        /\ TimerFlushed(q)' = TimerFlushed(q)
  BY <1>1 DEF Flushing, Forcing, CapFlushed, TimerFlushed
<1>4. \A q \in Events : Open(q)' => Open(q) /\ q # p
  BY <1>1, <1>2, KeyAssumption, NoBatchAssumption DEF Open
<1>5. BatchBound' /\ OneFlushPerCause' /\ FlushIsFinal' /\ Membership'
  BY <1>1 DEF Consistent, BatchBound, OneFlushPerCause, FlushIsFinal, Membership
<1>6. Allocation'
  BY <1>1 DEF Consistent, Allocation
<1>7. Registration'
  <2>1. \A k \in Keys : b'[k] # NoBatch => KeyOf[b'[k]] = k
    BY <1>1, <1>2 DEF Consistent, Registration
  <2>2. \A q \in Events : Open(q)' =>
          timer'[q] \in {"armed", "fired"} /\ Flushing(q)' = {} /\ calls'[q] = <<>>
    BY <1>1, <1>3, <1>4 DEF Consistent, Registration
  <2> QED
    BY <2>1, <2>2 DEF Registration
<1>8. WorkersHoldBatches'
  BY <1>1 DEF Consistent, WorkersHoldBatches
<1>9. OpenBatchBound'
  BY <1>1, <1>3, <1>4 DEF Consistent, OpenBatchBound
<1>10. OneCapFlush'
  BY <1>1, <1>3 DEF Consistent, OneCapFlush
<1> QED
  BY <1>5, <1>6, <1>7, <1>8, <1>9, <1>10 DEF Consistent

LEMMA TimerFlushKeeps ==
  ASSUME Consistent, TypeOK', NEW p \in Events, TimerFlush(p)
  PROVE  Consistent'
<1>1. /\ timer[p] = "flushing" /\ FlushBatch(p, "timer")
      /\ timer'[p] = "done" /\ \A q \in Events \ {p} : timer'[q] = timer[q]
      /\ UNCHANGED <<todo, b, items, worker>>
  BY DEF Consistent, TypeOK, TimerFlush
<1>2. items[p] # <<>>
  BY <1>1 DEF Consistent, Allocation
<1>3. ~ TimerFlushed(p) /\ ~ Open(p)
  BY <1>1 DEF Consistent, OneCapFlush, Registration
<1>4. /\ OneFlushPerCause' /\ FlushIsFinal'
      /\ \A q \in Events : /\ CapFlushed(q)' <=> CapFlushed(q)
                           /\ TimerFlushed(q)' <=> TimerFlushed(q) \/ q = p
  BY <1>1, <1>2, <1>3, FlushBatchHistory DEF Consistent, TimerFlushed
<1>5. calls'[p] # <<>> /\ \A q \in Events \ {p} : calls'[q] = calls[q]
  BY <1>1, <1>2, FlushBatchEffect DEF Consistent
<1>6. \A q \in Events : /\ Open(q)' = Open(q)
                        /\ Flushing(q)' = Flushing(q) /\ Forcing(q)' = Forcing(q)
  BY <1>1 DEF Open, Flushing, Forcing
<1>7. BatchBound' /\ Membership'
  BY <1>1 DEF Consistent, BatchBound, Membership
<1>8. Allocation'
  BY <1>1, <1>2, <1>5 DEF Consistent, Allocation
<1>9. Registration'
  BY <1>1, <1>3, <1>5, <1>6 DEF Consistent, Registration
<1>10. WorkersHoldBatches'
  BY <1>1 DEF Consistent, WorkersHoldBatches
<1>11. OpenBatchBound'
  BY <1>1, <1>6 DEF Consistent, OpenBatchBound
<1>12. OneCapFlush'
  BY <1>1, <1>4, <1>5, <1>6 DEF Consistent, OneCapFlush
<1> QED
  BY <1>4, <1>7, <1>8, <1>9, <1>10, <1>11, <1>12 DEF Consistent

LEMMA StutterKeeps ==
  ASSUME Consistent, UNCHANGED vars
  PROVE  Consistent'
<1>1. UNCHANGED <<todo, b, items, timer, worker, calls>>
  BY DEF vars
<1>2. \A q \in Events : /\ Open(q)' = Open(q)
                        /\ Flushing(q)' = Flushing(q) /\ Forcing(q)' = Forcing(q)
                        /\ CapFlushed(q)' = CapFlushed(q)
                        /\ TimerFlushed(q)' = TimerFlushed(q)
  BY <1>1 DEF Open, Flushing, Forcing, CapFlushed, TimerFlushed
<1>3. TypeOK' /\ Allocation' /\ BatchBound' /\ OneFlushPerCause' /\ FlushIsFinal' /\ Membership'
  BY <1>1 DEF Consistent, TypeOK, Allocation, BatchBound, OneFlushPerCause, FlushIsFinal, Membership
<1>4. Registration' /\ WorkersHoldBatches' /\ OpenBatchBound'
  BY <1>1, <1>2 DEF Consistent, Registration, WorkersHoldBatches, OpenBatchBound
<1>5. OneCapFlush'
  BY <1>1, <1>2 DEF Consistent, OneCapFlush
<1> QED
  BY <1>3, <1>4, <1>5 DEF Consistent

(* Everything but StoppedIsFlushed survives each step. *)
LEMMA StepKeeps == Consistent /\ [Next]_vars => Consistent'
<1> SUFFICES ASSUME Consistent, [Next]_vars PROVE Consistent'
  OBVIOUS
<1>1. TypeOK'
  BY TypeStep DEF Consistent
<1>2. ASSUME NEW w \in Workers, NEW e \in Events, Add(w, e) PROVE Consistent'
  BY <1>1, <1>2, AddKeeps
<1>3. ASSUME NEW w \in Workers, WorkerStep(w) PROVE Consistent'
  BY <1>1, <1>3, ForceFlushLostKeeps, ForceFlushKeeps, CapFlushKeeps DEF WorkerStep
<1>4. ASSUME NEW p \in Events, TimerStep(p) PROVE Consistent'
  BY <1>1, <1>4, FireKeeps, TimerLockKeeps, TimerFlushKeeps DEF TimerStep
<1>5. CASE UNCHANGED vars
  BY <1>5, StutterKeeps
<1> QED
  BY <1>2, <1>3, <1>4, <1>5 DEF Next

LEMMA StoppedStep == IInv /\ [Next]_vars => StoppedIsFlushed'
<1> SUFFICES ASSUME IInv, [Next]_vars, NEW p \in Events
             PROVE  /\ timer'[p] = "stopped" => Flushing(p)' # {} \/ calls'[p] # <<>>
                    /\ timer'[p] = "done" => calls'[p] # <<>>
  BY DEF StoppedIsFlushed
<1>1. /\ Consistent /\ TypeOK
      /\ timer[p] = "stopped" => Flushing(p) # {} \/ calls[p] # <<>>
      /\ timer[p] = "done" => calls[p] # <<>>
  BY DEF IInv, Consistent, StoppedIsFlushed
<1>2. /\ timer \in [Events -> {"none", "armed", "fired", "flushing", "stopped", "done"}]
      /\ worker \in [Workers -> [pc : {"idle", "force", "flush"}, p : Events \cup {NoBatch}]]
  BY <1>1 DEF TypeOK
<1>3. ASSUME NEW w \in Workers, NEW e \in Events, Add(w, e)
      PROVE  /\ timer'[p] = "stopped" => Flushing(p)' # {} \/ calls'[p] # <<>>
             /\ timer'[p] = "done" => calls'[p] # <<>>
  <2>1. calls' = calls /\ Flushing(p)' = Flushing(p)
    BY <1>3, <1>2 DEF Add, Flushing
  <2>2. timer'[p] = timer[p] \/ timer'[p] = "armed"
    BY <1>3, <1>2 DEF Add, Arm
  <2> QED
    BY <1>1, <2>1, <2>2
<1>4. ASSUME NEW w \in Workers, ForceFlushLost(w)
      PROVE  timer' = timer /\ calls' = calls /\ Flushing(p)' = Flushing(p)
  BY <1>4, <1>2 DEF ForceFlushLost, Flushing
<1>5. ASSUME NEW w \in Workers, ForceFlush(w)
      PROVE  /\ timer'[p] = "stopped" => Flushing(p)' # {} \/ calls'[p] # <<>>
             /\ timer'[p] = "done" => calls'[p] # <<>>
  <2>1. worker' = [worker EXCEPT ![w].pc = "flush"] /\ calls' = calls /\ worker[w].pc = "force"
    BY <1>5 DEF ForceFlush
  <2>2. worker'[w] = [pc |-> "flush", p |-> worker[w].p]
    BY <1>2, <2>1
  <2>3. CASE p = worker[w].p
    <3>1. w \in Flushing(p)'
      BY <2>2, <2>3 DEF Flushing
    <3>2. timer'[p] = timer[p] \/ timer'[p] = "stopped"
      BY <1>2, <1>5 DEF ForceFlush
    <3> QED
      BY <1>1, <2>1, <3>1, <3>2
  <2>4. CASE p # worker[w].p
    <3>1. timer'[p] = timer[p]
      BY <1>2, <1>5, <2>4 DEF ForceFlush
    <3>2. Flushing(p)' = Flushing(p)
      BY <1>2, <2>1, <2>2, <2>4 DEF Flushing
    <3> QED
      BY <1>1, <2>1, <3>1, <3>2
  <2> QED
    BY <2>3, <2>4
<1>6. ASSUME NEW w \in Workers, CapFlush(w)
      PROVE  /\ timer'[p] = "stopped" => Flushing(p)' # {} \/ calls'[p] # <<>>
             /\ timer'[p] = "done" => calls'[p] # <<>>
  <2>1. PICK q \in Events : q = worker[w].p /\ items[q] # <<>>
    BY <1>1, <1>6 DEF Consistent, WorkersHoldBatches, Allocation, CapFlush
  <2>2. calls'[q] # <<>> /\ \A r \in Events \ {q} : calls'[r] = calls[r]
    BY <1>1, <1>6, <2>1, FlushBatchEffect DEF CapFlush
  <2>3. timer' = timer /\ worker' = [worker EXCEPT ![w] = Idle] /\ worker[w].pc = "flush"
    BY <1>6 DEF CapFlush
  <2>4. p # q => Flushing(p)' = Flushing(p)
    BY <1>2, <2>1, <2>3 DEF Flushing
  <2> QED
    BY <1>1, <2>2, <2>3, <2>4
<1>7. ASSUME NEW q \in Events, Fire(q) \/ TimerLock(q)
      PROVE  /\ timer'[p] = "stopped" => Flushing(p)' # {} \/ calls'[p] # <<>>
             /\ timer'[p] = "done" => calls'[p] # <<>>
  <2>1. calls' = calls /\ Flushing(p)' = Flushing(p)
    BY <1>7 DEF Fire, TimerLock, Flushing
  <2>2. timer'[p] = timer[p] \/ timer'[p] \in {"fired", "flushing"}
    BY <1>2, <1>7 DEF Fire, TimerLock
  <2> QED
    BY <1>1, <2>1, <2>2
<1>8. ASSUME NEW q \in Events, TimerFlush(q)
      PROVE  /\ timer'[p] = "stopped" => Flushing(p)' # {} \/ calls'[p] # <<>>
             /\ timer'[p] = "done" => calls'[p] # <<>>
  <2>1. items[q] # <<>> /\ FlushBatch(q, "timer")
    BY <1>1, <1>8 DEF Consistent, Allocation, TimerFlush
  <2>2. calls'[q] # <<>> /\ \A r \in Events \ {q} : calls'[r] = calls[r]
    BY <1>1, <2>1, FlushBatchEffect
  <2>3. Flushing(p)' = Flushing(p) /\ (p # q => timer'[p] = timer[p])
    BY <1>2, <1>8 DEF TimerFlush, Flushing
  <2> QED
    BY <1>1, <2>2, <2>3
<1>9. CASE UNCHANGED vars
  BY <1>9, <1>1 DEF vars, Flushing
<1> QED
  BY <1>1, <1>3, <1>4, <1>5, <1>6, <1>7, <1>8, <1>9 DEF Next, WorkerStep, TimerStep

LEMMA StepIInv == IInv /\ [Next]_vars => IInv'
BY StepKeeps, StoppedStep DEF IInv

THEOREM Inductive == Spec => []IInv
BY InitIInv, StepIInv, PTL DEF Spec

-----------------------------------------------------------------------------
(* What the invariant gives. *)

(* A batch outgrows the cap by at most one event per concurrent handler.   *)
THEOREM BatchesBounded == Spec => []BatchBound
<1>1. IInv => BatchBound
  BY DEF IInv, Consistent
<1> QED
  BY <1>1, Inductive, PTL

(* Only a batch's timer can flush it a second time.                        *)
THEOREM FlushedOncePerCause == Spec => []OneFlushPerCause
<1>1. IInv => OneFlushPerCause
  BY DEF IInv, Consistent
<1> QED
  BY <1>1, Inductive, PTL

(* The unlocked read of p.items in flushBatch sees the final batch.        *)
THEOREM FlushSeesFinalBatch == Spec => []FlushIsFinal
<1>1. IInv => FlushIsFinal
  BY DEF IInv, Consistent
<1> QED
  BY <1>1, Inductive, PTL

(* No added event is stranded.                                             *)
THEOREM EventsAreHeld == Spec => []NoEventLost
<1>1. ASSUME IInv PROVE NoEventLost
  <2> SUFFICES ASSUME NEW e \in Events \ todo
               PROVE  \E p \in Events : /\ e \in Elems(items[p])
                                        /\ KeyOf[p] = KeyOf[e]
                                        /\ Held(p)
                                        /\ \A q \in Events \ {p} : e \notin Elems(items[q])
    BY DEF NoEventLost
  <2>1. PICK p \in Events : e \in Elems(items[p])
    BY <1>1 DEF IInv, Consistent, Membership
  <2>2. KeyOf[p] = KeyOf[e] /\ \A q \in Events \ {p} : e \notin Elems(items[q])
    BY <1>1, <2>1 DEF IInv, Consistent, Membership
  <2>3. items[p] # <<>>
    BY <2>1 DEF Elems
  <2>4. timer[p] \in {"armed", "fired", "flushing", "stopped", "done"}
    BY <1>1, <2>3 DEF IInv, Consistent, Allocation, TypeOK
  <2>5. Held(p)
    BY <1>1, <2>4 DEF IInv, Consistent, StoppedIsFlushed, Held
  <2> QED
    BY <2>1, <2>2, <2>5
<1> QED
  BY <1>1, Inductive, PTL

(* A full open batch is never left to its timer: the handler that filled   *)
(* it, or a later one, is about to flush it.                               *)
THEOREM FullBatchesTaken == Spec => []FullBatchIsTaken
<1>1. ASSUME IInv PROVE FullBatchIsTaken
  <2> SUFFICES ASSUME NEW p \in Events, Open(p), Len(items[p]) >= Cap
               PROVE  Forcing(p) # {}
    BY DEF FullBatchIsTaken
  <2>1. Len(items[p]) =< Cap - 1 + Cardinality(Forcing(p)) /\ Len(items[p]) \in Nat
    BY <1>1 DEF IInv, Consistent, TypeOK, OpenBatchBound
  <2>2. Cardinality(Forcing(p)) # 0
    BY <2>1, CapAssumption, ForcingFinite
  <2> QED
    BY <2>2, FS_EmptySet
<1> QED
  BY <1>1, Inductive, PTL

-----------------------------------------------------------------------------
(* Coalescer implements BatchingSpec. *)

FlushedEvents ==
  {e \in Events : \E p \in Events : calls[p] # <<>> /\ e \in Elems(items[p])}

LEMMA EmittedIsFlushed == Consistent => Emitted = FlushedEvents
<1> SUFFICES ASSUME Consistent PROVE Emitted = FlushedEvents
  OBVIOUS
<1> USE DEF FlushedEvents
<1>1. \A p \in Events : \A i \in DOMAIN calls[p] : calls[p][i].batch = items[p]
  BY DEF Consistent, FlushIsFinal
<1>2. ASSUME NEW p \in Events, calls[p] # <<>> PROVE 1 \in DOMAIN calls[p]
  <2>1. calls[p] \in Seq(Call)
    BY DEF Consistent, TypeOK
  <2> QED
    BY <2>1, <1>2
<1>3. \A p \in Events : Elems(items[p]) \subseteq Events
  BY DEF Consistent, TypeOK, Elems
<1>4. ASSUME NEW e, e \in Emitted
      PROVE  \E p \in Events : calls[p] # <<>> /\ e \in Elems(items[p])
  <2>1. PICK p \in Events : \E c \in Elems(calls[p]) : e \in Elems(c.batch)
    BY <1>4 DEF Emitted
  <2>2. PICK i \in DOMAIN calls[p] : e \in Elems(calls[p][i].batch)
    BY <2>1 DEF Elems
  <2>3. e \in Elems(items[p]) /\ calls[p] # <<>>
    BY <2>2, <1>1
  <2> QED
    BY <2>3
<1>5. ASSUME NEW e \in Events, NEW p \in Events, calls[p] # <<>>, e \in Elems(items[p])
      PROVE  e \in Emitted
  <2>1. calls[p][1] \in Elems(calls[p]) /\ e \in Elems(calls[p][1].batch)
    BY <1>1, <1>2, <1>5 DEF Elems
  <2> QED
    BY <2>1 DEF Emitted
<1> QED
  BY <1>3, <1>4, <1>5

LEMMA EmittedIsFlushedNext == (Consistent => Emitted = FlushedEvents)'
BY EmittedIsFlushed, PTL

LEMMA ElemsCardinality ==
  ASSUME NEW S, NEW s \in Seq(S)
  PROVE  Cardinality(Elems(s)) =< Len(s)
<1>1. s \in Surjection(1..Len(s), Elems(s))
  BY DEF Surjection, Elems
<1> QED
  BY <1>1, FS_SurjCardinalityBound DEF ExistsSurjection

(* What a batch holds makes one message. *)
LEMMA BatchFacts ==
  ASSUME Consistent, NEW p \in Events
  PROVE  /\ Elems(items[p]) \in SUBSET (Events \ todo)
         /\ Cardinality(Elems(items[p])) =< Cap - 1 + Cardinality(Workers)
         /\ \A d, e \in Elems(items[p]) : KeyOf[d] = KeyOf[e]
         /\ items[p] # <<>> => Elems(items[p]) # {}
<1>1. items[p] \in Seq(Events) /\ Len(items[p]) =< Cap - 1 + Cardinality(Workers)
  BY DEF Consistent, TypeOK, BatchBound
<1>2. Elems(items[p]) \subseteq Events
  BY <1>1 DEF Elems
<1>3. Elems(items[p]) \in SUBSET (Events \ todo)
  BY <1>2 DEF Consistent, Membership
<1>4. \A d, e \in Elems(items[p]) : KeyOf[d] = KeyOf[e]
  BY <1>2 DEF Consistent, Membership
<1>5. ASSUME items[p] # <<>> PROVE Elems(items[p]) # {}
  <2>1. 1 \in DOMAIN items[p]
    BY <1>1, <1>5
  <2> QED
    BY <2>1 DEF Elems
<1>6. IsFiniteSet(Elems(items[p])) /\ Cardinality(Elems(items[p])) =< Len(items[p])
  <2>1. items[p] \in Surjection(1..Len(items[p]), Elems(items[p]))
    BY <1>1 DEF Surjection, Elems
  <2> QED
    BY <2>1, <1>1, ElemsCardinality, FS_Surjection, FS_Interval
<1>7. Cardinality(Elems(items[p])) \in Nat /\ Len(items[p]) \in Nat
  BY <1>1, <1>6, FS_CardinalityType
<1>8. Cardinality(Workers) \in Nat /\ Cap \in Int
  BY ForcingFinite, CapAssumption
<1>9. Cardinality(Elems(items[p])) =< Cap - 1 + Cardinality(Workers)
  BY <1>1, <1>6, <1>7, <1>8
<1> QED
  BY <1>3, <1>4, <1>5, <1>9

LEMMA InitPromise == Init => Promise!Init
<1> SUFFICES ASSUME Init PROVE Promise!Init
  OBVIOUS
<1>1. Emitted = {}
  BY DEF Init, Emitted, Elems
<1> QED
  BY <1>1 DEF Init, Promise!Init

LEMMA AddPromise ==
  ASSUME Consistent, Consistent', NEW w \in Workers, NEW e \in Events, Add(w, e)
  PROVE  Promise!Next
<1>1. e \in todo /\ todo' = todo \ {e} /\ calls' = calls
  BY DEF Add
<1>2. Emitted' = Emitted
  BY <1>1 DEF Emitted
<1>3. e \notin Emitted
  BY <1>1, EmittedIsFlushed DEF Consistent, Membership, FlushedEvents
<1>4. Promise!Accept(e)
  BY <1>1, <1>2, <1>3 DEF Promise!Accept
<1> QED
  BY <1>4 DEF Promise!Next

LEMMA FlushPromise ==
  ASSUME Consistent, Consistent', NEW p \in Events, NEW by \in {"cap", "timer"}, items[p] # <<>>,
         FlushBatch(p, by), UNCHANGED <<todo, items>>
  PROVE  Promise!Next \/ UNCHANGED <<(Events \ todo) \ Emitted, Emitted>>
<1>1. calls'[p] # <<>> /\ \A q \in Events \ {p} : calls'[q] = calls[q]
  BY FlushBatchEffect DEF Consistent
<1>2. Emitted = {e \in Events : \E q \in Events : calls[q] # <<>> /\ e \in Elems(items[q])}
  BY EmittedIsFlushed DEF FlushedEvents
<1>3. Emitted' = {e \in Events : \E q \in Events : calls'[q] # <<>> /\ e \in Elems(items[q])}
  BY EmittedIsFlushedNext DEF FlushedEvents, Elems
<1>4. Elems(items[p]) \subseteq Events
  BY DEF Consistent, TypeOK, Elems
<1>5. Emitted' = Emitted \cup Elems(items[p])
  BY <1>1, <1>2, <1>3, <1>4
<1>6. CASE calls[p] # <<>>
  <2>1. Emitted' = Emitted
    BY <1>2, <1>4, <1>5, <1>6
  <2> QED
    BY <2>1
<1>7. CASE calls[p] = <<>>
  <2>1. Elems(items[p]) \cap Emitted = {}
    BY <1>2, <1>7 DEF Consistent, Membership
  <2>2. Elems(items[p]) \in SUBSET ((Events \ todo) \ Emitted)
    BY <2>1, <1>4 DEF Consistent, Membership
  <2>3. /\ Elems(items[p]) # {}
        /\ Cardinality(Elems(items[p])) =< Cap - 1 + Cardinality(Workers)
        /\ \A d, e \in Elems(items[p]) : KeyOf[d] = KeyOf[e]
    BY BatchFacts
  <2>4. Promise!Emit(Elems(items[p]))
    <3>1. ((Events \ todo) \ Emitted)' = ((Events \ todo) \ Emitted) \ Elems(items[p])
      BY <1>5
    <3> QED
      BY <3>1, <1>4, <1>5, <2>3 DEF Promise!Emit
  <2> QED
    BY <2>2, <2>4 DEF Promise!Next
<1> QED
  BY <1>6, <1>7

LEMMA StepPromise == Consistent /\ Consistent' /\ [Next]_vars => [Promise!Next]_(Promise!vars)
<1> SUFFICES ASSUME Consistent, Consistent', [Next]_vars
             PROVE  Promise!Next \/ UNCHANGED <<(Events \ todo) \ Emitted, Emitted>>
  BY DEF Promise!vars
<1>1. ASSUME NEW w \in Workers, NEW e \in Events, Add(w, e) PROVE Promise!Next
  BY <1>1, AddPromise
<1>2. ASSUME UNCHANGED <<todo, calls>> PROVE UNCHANGED <<(Events \ todo) \ Emitted, Emitted>>
  BY <1>2 DEF Emitted
<1>3. ASSUME NEW w \in Workers, WorkerStep(w)
      PROVE  Promise!Next \/ UNCHANGED <<(Events \ todo) \ Emitted, Emitted>>
  <2>1. CASE CapFlush(w)
    <3>1. worker[w].p \in Events /\ items[worker[w].p] # <<>>
      BY <2>1 DEF CapFlush, Consistent, WorkersHoldBatches, Allocation
    <3> QED
      BY <2>1, <3>1, FlushPromise DEF CapFlush
  <2>2. CASE ForceFlush(w) \/ ForceFlushLost(w)
    BY <2>2, <1>2 DEF ForceFlush, ForceFlushLost
  <2> QED
    BY <1>3, <2>1, <2>2 DEF WorkerStep
<1>4. ASSUME NEW p \in Events, TimerStep(p)
      PROVE  Promise!Next \/ UNCHANGED <<(Events \ todo) \ Emitted, Emitted>>
  <2>1. CASE TimerFlush(p)
    <3>1. items[p] # <<>>
      BY <2>1 DEF TimerFlush, Consistent, Allocation
    <3> QED
      BY <2>1, <3>1, FlushPromise DEF TimerFlush
  <2>2. CASE Fire(p) \/ TimerLock(p)
    BY <2>2, <1>2 DEF Fire, TimerLock
  <2> QED
    BY <1>4, <2>1, <2>2 DEF TimerStep
<1>5. CASE UNCHANGED vars
  BY <1>5, <1>2 DEF vars
<1> QED
  BY <1>1, <1>3, <1>4, <1>5 DEF Next

(* Every behaviour of the windows, timers and handlers is one in which     *)
(* accepted events leave together, per key, in bounded batches, and only   *)
(* a repeated flush, which adds nothing new, is beyond the promise.        *)
THEOREM Implementation == Spec => ImplementsPromise
<1>1. IInv => Consistent
  BY DEF IInv
<1> QED
  BY <1>1, InitPromise, StepPromise, Inductive, PTL DEF Spec, ImplementsPromise, Promise!Spec

-----------------------------------------------------------------------------
(* What TransportProofs shows, said of the transport of the gateway. *)

LEMMA TransportParameters ==
  /\ MaxRows \in Nat /\ QueueCap \in Nat /\ RetryMax \in Nat
  /\ MaxAttempts \in Nat \ {0} /\ TokenCap \in Nat \ {0}
  /\ Faults \subseteq TP!FaultKinds
BY TransportAssumption DEF TP!FaultKinds

LEMMA SameInvariant == T!IInv <=> TP!IInv
BY DEF T!IInv, TP!IInv, T!TypeOK, TP!TypeOK, T!NotCreated, TP!NotCreated, T!Waiting, TP!Waiting,
       T!HeldOnce, TP!HeldOnce, T!InHand, TP!InHand, T!SentIsTrue, TP!SentIsTrue,
       T!Rows, TP!Rows, T!NoRow, TP!NoRow, T!Held, TP!Held, T!Untouched, TP!Untouched,
       T!Queued, TP!Queued, T!PostsAreAttempts, TP!PostsAreAttempts

LEMMA SameInvariantNext == (T!IInv <=> TP!IInv)'
BY SameInvariant, PTL

LEMMA SameInit == T!Init <=> TP!Init
BY DEF T!Init, TP!Init, T!Rows, TP!Rows, T!Receiving, TP!Receiving, T!NoDelivery, TP!NoDelivery,
       T!NoRow, TP!NoRow

LEMMA SameStep == [T!Next]_tvars <=> [TP!Next]_(TP!vars)
<1> USE DEF T!Rows, TP!Rows, T!NoRow, TP!NoRow, T!Receiving, TP!Receiving
<1>1. /\ T!CreateDelivery <=> TP!CreateDelivery
      /\ T!Refill <=> TP!Refill
      /\ T!Stop <=> TP!Stop
  BY DEF T!CreateDelivery, TP!CreateDelivery, T!Refill, TP!Refill, T!Stop, TP!Stop
<1>2. \A r : T!FlushEnqueue(r) <=> TP!FlushEnqueue(r)
  BY DEF T!FlushEnqueue, TP!FlushEnqueue, T!Enqueue, TP!Enqueue
<1>3. ~ T!RetryAllFailed /\ ~ TP!RetryAllFailed
  BY TransportAssumption DEF T!RetryAllFailed, TP!RetryAllFailed
<1>4. T!Crash <=> TP!Crash
  BY DEF T!Crash, TP!Crash
<1>5. /\ T!Receive <=> TP!Receive
      /\ T!Exit <=> TP!Exit
      /\ T!Take <=> TP!Take
      /\ T!SendOk <=> TP!SendOk
      /\ T!SendFlood <=> TP!SendFlood
  BY DEF T!Receive, TP!Receive, T!Exit, TP!Exit, T!Take, TP!Take, T!SendOk, TP!SendOk,
         T!SendFlood, TP!SendFlood
<1>6. /\ T!SendForbidden <=> TP!SendForbidden
      /\ T!SendError <=> TP!SendError
      /\ T!SendLost <=> TP!SendLost
      /\ T!DeliveryRetry429 <=> TP!DeliveryRetry429
  BY DEF T!SendForbidden, TP!SendForbidden, T!SendError, TP!SendError,
         T!SendLost, TP!SendLost, T!SendFails, TP!SendFails, T!DeliveryRetry429, TP!DeliveryRetry429
<1>7. /\ T!MarkDeliverySent <=> TP!MarkDeliverySent
      /\ T!MarkDeliveryFailed <=> TP!MarkDeliveryFailed
  BY DEF T!MarkDeliverySent, TP!MarkDeliverySent, T!Write, TP!Write, T!SentRow, TP!SentRow,
         T!AfterSend, TP!AfterSend, T!MarkDeliveryFailed, TP!MarkDeliveryFailed,
         T!FailDelivery, TP!FailDelivery, T!AfterError, TP!AfterError
<1>8. /\ T!FailForbidden <=> TP!FailForbidden
      /\ T!FailExhausted <=> TP!FailExhausted
  BY DEF T!FailForbidden, TP!FailForbidden, T!FailExhausted, TP!FailExhausted,
         T!FailDelivery, TP!FailDelivery, T!Write, TP!Write
<1>9. T!Loop <=> TP!Loop
  BY <1>5, <1>6, <1>7, <1>8 DEF T!Loop, TP!Loop
<1> QED
  BY <1>1, <1>2, <1>3, <1>4, <1>9 DEF T!Next, TP!Next, tvars, TP!vars

LEMMA TransportInit == T!Init => T!IInv
BY TransportParameters, SameInit, SameInvariant, TP!InitIInv

LEMMA TransportStep == T!IInv /\ [T!Next]_tvars => T!IInv'
BY TransportParameters, SameStep, SameInvariant, SameInvariantNext, TP!StepIInv

LEMMA TransportLeft ==
  ASSUME T!IInv, [T!Next]_tvars, NEW r \in T!Rows, T!Left(r)
  PROVE  T!Left(r)'
<1>1. TP!IInv /\ [TP!Next]_(TP!vars) /\ r \in TP!Rows /\ TP!Left(r)
  BY SameInvariant, SameStep DEF T!Left, TP!Left, T!Held, TP!Held, T!Queued, TP!Queued, T!Rows, TP!Rows
<1>2. TP!Left(r)'
  BY <1>1, TransportParameters, TP!LeftStays
<1> QED
  BY <1>2 DEF T!Left, TP!Left, T!Held, TP!Held, T!Queued, TP!Queued

-----------------------------------------------------------------------------
(* The two halves of a step of the gateway. *)

LEMMA TransportHalf == [GatewayNext]_gatewayVars => [T!Next]_tvars
BY DEF GatewayNext, gatewayVars, Accept, Goroutine, HandlerStep, WindowStep, FlushEnqueue,
       Loop, Refill, Crash, CoalescerAlone, TransportAlone, FlushByCap, FlushByTimer,
       Render, RenderFails, T!Next

LEMMA CoalescerHalf ==
  ASSUME [GatewayNext]_gatewayVars
  PROVE  [Next]_vars \/ (Forget /\ UNCHANGED <<todo, items, calls>>)
BY DEF GatewayNext, gatewayVars, Accept, Goroutine, HandlerStep, WindowStep, FlushEnqueue,
       Loop, Refill, Crash, CoalescerAlone, TransportAlone, FlushByCap, FlushByTimer,
       Next, WorkerStep, TimerStep

(* A crash leaves no open batch and nobody inside Add. *)
LEMMA ForgetKeeps ==
  ASSUME Consistent, Forget, UNCHANGED <<todo, items, calls>>
  PROVE  Consistent'
<1> USE KeyAssumption, NoBatchAssumption DEF Forget
<1>1. TypeOK /\ TypeOK'
  <2>1. TypeOK
    BY DEF Consistent
  <2>2. /\ timer' \in [Events -> {"none", "armed", "fired", "flushing", "stopped", "done"}]
        /\ b' \in [Keys -> Events \cup {NoBatch}]
    BY <2>1 DEF TypeOK
  <2>3. worker' \in [Workers -> [pc : {"idle", "force", "flush"}, p : Events \cup {NoBatch}]]
    <3>1. Idle \in [pc : {"idle", "force", "flush"}, p : Events \cup {NoBatch}]
      OBVIOUS
    <3> QED
      BY <3>1
  <2> QED
    BY <2>1, <2>2, <2>3 DEF TypeOK
<1>2. /\ \A k \in Keys : b'[k] = NoBatch
      /\ \A w \in Workers : worker'[w].pc = "idle"
      /\ \A p \in Events : /\ ~ Open(p)'
                           /\ timer'[p] = "none" <=> timer[p] = "none"
                           /\ timer'[p] = "done" <=> timer[p] = "done"
  <2>1. \A k \in Keys : b'[k] = NoBatch
    OBVIOUS
  <2>2. \A p \in Events : ~ Open(p)'
    BY <2>1 DEF Open
  <2>3. \A w \in Workers : worker'[w].pc = "idle"
    OBVIOUS
  <2>4. \A p \in Events : /\ timer'[p] = "none" <=> timer[p] = "none"
                          /\ timer'[p] = "done" <=> timer[p] = "done"
    OBVIOUS
  <2> QED
    BY <2>1, <2>2, <2>3, <2>4
<1>3. \A p \in Events : Flushing(p)' = {}
  BY <1>2 DEF Flushing
<1>4. \A p \in Events : /\ CapFlushed(p)' = CapFlushed(p)
                        /\ TimerFlushed(p)' = TimerFlushed(p)
  BY DEF CapFlushed, TimerFlushed
<1>5. BatchBound' /\ OneFlushPerCause' /\ FlushIsFinal' /\ Membership'
  BY DEF Consistent, BatchBound, OneFlushPerCause, FlushIsFinal, Membership
<1>6. Allocation'
  BY <1>2 DEF Consistent, Allocation
<1>7. Registration' /\ OpenBatchBound'
  <2>1. Registration'
    BY <1>2 DEF Registration
  <2>2. OpenBatchBound'
    BY <1>2 DEF OpenBatchBound
  <2> QED
    BY <2>1, <2>2
<1>8. WorkersHoldBatches'
  BY <1>2 DEF WorkersHoldBatches
<1>9. OneCapFlush'
  BY <1>2, <1>3, <1>4 DEF Consistent, OneCapFlush
<1> QED
  BY <1>1, <1>5, <1>6, <1>7, <1>8, <1>9 DEF Consistent

LEMMA HalvesStep ==
  ASSUME Consistent, T!IInv, [GatewayNext]_gatewayVars
  PROVE  Consistent' /\ T!IInv'
<1>1. Consistent'
  BY CoalescerHalf, StepKeeps, ForgetKeeps
<1>2. T!IInv'
  BY TransportHalf, TransportStep
<1> QED
  BY <1>1, <1>2

-----------------------------------------------------------------------------
(* Each row was rendered by a flush of its own. *)

LEMMA CapFlushHistory ==
  ASSUME Consistent, NEW w \in Workers, CapFlush(w)
  PROVE  /\ worker[w].p \in Events
         /\ ~ CapFlushed(worker[w].p)
         /\ \A q \in Events : /\ CapFlushed(q)' <=> CapFlushed(q) \/ q = worker[w].p
                              /\ TimerFlushed(q)' <=> TimerFlushed(q)
<1>1. PICK p \in Events : p = worker[w].p
  BY DEF Consistent, WorkersHoldBatches, CapFlush
<1>2. worker[w].pc = "flush" /\ FlushBatch(p, "cap") /\ UNCHANGED items
  BY <1>1 DEF CapFlush
<1>3. worker[w] = [pc |-> "flush", p |-> p]
  BY <1>1, <1>2 DEF Consistent, TypeOK
<1>4. Flushing(p) # {} /\ items[p] # <<>>
  BY <1>1, <1>2, <1>3 DEF Flushing, Consistent, WorkersHoldBatches, Allocation
<1>5. ~ CapFlushed(p)
  BY <1>4 DEF Consistent, OneCapFlush
<1>6. \A q \in Events : /\ CapFlushed(q)' <=> CapFlushed(q) \/ q = p
                        /\ TimerFlushed(q)' <=> TimerFlushed(q)
  BY <1>2, <1>4, <1>5, FlushBatchHistory DEF Consistent, CapFlushed
<1> QED
  BY <1>1, <1>5, <1>6

LEMMA TimerFlushHistory ==
  ASSUME Consistent, NEW p \in Events, TimerFlush(p)
  PROVE  /\ ~ TimerFlushed(p)
         /\ \A q \in Events : /\ CapFlushed(q)' <=> CapFlushed(q)
                              /\ TimerFlushed(q)' <=> TimerFlushed(q) \/ q = p
<1>1. timer[p] = "flushing" /\ FlushBatch(p, "timer") /\ UNCHANGED items
  BY DEF TimerFlush
<1>2. items[p] # <<>> /\ ~ TimerFlushed(p)
  BY <1>1 DEF Consistent, Allocation, OneCapFlush
<1>3. \A q \in Events : /\ CapFlushed(q)' <=> CapFlushed(q)
                        /\ TimerFlushed(q)' <=> TimerFlushed(q) \/ q = p
  BY <1>1, <1>2, FlushBatchHistory DEF Consistent, TimerFlushed
<1> QED
  BY <1>2, <1>3

(* No row is rendered, and no flush is forgotten. *)
LEMMA TextsKept ==
  ASSUME TextsAreFlushes, TextsDiffer, UNCHANGED <<created, text>>,
         \A q \in Events : /\ CapFlushed(q) => CapFlushed(q)'
                           /\ TimerFlushed(q) => TimerFlushed(q)'
  PROVE  TextsAreFlushes' /\ TextsDiffer'
<1>1. TextsDiffer'
  BY DEF TextsDiffer, T!Rows
<1>2. ASSUME NEW r \in T!Rows, ~ (r > created)
      PROVE  /\ text'[r].batch \in Events
             /\ \/ text'[r].by = "cap" /\ CapFlushed(text[r].batch)'
                \/ text'[r].by = "timer" /\ TimerFlushed(text[r].batch)'
  <2>1. PICK q : q = text[r].batch /\ q = text'[r].batch
    OBVIOUS
  <2>2. /\ q \in Events
        /\ \/ text[r].by = "cap" /\ CapFlushed(q)
           \/ text[r].by = "timer" /\ TimerFlushed(q)
    BY <1>2, <2>1 DEF TextsAreFlushes
  <2>3. (text'[r].by = "cap" /\ CapFlushed(q)') \/ (text'[r].by = "timer" /\ TimerFlushed(q)')
    BY <2>2
  <2> QED
    BY <2>1, <2>2, <2>3 DEF CapFlushed, TimerFlushed
<1>3. TextsAreFlushes'
  <2>1. \A r \in T!Rows : r > created => text'[r] = NoText
    BY DEF TextsAreFlushes
  <2> QED
    BY <1>2, <2>1 DEF TextsAreFlushes, T!Rows, NoText
<1> QED
  BY <1>1, <1>3

(* A row is rendered by a flush that was not made before. *)
LEMMA RenderTexts ==
  ASSUME TextsAreFlushes, TextsDiffer, created \in Nat,
         NEW p \in Events, NEW by \in {"cap", "timer"}, Render(p, by),
         by = "cap" => ~ CapFlushed(p) /\ CapFlushed(p)',
         by = "timer" => ~ TimerFlushed(p) /\ TimerFlushed(p)',
         \A q \in Events : /\ CapFlushed(q) => CapFlushed(q)'
                           /\ TimerFlushed(q) => TimerFlushed(q)'
  PROVE  TextsAreFlushes' /\ TextsDiffer'
<1> DEFINE made == [batch |-> p, by |-> by]
           n == created + 1
<1>1. made.batch = p /\ made.by = by
  OBVIOUS
<1>2. made \in [batch : Events \cup {NoBatch}, by : {"none", "cap", "timer"}]
  OBVIOUS
<1>3. /\ n \in T!Rows /\ created' = n /\ created < n
      /\ text' = [text EXCEPT ![n] = made]
  BY TransportParameters DEF Render, T!CreateDelivery, T!Rows
<1> HIDE DEF made
<1>4. text \in [T!Rows -> [batch : Events \cup {NoBatch}, by : {"none", "cap", "timer"}]]
  BY DEF TextsAreFlushes
<1>5. text'[n] = made /\ \A r \in T!Rows : r # n => text'[r] = text[r]
  BY <1>3, <1>4
<1>6. \A r \in T!Rows : r =< n /\ r # n => r =< created
  BY DEF T!Rows
<1>7. \A r \in T!Rows : r =< created => text[r] # made
  BY <1>1 DEF TextsAreFlushes, T!Rows
<1>8. TextsDiffer'
  <2> SUFFICES ASSUME NEW q \in T!Rows, NEW r \in T!Rows,
                      q =< created', r =< created', text'[q] = text'[r]
               PROVE  q = r
    BY DEF TextsDiffer, T!Rows
  <2>1. CASE q # n /\ r # n
    BY <2>1, <1>3, <1>5, <1>6 DEF TextsDiffer
  <2>2. CASE q = n \/ r = n
    BY <2>2, <1>3, <1>5, <1>6, <1>7
  <2> QED
    BY <2>1, <2>2
<1>9. TextsAreFlushes'
  <2>1. text' \in [T!Rows -> [batch : Events \cup {NoBatch}, by : {"none", "cap", "timer"}]]
    BY <1>2, <1>3, <1>4
  <2>2. ASSUME NEW r \in T!Rows, r > n PROVE text'[r] = NoText
    <3>1. r # n /\ r > created
      BY <2>2 DEF T!Rows
    <3> QED
      BY <3>1, <1>5 DEF TextsAreFlushes
  <2>3. ASSUME NEW r \in T!Rows, ~ (r > n)
        PROVE  /\ text'[r].batch \in Events
               /\ \/ text'[r].by = "cap" /\ CapFlushed(text[r].batch)'
                  \/ text'[r].by = "timer" /\ TimerFlushed(text[r].batch)'
    <3>1. CASE r = n
      <4>1. text'[r].batch = p /\ text'[r].by = by
        BY <3>1, <1>1, <1>5
      <4> QED
        BY <4>1 DEF CapFlushed, TimerFlushed
    <3>2. CASE r # n
      <4>1. ~ (r > created) /\ text'[r] = text[r]
        BY <3>2, <2>3, <1>5 DEF T!Rows
      <4>2. PICK q : q = text[r].batch /\ q = text'[r].batch
        BY <4>1
      <4>3. /\ q \in Events
            /\ \/ text[r].by = "cap" /\ CapFlushed(q)
               \/ text[r].by = "timer" /\ TimerFlushed(q)
        BY <4>1, <4>2 DEF TextsAreFlushes
      <4>4. (text'[r].by = "cap" /\ CapFlushed(q)') \/ (text'[r].by = "timer" /\ TimerFlushed(q)')
        BY <4>1, <4>3
      <4> QED
        BY <4>2, <4>3, <4>4 DEF CapFlushed, TimerFlushed
    <3> QED
      BY <3>1, <3>2
  <2> QED
    BY <2>1, <2>2, <2>3, <1>3 DEF TextsAreFlushes, T!Rows, NoText
<1> QED
  BY <1>8, <1>9

(* A step flushes a batch, or touches neither flushes nor rows. *)
LEMMA FlushOrNot ==
  ASSUME [GatewayNext]_gatewayVars
  PROVE  \/ UNCHANGED <<calls, created, text>>
         \/ \E w \in Workers : FlushByCap(w)
         \/ \E p \in Events : FlushByTimer(p)
<1>1. CASE \E w \in Workers, e \in Events : Accept(w, e)
  BY <1>1 DEF Accept, CoalescerAlone, Add, tvars
<1>2. CASE \E w \in Workers : HandlerStep(w)
  BY <1>2 DEF HandlerStep, CoalescerAlone, ForceFlushLost, ForceFlush, tvars
<1>3. CASE \E p \in Events : WindowStep(p)
  BY <1>3 DEF WindowStep, CoalescerAlone, Fire, TimerLock, tvars
<1>4. CASE (\E r \in T!Rows : FlushEnqueue(r)) \/ Loop \/ Refill
  BY <1>4 DEF FlushEnqueue, Loop, Refill, TransportAlone, vars, T!FlushEnqueue, T!Refill,
       T!Loop, T!Receive, T!Exit, T!Take, T!SendOk, T!SendFlood, T!SendForbidden,
       T!SendError, T!SendLost, T!SendFails, T!MarkDeliverySent, T!DeliveryRetry429, T!FailForbidden,
       T!MarkDeliveryFailed, T!FailExhausted
<1>5. CASE Crash
  BY <1>5 DEF Crash, T!Crash
<1>6. CASE UNCHANGED gatewayVars
  BY <1>6 DEF gatewayVars, vars, tvars
<1> QED
  BY <1>1, <1>2, <1>3, <1>4, <1>5, <1>6 DEF GatewayNext, Goroutine

LEMMA TextsStep ==
  ASSUME GatewayIInv, [GatewayNext]_gatewayVars
  PROVE  TextsAreFlushes' /\ TextsDiffer'
<1>1. Consistent /\ TextsAreFlushes /\ TextsDiffer /\ created \in Nat
  BY TransportParameters DEF GatewayIInv, T!IInv, T!TypeOK
<1>2. CASE UNCHANGED <<calls, created, text>>
  BY <1>1, <1>2, TextsKept DEF CapFlushed, TimerFlushed
<1>3. ASSUME NEW w \in Workers, FlushByCap(w) PROVE TextsAreFlushes' /\ TextsDiffer'
  <2>1. PICK p \in Events : p = worker[w].p
    BY <1>1, <1>3, CapFlushHistory DEF FlushByCap
  <2>2. /\ ~ CapFlushed(p)
        /\ \A q \in Events : /\ CapFlushed(q)' <=> CapFlushed(q) \/ q = p
                             /\ TimerFlushed(q)' <=> TimerFlushed(q)
    BY <1>1, <1>3, <2>1, CapFlushHistory DEF FlushByCap
  <2>3. CASE Render(p, "cap")
    BY <1>1, <2>2, <2>3, RenderTexts
  <2>4. CASE RenderFails
    BY <1>1, <2>2, <2>4, TextsKept DEF RenderFails, tvars
  <2> QED
    BY <1>3, <2>1, <2>3, <2>4 DEF FlushByCap
<1>4. ASSUME NEW p \in Events, FlushByTimer(p) PROVE TextsAreFlushes' /\ TextsDiffer'
  <2>1. /\ ~ TimerFlushed(p)
        /\ \A q \in Events : /\ CapFlushed(q)' <=> CapFlushed(q)
                             /\ TimerFlushed(q)' <=> TimerFlushed(q) \/ q = p
    BY <1>1, <1>4, TimerFlushHistory DEF FlushByTimer
  <2>2. CASE Render(p, "timer")
    BY <1>1, <2>1, <2>2, RenderTexts
  <2>3. CASE RenderFails
    BY <1>1, <2>1, <2>3, TextsKept DEF RenderFails, tvars
  <2> QED
    BY <1>4, <2>2, <2>3 DEF FlushByTimer
<1> QED
  BY <1>2, <1>3, <1>4, FlushOrNot

LEMMA GatewayInitIInv == GatewayInit => GatewayIInv
<1> SUFFICES ASSUME GatewayInit PROVE GatewayIInv
  OBVIOUS
<1>1. Consistent /\ T!IInv
  BY InitIInv, TransportInit DEF GatewayInit, IInv
<1>2. created = 0 /\ text = [r \in T!Rows |-> NoText]
  BY DEF GatewayInit, T!Init
<1>3. \A r \in T!Rows : r > created /\ ~ (r =< created)
  BY <1>2 DEF T!Rows
<1>4. TextsAreFlushes /\ TextsDiffer
  BY <1>2, <1>3 DEF TextsAreFlushes, TextsDiffer, NoText
<1> QED
  BY <1>1, <1>4 DEF GatewayIInv

LEMMA GatewayStepIInv == GatewayIInv /\ [GatewayNext]_gatewayVars => GatewayIInv'
BY HalvesStep, TextsStep DEF GatewayIInv

(* The inductive invariant of the way from Add to Telegram.                *)
THEOREM GatewayInductive == GatewaySpec => []GatewayIInv
BY GatewayInitIInv, GatewayStepIInv, PTL DEF GatewaySpec

(* A batch has at most one delivery per cause that Telegram shows, and an  *)
(* event is shown only in messages of one batch, whatever crashes,         *)
(* overflows, failures and lost answers do.                                *)
THEOREM ShownOncePerCause == GatewaySpec => []OneMessagePerCause
<1>1. ASSUME GatewayIInv PROVE OneMessagePerCause
  <2>1. /\ TextsAreFlushes /\ TextsDiffer /\ Membership
        /\ T!NotCreated /\ T!TypeOK
    BY <1>1 DEF GatewayIInv, Consistent, T!IInv
  <2>2. ASSUME NEW r \in Shown
        PROVE  /\ r \in T!Rows /\ r =< created /\ posted[r] > 0
               /\ text[r].batch \in Events
    <3>1. r \in T!Rows /\ posted[r] > 0
      BY DEF Shown
    <3>2. ~ (r > created) /\ r \in Int /\ created \in Int
      BY <2>1, <3>1, TransportParameters DEF T!NotCreated, T!Untouched, T!TypeOK, T!Rows
    <3> QED
      BY <2>1, <3>1, <3>2 DEF TextsAreFlushes
  <2> SUFFICES ASSUME NEW q \in Shown, NEW r \in Shown, NEW e,
                      e \in EventsOf(q), e \in EventsOf(r)
               PROVE  /\ text[q].batch = text[r].batch
                      /\ text[q].by = text[r].by => q = r
    BY DEF OneMessagePerCause
  <2>3. e \in Events
    BY <1>1, <2>2 DEF EventsOf, Elems, GatewayIInv, Consistent, TypeOK
  <2>4. text[q].batch = text[r].batch
    BY <2>1, <2>2, <2>3 DEF Membership, EventsOf
  <2>5. ASSUME text[q].by = text[r].by PROVE q = r
    <3>1. text[q] = text[r]
      BY <2>1, <2>2, <2>4, <2>5 DEF TextsAreFlushes
    <3> QED
      BY <2>1, <2>2, <3>1 DEF TextsDiffer
  <2> QED
    BY <2>2, <2>4, <2>5
<1> QED
  BY <1>1, GatewayInductive, PTL

-----------------------------------------------------------------------------
(* Gateway implements MessageSpec. *)

Group(e) == UNION {EventsOf(r) : r \in ShownWith(e)}

(* A row has a batch that was flushed. *)
LEMMA RowFacts ==
  ASSUME GatewayIInv, NEW r \in T!Rows, r =< created
  PROVE  /\ text[r].batch \in Events /\ text[r].by \in {"cap", "timer"}
         /\ calls[text[r].batch] # <<>> /\ items[text[r].batch] # <<>>
<1>1. /\ text[r].batch \in Events
      /\ \/ text[r].by = "cap" /\ CapFlushed(text[r].batch)
         \/ text[r].by = "timer" /\ TimerFlushed(text[r].batch)
  <2>1. ~ (r > created)
    BY TransportParameters DEF GatewayIInv, T!IInv, T!TypeOK, T!Rows
  <2> QED
    BY <2>1 DEF GatewayIInv, TextsAreFlushes
<1>2. calls[text[r].batch] # <<>>
  BY <1>1 DEF CapFlushed, TimerFlushed
<1>3. items[text[r].batch] # <<>>
  BY <1>1, <1>2 DEF GatewayIInv, Consistent, Allocation
<1> QED
  BY <1>1, <1>2, <1>3

LEMMA HeldRows ==
  ASSUME GatewayIInv, NEW r \in T!Rows, posted[r] > 0 \/ T!Held(r)
  PROVE  r =< created
BY TransportParameters DEF GatewayIInv, T!IInv, T!NotCreated, T!Untouched, T!TypeOK, T!Rows

LEMMA ShownFacts ==
  ASSUME GatewayIInv, NEW r \in Shown
  PROVE  /\ r \in T!Rows /\ r =< created /\ text[r].batch \in Events
         /\ EventsOf(r) \in SUBSET (Events \ todo) /\ EventsOf(r) # {}
<1>1. r \in T!Rows /\ r =< created
  BY HeldRows DEF Shown
<1>2. text[r].batch \in Events /\ items[text[r].batch] # <<>>
  BY <1>1, RowFacts
<1> QED
  BY <1>1, <1>2, BatchFacts DEF EventsOf, GatewayIInv

(* The rows of an event are rows of one batch. *)
LEMMA OneBatch ==
  ASSUME GatewayIInv, NEW q \in Shown, NEW p \in Events, NEW e \in EventsOf(q),
         e \in Elems(items[p])
  PROVE  text[q].batch = p
BY ShownFacts DEF GatewayIInv, Consistent, Membership, EventsOf

LEMMA ShownKept ==
  ASSUME UNCHANGED posted
  PROVE  UNCHANGED Shown
BY DEF Shown, T!Rows

(* The screen stays as it is. *)
LEMMA ViewKept ==
  ASSUME UNCHANGED Shown, \A r \in Shown : EventsOf(r)' = EventsOf(r)
  PROVE  /\ \A e \in Events : ShownWith(e)' = ShownWith(e)
         /\ [e \in Events |-> Group(e)]' = [e \in Events |-> Group(e)]
<1>2. \A e \in Events : ShownWith(e)' = ShownWith(e)
  BY DEF ShownWith
<1>3. \A e \in Events : Group(e)' = Group(e)
  BY <1>2 DEF Group, ShownWith
<1> QED
  BY <1>2, <1>3

-----------------------------------------------------------------------------
(* Accept: the event joins a batch that nobody has flushed. *)

LEMMA AddEffect ==
  ASSUME Consistent, NEW w \in Workers, NEW e \in Events, Add(w, e)
  PROVE  \E p \in Events :
           /\ calls[p] = <<>>
           /\ timer[p] \in {"none", "armed", "fired"} /\ timer'[p] \in {"armed", "fired"}
           /\ Elems(items'[p]) = Elems(items[p]) \cup {e}
           /\ \A q \in Events : q # p => items'[q] = items[q] /\ timer'[q] = timer[q]
           /\ \A q \in Events : Flushing(q)' = Flushing(q)
<1> DEFINE k == KeyOf[e]
<1> USE DEF TypeOK
<1>1. PICK p \in Events : p = IF b[k] = NoBatch THEN e ELSE b[k]
  BY KeyAssumption DEF Consistent
<1>2. k \in Keys /\ e \in todo /\ TypeOK
  BY KeyAssumption DEF Add, Consistent
<1>3. /\ calls[p] = <<>>
      /\ b[k] = NoBatch => timer[p] = "none"
      /\ b[k] # NoBatch => timer[p] \in {"armed", "fired"}
  BY <1>1, <1>2 DEF Consistent, Allocation, Registration, Open
<1>4. /\ items' = [items EXCEPT ![p] = Append(items[p], e)]
      /\ timer' = IF b[k] = NoBatch THEN [timer EXCEPT ![p] = "armed"] ELSE timer
  BY <1>1 DEF Add, Arm
<1>5. /\ timer'[p] \in {"armed", "fired"}
      /\ items'[p] = Append(items[p], e)
      /\ \A q \in Events : q # p => items'[q] = items[q] /\ timer'[q] = timer[q]
  BY <1>2, <1>3, <1>4
<1>6. Elems(items'[p]) = Elems(items[p]) \cup {e}
  BY <1>2, <1>5, ElemsAppend
<1>7. \A q \in Events : Flushing(q)' = Flushing(q)
  BY DEF Add, Flushing
<1> QED
  BY <1>3, <1>5, <1>6, <1>7

LEMMA AcceptMessages ==
  ASSUME GatewayIInv, NEW w \in Workers, NEW e \in Events, Accept(w, e)
  PROVE  Messages!Accept(e)
<1>1. /\ Add(w, e) /\ UNCHANGED <<created, flushing, row, queue, run, posted, text>>
      /\ e \in todo /\ todo' = todo \ {e}
  BY DEF Accept, CoalescerAlone, tvars, Add
<1>2. PICK p \in Events :
         /\ calls[p] = <<>>
         /\ timer[p] \in {"none", "armed", "fired"} /\ timer'[p] \in {"armed", "fired"}
         /\ Elems(items'[p]) = Elems(items[p]) \cup {e}
         /\ \A q \in Events : q # p => items'[q] = items[q] /\ timer'[q] = timer[q]
         /\ \A q \in Events : Flushing(q)' = Flushing(q)
  BY <1>1, AddEffect DEF GatewayIInv
<1>3. \A r \in Shown : EventsOf(r)' = EventsOf(r)
  <2> SUFFICES ASSUME NEW r \in Shown PROVE EventsOf(r)' = EventsOf(r)
    OBVIOUS
  <2>1. text[r].batch \in Events /\ text[r].batch # p
    BY <1>2, ShownFacts, RowFacts
  <2> QED
    BY <1>1, <1>2, <2>1 DEF EventsOf, Elems
<1>4. /\ \A d \in Events : ShownWith(d)' = ShownWith(d)
      /\ [d \in Events |-> Group(d)]' = [d \in Events |-> Group(d)]
  BY <1>1, <1>3, ShownKept, ViewKept
<1>5. \A q \in Events : (\E r \in T!Rows : text[r].batch = q /\ T!Held(r))' <=>
                        (\E r \in T!Rows : text[r].batch = q /\ T!Held(r))
  BY <1>1 DEF T!Held, T!Queued, T!Rows
<1>6. Alive(p)' /\ \A q \in Events : q # p => (Alive(q)' <=> Alive(q))
  BY <1>2, <1>5 DEF Alive
<1>7. Elems(items[p]) # {} => Alive(p)
  <2>1. Elems(items[p]) # {} => items[p] # <<>>
    BY DEF Elems
  <2>2. items[p] # <<>> => timer[p] # "none"
    BY DEF GatewayIInv, Consistent, Allocation
  <2> QED
    BY <1>2, <2>1, <2>2 DEF Alive
<1>8. ShownWith(e)' = {}
  <2>1. \A r \in Shown : e \notin EventsOf(r)
    BY <1>1, ShownFacts
  <2> QED
    BY <1>4, <2>1 DEF ShownWith
<1>9. \A q \in Events : q # p => Elems(items'[q]) = Elems(items[q])
  BY <1>2 DEF Elems
<1>10. \A d \in Events : d # e =>
         ((\E q \in Events : d \in Elems(items'[q]) /\ Alive(q)')
            <=> (\E q \in Events : d \in Elems(items[q]) /\ Alive(q)))
  <2> SUFFICES ASSUME NEW d \in Events, d # e, NEW q \in Events
               PROVE  (d \in Elems(items'[q]) /\ Alive(q)') <=> (d \in Elems(items[q]) /\ Alive(q))
    OBVIOUS
  <2>1. CASE q = p
    BY <2>1, <1>2, <1>6, <1>7
  <2>2. CASE q # p
    BY <2>2, <1>6, <1>9
  <2> QED
    BY <2>1, <2>2
<1>11. Waiting' = {d \in Events \ todo' :
                     /\ ShownWith(d)' = {}
                     /\ \E q \in Events : d \in Elems(items'[q]) /\ Alive(q)'}
  BY DEF Waiting, Elems
<1>12. e \in Elems(items'[p])
  BY <1>2
<1>13. Waiting' = Waiting \cup {e}
  BY <1>1, <1>4, <1>6, <1>8, <1>10, <1>11, <1>12 DEF Waiting
<1> QED
  BY <1>1, <1>4, <1>13 DEF Messages!Accept, Group

-----------------------------------------------------------------------------
(* Steps that show nothing may lose events, and revive no batch. *)

LEMMA LoseMessages ==
  ASSUME GatewayIInv, UNCHANGED <<todo, items, Shown>>,
         \A r \in T!Rows : r =< created => text'[r] = text[r],
         \A p \in Events : Alive(p)' => Alive(p)
  PROVE  Messages!Next
<1>1. \A r \in Shown : EventsOf(r)' = EventsOf(r)
  BY ShownFacts DEF EventsOf, Elems
<1>2. /\ \A d \in Events : ShownWith(d)' = ShownWith(d)
      /\ [d \in Events |-> Group(d)]' = [d \in Events |-> Group(d)]
  BY <1>1, ViewKept
<1>3. Waiting' \subseteq Waiting
  BY <1>2 DEF Waiting, Elems
<1> DEFINE lost == Waiting \ Waiting'
<1>4. lost \in SUBSET Waiting /\ Waiting' = Waiting \ lost
  BY <1>3
<1>5. Messages!Lose(lost)
  BY <1>2, <1>4 DEF Messages!Lose, Group
<1> HIDE DEF lost
<1> QED
  BY <1>4, <1>5 DEF Messages!Next

(* Nobody takes up a row again, so only CreateDelivery adds one. *)
LEMMA HeldBefore ==
  ASSUME GatewayIInv, GatewayIInv', [T!Next]_tvars, NEW r \in T!Rows, T!Held(r)',
         r =< created \/ created' = created
  PROVE  T!Held(r)
<1>1. r \in Int /\ created \in Int /\ created' \in Int
  BY TransportParameters DEF GatewayIInv, T!IInv, T!TypeOK, T!Rows
<1>2. T!NotCreated'
  BY DEF GatewayIInv, T!IInv
<1>3. r =< created
  BY <1>1, <1>2 DEF T!NotCreated, T!Rows, T!Held, T!Queued
<1>4. SUFFICES ASSUME ~ T!Held(r) PROVE FALSE
  OBVIOUS
<1>5. T!Left(r)
  BY <1>3, <1>4 DEF T!Left
<1>6. T!Left(r)'
  BY <1>5, TransportLeft DEF GatewayIInv
<1> QED
  BY <1>6 DEF T!Left

LEMMA StillMessages ==
  ASSUME GatewayIInv, GatewayIInv', [T!Next]_tvars,
         UNCHANGED <<todo, items, created, Shown, text>>,
         \A p \in Events : timer'[p] \in {"armed", "fired", "flushing"} \/ Flushing(p)' # {} => Alive(p)
  PROVE  Messages!Next
<1>1. ASSUME NEW p \in Events, NEW r \in T!Rows, text[r].batch = p, T!Held(r)' PROVE Alive(p)
  BY <1>1, HeldBefore DEF Alive
<1>2. \A p \in Events : Alive(p)' => Alive(p)
  BY <1>1 DEF Alive, T!Rows
<1> QED
  BY <1>2, LoseMessages

LEMMA RenderMessages ==
  ASSUME GatewayIInv, GatewayIInv', [T!Next]_tvars, NEW p \in Events,
         NEW by \in {"cap", "timer"}, Render(p, by) \/ RenderFails, Alive(p),
         UNCHANGED <<todo, items>>,
         \A q \in Events : timer'[q] \in {"armed", "fired", "flushing"} \/ Flushing(q)' # {} => Alive(q)
  PROVE  Messages!Next
<1>1. CASE RenderFails
  BY <1>1, ShownKept, StillMessages DEF RenderFails, tvars
<1>2. CASE Render(p, by)
  <2> DEFINE n == created + 1
  <2>1. /\ created' = n /\ n \in T!Rows /\ UNCHANGED posted /\ created \in Nat
        /\ text' = [text EXCEPT ![n] = [batch |-> p, by |-> by]]
    BY <1>2, TransportParameters DEF Render, T!CreateDelivery, T!Rows, GatewayIInv, T!IInv, T!TypeOK
  <2>2. \A r \in T!Rows : r # n => text'[r] = text[r]
    BY <2>1 DEF GatewayIInv, TextsAreFlushes
  <2>3. \A r \in T!Rows : r =< created => text'[r] = text[r]
    BY <2>1, <2>2 DEF T!Rows
  <2>4. text'[n].batch = p
    BY <2>1 DEF GatewayIInv, TextsAreFlushes
  <2>5. ASSUME NEW q \in Events, NEW r \in T!Rows, text'[r].batch = q, T!Held(r)' PROVE Alive(q)
    <3>1. CASE r = n
      BY <3>1, <2>4, <2>5
    <3>2. CASE r # n
      <4>1. r =< created'
        <5>1. T!NotCreated' /\ created' \in Int /\ r \in Int
          BY <2>1, TransportParameters DEF GatewayIInv, T!IInv, T!Rows
        <5>2. ~ (r > created')
          BY <2>5, <5>1 DEF T!NotCreated, T!Rows, T!Held, T!Queued
        <5> QED
          BY <5>1, <5>2
      <4>2. r =< created
        BY <2>1, <3>2, <4>1 DEF T!Rows
      <4> QED
        BY <2>3, <2>5, <4>2, HeldBefore DEF Alive
    <3> QED
      BY <3>1, <3>2
  <2>6. \A q \in Events : Alive(q)' => Alive(q)
    BY <2>5 DEF Alive, T!Rows
  <2> QED
    BY <2>1, <2>3, <2>6, ShownKept, LoseMessages
<1> QED
  BY <1>1, <1>2

LEMMA HandlerMessages ==
  ASSUME GatewayIInv, GatewayIInv', [T!Next]_tvars, NEW w \in Workers, HandlerStep(w)
  PROVE  Messages!Next
<1>1. PICK p \in Events : p = worker[w].p
  BY DEF HandlerStep, FlushByCap, CoalescerAlone, ForceFlushLost, ForceFlush, CapFlush,
         GatewayIInv, Consistent, WorkersHoldBatches
<1>2. /\ timer \in [Events -> {"none", "armed", "fired", "flushing", "stopped", "done"}]
      /\ worker \in [Workers -> [pc : {"idle", "force", "flush"}, p : Events \cup {NoBatch}]]
  BY DEF GatewayIInv, Consistent, TypeOK
<1>3. CASE CoalescerAlone(ForceFlushLost(w))
  <2>1. /\ UNCHANGED <<todo, items, created, posted, text, timer>>
        /\ \A q \in Events : Flushing(q)' = Flushing(q)
    BY <1>2, <1>3 DEF CoalescerAlone, ForceFlushLost, tvars, Flushing
  <2> QED
    BY <2>1, ShownKept, StillMessages DEF Alive
<1>4. CASE CoalescerAlone(ForceFlush(w))
  <2>1. /\ UNCHANGED <<todo, items, created, posted, text>> /\ Open(p)
        /\ worker' = [worker EXCEPT ![w].pc = "flush"]
        /\ \A q \in Events : q # p => timer'[q] = timer[q]
    BY <1>1, <1>2, <1>4 DEF CoalescerAlone, ForceFlush, tvars
  <2>2. Alive(p)
    BY <2>1 DEF GatewayIInv, Consistent, Registration, Alive
  <2>3. worker'[w].p = p
    BY <1>1, <1>2, <2>1
  <2>4. \A q \in Events : q # p => Flushing(q)' = Flushing(q)
    BY <1>1, <1>2, <2>1, <2>3 DEF Flushing
  <2> QED
    BY <2>1, <2>2, <2>4, ShownKept, StillMessages DEF Alive
<1>5. CASE FlushByCap(w)
  <2>1. /\ UNCHANGED <<todo, items, timer>> /\ worker[w].pc = "flush"
        /\ worker' = [worker EXCEPT ![w] = Idle]
        /\ Render(p, "cap") \/ RenderFails
    BY <1>1, <1>5 DEF FlushByCap, CapFlush
  <2>2. worker[w] = [pc |-> "flush", p |-> p]
    BY <1>1, <1>2, <2>1
  <2>3. Alive(p)
    BY <2>2 DEF Alive, Flushing
  <2>4. \A q \in Events : Flushing(q)' \subseteq Flushing(q)
    BY <1>2, <2>1 DEF Flushing
  <2> QED
    BY <2>1, <2>3, <2>4, RenderMessages DEF Alive
<1> QED
  BY <1>3, <1>4, <1>5 DEF HandlerStep, CoalescerAlone

LEMMA WindowMessages ==
  ASSUME GatewayIInv, GatewayIInv', [T!Next]_tvars, NEW p \in Events, WindowStep(p)
  PROVE  Messages!Next
<1>1. timer \in [Events -> {"none", "armed", "fired", "flushing", "stopped", "done"}]
  BY DEF GatewayIInv, Consistent, TypeOK
<1>2. CASE CoalescerAlone(Fire(p) \/ TimerLock(p))
  <2>1. /\ UNCHANGED <<todo, items, created, posted, text>> /\ timer[p] \in {"armed", "fired"}
        /\ \A q \in Events : q # p => timer'[q] = timer[q]
        /\ \A q \in Events : Flushing(q)' = Flushing(q)
    BY <1>1, <1>2 DEF CoalescerAlone, Fire, TimerLock, tvars, Flushing
  <2> QED
    BY <2>1, ShownKept, StillMessages DEF Alive
<1>3. CASE FlushByTimer(p)
  <2>1. /\ UNCHANGED <<todo, items>> /\ timer[p] = "flushing"
        /\ Render(p, "timer") \/ RenderFails
        /\ \A q \in Events : q # p => timer'[q] = timer[q]
        /\ \A q \in Events : Flushing(q)' = Flushing(q)
    BY <1>1, <1>3 DEF FlushByTimer, TimerFlush, Flushing
  <2>2. Alive(p)
    BY <2>1 DEF Alive
  <2> QED
    BY <2>1, <2>2, RenderMessages DEF Alive
<1> QED
  BY <1>2, <1>3 DEF WindowStep, CoalescerAlone

LEMMA CrashMessages ==
  ASSUME GatewayIInv, Crash
  PROVE  Messages!Next
<1>1. /\ UNCHANGED <<todo, items, created, posted, text>>
      /\ flushing' = {} /\ queue' = <<>> /\ run'.row = 0
      /\ \A p \in Events : timer'[p] \notin {"armed", "fired", "flushing"}
  BY DEF Crash, T!Crash, Forget, T!Receiving, T!NoRow
<1>2. \A p \in Events : Flushing(p)' = {}
  BY DEF Crash, Forget, Flushing
<1>3. \A r \in T!Rows : ~ T!Held(r)'
  BY <1>1, TransportParameters DEF T!Held, T!Queued, T!Rows
<1>4. \A p \in Events : ~ Alive(p)'
  BY <1>1, <1>2, <1>3 DEF Alive, T!Rows
<1> QED
  BY <1>1, <1>4, ShownKept, LoseMessages

-----------------------------------------------------------------------------
(* A message is posted: the events of its row are shown, or shown again.   *)

Posts == T!SendOk \/ T!SendLost

LEMMA SendEffect ==
  ASSUME GatewayIInv, Posts, UNCHANGED <<items, timer, worker, text>>
  PROVE  \E r \in T!Rows :
           /\ r =< created /\ T!Held(r)
           /\ Shown' = Shown \cup {r}
           /\ \A q \in T!Rows : EventsOf(q)' = EventsOf(q)
           /\ \A p \in Events : Alive(p)' <=> Alive(p)
<1> USE DEF Posts
<1>1. PICK r \in T!Rows : r = run.row
  BY DEF T!SendOk, T!SendLost, T!SendFails, GatewayIInv, T!IInv, T!InHand
<1>2. T!Held(r)
  BY <1>1 DEF T!Held
<1>3. r =< created
  BY <1>2, HeldRows
<1>4. /\ posted' = [posted EXCEPT ![r] = @ + 1]
      /\ posted \in [T!Rows -> 0..MaxAttempts]
  BY <1>1 DEF T!SendOk, T!SendLost, GatewayIInv, T!IInv, T!TypeOK
<1>5. Shown' = Shown \cup {r}
  <2>1. posted'[r] > 0 /\ \A q \in T!Rows : q # r => posted'[q] = posted[q]
    BY <1>4, TransportParameters
  <2> QED
    BY <2>1 DEF Shown, T!Rows
<1>6. \A q \in T!Rows : EventsOf(q)' = EventsOf(q)
  BY DEF EventsOf, Elems
<1>7. flushing' = flushing /\ queue' = queue /\ run'.row = run.row
  BY DEF T!SendOk, T!SendLost, T!SendFails, GatewayIInv, T!IInv, T!TypeOK
<1>8. \A p \in Events : Alive(p)' <=> Alive(p)
  BY <1>7 DEF Alive, Flushing, T!Held, T!Queued, T!Rows
<1> QED
  BY <1>2, <1>3, <1>5, <1>6, <1>8

(* How the new message changes who is shown with whom. *)
LEMMA SendView ==
  ASSUME GatewayIInv, NEW r \in T!Rows, r =< created, r \notin Shown,
         Shown' = Shown \cup {r}, \A q \in T!Rows : EventsOf(q)' = EventsOf(q)
  PROVE  /\ \A e \in EventsOf(r) : ShownWith(e)' = ShownWith(e) \cup {r}
         /\ \A e \in Events \ EventsOf(r) : ShownWith(e)' = ShownWith(e)
         /\ \A e : Group(e)' = UNION {EventsOf(q) : q \in ShownWith(e)'}
<1>1. r \in T!Rows /\ Shown \subseteq T!Rows
  BY DEF Shown
<1>2. \A e : ShownWith(e)' = {q \in Shown \cup {r} : e \in EventsOf(q)}
  BY <1>1 DEF ShownWith
<1>3. \A e : ShownWith(e)' \subseteq T!Rows
  BY <1>1, <1>2
<1>4. \A e : Group(e)' = UNION {EventsOf(q) : q \in ShownWith(e)'}
  BY <1>3 DEF Group
<1> QED
  BY <1>1, <1>2, <1>4 DEF ShownWith

LEMMA FirstMessages ==
  ASSUME GatewayIInv, UNCHANGED <<todo, items>>,
         NEW r \in T!Rows, r =< created, r \notin Shown, T!Held(r),
         Shown' = Shown \cup {r}, \A q \in T!Rows : EventsOf(q)' = EventsOf(q),
         \A p \in Events : Alive(p)' <=> Alive(p),
         \A q \in Shown : text[q].batch # text[r].batch
  PROVE  Messages!Show(EventsOf(r)) /\ EventsOf(r) \in SUBSET Waiting
<1>1. PICK p \in Events : p = text[r].batch /\ items[p] # <<>>
  BY RowFacts
<1> DEFINE S == Elems(items[p])
<1>2. S = EventsOf(r)
  BY <1>1 DEF EventsOf
<1>3. /\ S \in SUBSET (Events \ todo) /\ S # {}
      /\ Cardinality(S) =< Cap - 1 + Cardinality(Workers)
      /\ \A d, e \in S : KeyOf[d] = KeyOf[e]
  BY <1>1, BatchFacts DEF GatewayIInv
<1> HIDE DEF S
<1>4. \A e \in S : ShownWith(e) = {}
  <2> SUFFICES ASSUME NEW e \in S, NEW q \in Shown, e \in EventsOf(q) PROVE FALSE
    BY DEF ShownWith
  <2>1. text[q].batch = p
    BY <1>1, OneBatch DEF S
  <2> QED
    BY <1>1, <2>1
<1>5. /\ \A e \in S : ShownWith(e)' = {r}
      /\ \A e \in Events \ S : ShownWith(e)' = ShownWith(e)
      /\ \A e : Group(e)' = UNION {EventsOf(q) : q \in ShownWith(e)'}
  BY <1>2, <1>4, SendView
<1>6. [e \in Events |-> Group(e)]'
        = [e \in Events |-> IF e \in S THEN S ELSE [d \in Events |-> Group(d)][e]]
  <2>1. \A e \in S : Group(e)' = S
    BY <1>2, <1>5
  <2>2. \A e \in Events \ S : Group(e)' = Group(e)
    BY <1>5 DEF Group
  <2> QED
    BY <2>1, <2>2
<1>8. S \in SUBSET Waiting
  <2>1. Alive(p)
    BY <1>1 DEF Alive
  <2> QED
    BY <1>1, <1>3, <1>4, <2>1 DEF Waiting, S
<1>9. Waiting' = Waiting \ S
  <2>1. Waiting' = {e \in Events \ todo :
                      /\ ShownWith(e)' = {}
                      /\ \E q \in Events : e \in Elems(items[q]) /\ Alive(q)}
    BY DEF Waiting, Elems
  <2> QED
    BY <2>1, <1>5 DEF Waiting
<1> QED
  BY <1>2, <1>3, <1>6, <1>8, <1>9 DEF Messages!Show, Group

LEMMA AgainMessages ==
  ASSUME GatewayIInv, UNCHANGED <<todo, items>>,
         NEW r \in T!Rows, r =< created, r \notin Shown,
         Shown' = Shown \cup {r}, \A q \in T!Rows : EventsOf(q)' = EventsOf(q),
         \A p \in Events : Alive(p)' <=> Alive(p),
         NEW q \in Shown, text[q].batch = text[r].batch
  PROVE  Messages!Lose({})
<1>1. PICK p \in Events : p = text[r].batch /\ items[p] # <<>>
  BY RowFacts
<1> DEFINE S == Elems(items[p])
<1>2. S = EventsOf(r) /\ S = EventsOf(q)
  BY <1>1 DEF EventsOf
<1>3. S \in SUBSET (Events \ todo) /\ S # {}
  BY <1>1, BatchFacts DEF GatewayIInv
<1> HIDE DEF S
<1>4. \A e \in S : ShownWith(e) = {q}
  <2>1. ASSUME NEW o \in Shown, NEW e \in S, e \in EventsOf(o) PROVE o = q
    <3>1. text[o].batch = p
      BY <1>1, <2>1, OneBatch DEF S
    <3>2. /\ o \in T!Rows /\ o =< created /\ q \in T!Rows /\ q =< created
      BY ShownFacts
    <3>3. /\ text[o].by \in {"cap", "timer"} /\ text[q].by \in {"cap", "timer"}
          /\ text[r].by \in {"cap", "timer"}
      BY <3>2, RowFacts
    <3>4. \A i, j \in T!Rows : i =< created /\ j =< created /\ text[i].batch = text[j].batch
                               /\ text[i].by = text[j].by => i = j
      BY DEF GatewayIInv, TextsAreFlushes, TextsDiffer
    <3>5. text[o].by # text[r].by /\ text[q].by # text[r].by
      BY <1>1, <3>1, <3>2, <3>4
    <3> QED
      BY <1>1, <3>1, <3>2, <3>3, <3>4, <3>5
  <2> QED
    BY <2>1, <1>2 DEF ShownWith
<1>5. /\ \A e \in S : ShownWith(e)' = {q, r}
      /\ \A e \in Events \ S : ShownWith(e)' = ShownWith(e)
      /\ \A e : Group(e)' = UNION {EventsOf(o) : o \in ShownWith(e)'}
  <2>1. /\ \A e \in S : ShownWith(e)' = ShownWith(e) \cup {r}
        /\ \A e \in Events \ S : ShownWith(e)' = ShownWith(e)
        /\ \A e : Group(e)' = UNION {EventsOf(o) : o \in ShownWith(e)'}
    BY <1>2, SendView
  <2>2. {q} \cup {r} = {q, r}
    OBVIOUS
  <2> QED
    BY <2>1, <2>2, <1>4
<1>6. \A e \in S : Group(e) = S /\ Group(e)' = S
  <2> SUFFICES ASSUME NEW e \in S PROVE Group(e) = S /\ Group(e)' = S
    OBVIOUS
  <2>1. ShownWith(e) = {q} /\ ShownWith(e)' = {q, r}
    BY <1>4, <1>5
  <2>2. Group(e) = EventsOf(q)
    BY <2>1 DEF Group
  <2>3. Group(e)' = EventsOf(q) \cup EventsOf(r)
    BY <2>1, <1>5
  <2> QED
    BY <2>2, <2>3, <1>2
<1>7. [e \in Events |-> Group(e)]' = [e \in Events |-> Group(e)]
  <2>1. \A e \in Events \ S : Group(e)' = Group(e)
    BY <1>5 DEF Group
  <2> QED
    BY <1>6, <2>1
<1>8. Waiting' = Waiting
  <2>1. Waiting' = {e \in Events \ todo :
                      /\ ShownWith(e)' = {}
                      /\ \E o \in Events : e \in Elems(items[o]) /\ Alive(o)}
    BY DEF Waiting, Elems
  <2> QED
    BY <2>1, <1>4, <1>5 DEF Waiting
<1> QED
  BY <1>7, <1>8 DEF Messages!Lose, Group

LEMMA SendMessages ==
  ASSUME GatewayIInv, GatewayIInv', [T!Next]_tvars, Posts, UNCHANGED <<vars, text>>
  PROVE  Messages!Next
<1>1. UNCHANGED <<todo, items, timer, worker, text>>
  BY DEF vars
<1>2. PICK r \in T!Rows :
        /\ r =< created /\ T!Held(r)
        /\ Shown' = Shown \cup {r}
        /\ \A q \in T!Rows : EventsOf(q)' = EventsOf(q)
        /\ \A p \in Events : Alive(p)' <=> Alive(p)
  BY <1>1, SendEffect
<1>3. CASE r \in Shown
  <2>1. Shown' = Shown /\ UNCHANGED created
    BY <1>2, <1>3 DEF Posts, T!SendOk, T!SendLost, T!SendFails
  <2>2. \A p \in Events :
          timer'[p] \in {"armed", "fired", "flushing"} \/ Flushing(p)' # {} => Alive(p)
    BY <1>1 DEF Alive, Flushing
  <2> QED
    BY <1>1, <2>1, <2>2, StillMessages
<1>4. CASE r \notin Shown /\ \A q \in Shown : text[q].batch # text[r].batch
  BY <1>1, <1>2, <1>4, FirstMessages DEF Messages!Next
<1>5. CASE r \notin Shown /\ \E q \in Shown : text[q].batch = text[r].batch
  <2>1. Messages!Lose({})
    BY <1>1, <1>2, <1>5, AgainMessages
  <2> QED
    BY <2>1 DEF Messages!Next
<1> QED
  BY <1>3, <1>4, <1>5

LEMMA LoopMessages ==
  ASSUME GatewayIInv, GatewayIInv', [T!Next]_tvars,
         Loop \/ Refill \/ \E r \in T!Rows : FlushEnqueue(r)
  PROVE  Messages!Next
<1>1. UNCHANGED <<vars, text>> /\ (T!Loop \/ T!Refill \/ \E r \in T!Rows : T!FlushEnqueue(r))
  BY DEF Loop, Refill, FlushEnqueue, TransportAlone
<1>2. CASE Posts
  BY <1>1, <1>2, SendMessages
<1>3. CASE ~ Posts
  <2>1. UNCHANGED <<created, posted>>
    BY <1>1, <1>3 DEF Posts, T!FlushEnqueue, T!Refill, T!Loop, T!Receive, T!Exit, T!Take, T!SendFlood,
         T!SendForbidden, T!SendError, T!SendLost, T!SendFails, T!MarkDeliverySent, T!DeliveryRetry429,
         T!FailForbidden, T!MarkDeliveryFailed, T!FailExhausted
  <2>2. UNCHANGED <<todo, items, timer, worker, text>>
    BY <1>1 DEF vars
  <2>3. \A p \in Events : timer'[p] \in {"armed", "fired", "flushing"} \/ Flushing(p)' # {} => Alive(p)
    BY <2>2 DEF Alive, Flushing
  <2> QED
    BY <2>1, <2>2, <2>3, ShownKept, StillMessages
<1> QED
  BY <1>2, <1>3

LEMMA StutterMessages ==
  ASSUME UNCHANGED gatewayVars
  PROVE  UNCHANGED <<Events \ todo, Waiting, [e \in Events |-> Group(e)]>>
<1>1. UNCHANGED <<todo, items, timer, worker, posted, text, flushing, queue, run>>
  BY DEF gatewayVars, vars, tvars
<1>2. \A r : EventsOf(r)' = EventsOf(r)
  BY <1>1 DEF EventsOf, Elems
<1>3. \A p \in Events : Alive(p)' <=> Alive(p)
  BY <1>1 DEF Alive, Flushing, T!Held, T!Queued, T!Rows
<1>4. /\ \A d \in Events : ShownWith(d)' = ShownWith(d)
      /\ [d \in Events |-> Group(d)]' = [d \in Events |-> Group(d)]
  BY <1>1, <1>2, ShownKept, ViewKept
<1>5. Waiting' = Waiting
  BY <1>1, <1>3, <1>4 DEF Waiting, Elems
<1> QED
  BY <1>1, <1>4, <1>5

LEMMA InitMessages == GatewayInit => Messages!Init
<1> SUFFICES ASSUME GatewayInit PROVE Messages!Init
  OBVIOUS
<1>1. todo = Events /\ posted = [r \in T!Rows |-> 0]
  BY DEF GatewayInit, Init, T!Init
<1>2. Shown = {}
  BY <1>1 DEF Shown
<1>3. \A e \in Events : ShownWith(e) = {} /\ Group(e) = {}
  BY <1>2 DEF ShownWith, Group
<1>4. Waiting = {}
  BY <1>1 DEF Waiting
<1> QED
  BY <1>1, <1>3, <1>4 DEF Messages!Init, Group

LEMMA StepMessages ==
  GatewayIInv /\ GatewayIInv' /\ [GatewayNext]_gatewayVars => [Messages!Next]_(Messages!vars)
<1> SUFFICES ASSUME GatewayIInv, GatewayIInv', [GatewayNext]_gatewayVars
             PROVE  \/ Messages!Next
                    \/ UNCHANGED <<Events \ todo, Waiting, [e \in Events |-> Group(e)]>>
  BY DEF Messages!vars, Group
<1>1. [T!Next]_tvars
  BY TransportHalf
<1>2. ASSUME NEW w \in Workers, NEW e \in Events, Accept(w, e) PROVE Messages!Next
  BY <1>2, AcceptMessages DEF Messages!Next
<1>3. ASSUME NEW w \in Workers, HandlerStep(w) PROVE Messages!Next
  BY <1>1, <1>3, HandlerMessages
<1>4. ASSUME NEW p \in Events, WindowStep(p) PROVE Messages!Next
  BY <1>1, <1>4, WindowMessages
<1>5. CASE Loop \/ Refill \/ \E r \in T!Rows : FlushEnqueue(r)
  BY <1>1, <1>5, LoopMessages
<1>6. CASE Crash
  BY <1>6, CrashMessages
<1>7. CASE UNCHANGED gatewayVars
  BY <1>7, StutterMessages
<1> QED
  BY <1>2, <1>3, <1>4, <1>5, <1>6, <1>7 DEF GatewayNext, Goroutine

(* Whatever the windows, the flushes, the queue, the loop and crashes do   *)
(* to an accepted event, its user sees it wait, appear in one message of   *)
(* its key, however often that message is posted, or be lost.              *)
THEOREM GatewayImplements == GatewaySpec => ImplementsMessageSpec
BY InitMessages, StepMessages, GatewayInductive, PTL
   DEF GatewaySpec, ImplementsMessageSpec, Messages!Spec

-----------------------------------------------------------------------------
(* The transport of the gateway is a transport, and reports what it lost.  *)

(* Every theorem of TransportProofs holds of the transport in the gateway. *)
THEOREM GatewayTransports == GatewaySpec => T!Spec
<1>1. GatewayInit => T!Init
  BY DEF GatewayInit
<1>2. [GatewayNext]_gatewayVars => [T!Next]_(T!vars)
  BY TransportHalf DEF tvars, T!vars
<1> QED
  BY <1>1, <1>2, PTL DEF GatewaySpec, T!Spec

LEMMA RecordsAreKept ==
  ASSUME Faults = {}, QueueCap >= MaxRows
  PROVE  GatewaySpec => []T!LeftIsRecorded
<1>1. GatewayInit => TP!Init
  BY SameInit DEF GatewayInit
<1>2. [GatewayNext]_gatewayVars => [TP!Next]_(TP!vars)
  BY TransportHalf, SameStep
<1>3. TP!Spec => []TP!LeftIsRecorded
  BY TransportParameters, TP!LeftRowsAreRecorded
<1>4. TP!LeftIsRecorded => T!LeftIsRecorded
  BY DEF T!LeftIsRecorded, TP!LeftIsRecorded, T!Left, TP!Left, T!Held, TP!Held,
         T!Queued, TP!Queued, T!Rows, TP!Rows
<1> QED
  BY <1>1, <1>2, <1>3, <1>4, PTL DEF GatewaySpec, TP!Spec

(* Without crashes the coalescer behaves as it does alone. *)
LEMMA StoppedIsKept ==
  ASSUME Faults = {}
  PROVE  GatewaySpec => []IInv
<1>1. GatewayInit => IInv
  BY InitIInv DEF GatewayInit
<1>2. [GatewayNext]_gatewayVars => [Next]_vars
  <2>1. ~ Crash
    BY DEF Crash, T!Crash
  <2> QED
    BY <2>1 DEF GatewayNext, gatewayVars, Accept, Goroutine, HandlerStep, WindowStep,
         FlushEnqueue, Loop, Refill, CoalescerAlone, TransportAlone, FlushByCap,
         FlushByTimer, Next, WorkerStep, TimerStep
<1> QED
  BY <1>1, <1>2, StepIInv, PTL DEF GatewaySpec

(* Without failing writes each flush leaves a row. *)
LEMMA RenderHasRow ==
  ASSUME GatewayIInv, FlushesHaveRows, UNCHANGED items, NEW p \in Events, items[p] # <<>>,
         NEW by \in {"cap", "timer"}, FlushBatch(p, by), Render(p, by)
  PROVE  FlushesHaveRows'
<1> DEFINE n == created + 1
           made == [batch |-> p, by |-> by]
<1>1. /\ created' = n /\ n \in T!Rows /\ created \in Nat
      /\ text' = [text EXCEPT ![n] = made]
  BY TransportParameters DEF Render, T!CreateDelivery, T!Rows, GatewayIInv, T!IInv, T!TypeOK
<1> HIDE DEF made
<1>2. text'[n] = made /\ \A r \in T!Rows : r # n => text'[r] = text[r]
  BY <1>1 DEF GatewayIInv, TextsAreFlushes
<1>3. \A r \in T!Rows : r =< created => r =< n /\ r # n
  BY <1>1 DEF T!Rows
<1>4. /\ DOMAIN calls'[p] = DOMAIN calls[p] \cup {Len(calls[p]) + 1}
      /\ \A i \in DOMAIN calls[p] : calls'[p][i] = calls[p][i]
      /\ calls'[p][Len(calls[p]) + 1].by = by
      /\ \A q \in Events \ {p} : calls'[q] = calls[q]
  <2>1. [by |-> by, batch |-> items[p]].by = by
    OBVIOUS
  <2> QED
    BY <2>1, FlushBatchEffect DEF GatewayIInv, Consistent
<1> SUFFICES ASSUME NEW q \in Events, NEW cause \in {"cap", "timer"},
                    NEW i \in DOMAIN calls'[q], calls'[q][i].by = cause
             PROVE  \E r \in T!Rows : r =< n /\ text'[r] = [batch |-> q, by |-> cause]
  BY <1>1 DEF FlushesHaveRows, T!Rows
<1>5. CASE q = p /\ cause = by
  BY <1>1, <1>2, <1>5 DEF made
<1>6. CASE q # p \/ cause # by
  <2>1. i \in DOMAIN calls[q] /\ calls[q][i].by = cause
    BY <1>4, <1>6
  <2>2. PICK r \in T!Rows : r =< created /\ text[r] = [batch |-> q, by |-> cause]
    BY <2>1 DEF FlushesHaveRows
  <2> QED
    BY <1>2, <1>3, <2>2
<1> QED
  BY <1>5, <1>6

LEMMA FlushesHaveRowsStep ==
  ASSUME Faults = {}, GatewayIInv, FlushesHaveRows, [GatewayNext]_gatewayVars
  PROVE  FlushesHaveRows'
<1>1. CASE UNCHANGED <<calls, created, text>>
  BY <1>1 DEF FlushesHaveRows, T!Rows
<1>2. ASSUME NEW w \in Workers, FlushByCap(w) PROVE FlushesHaveRows'
  <2>1. PICK p \in Events : p = worker[w].p /\ items[p] # <<>>
    BY <1>2 DEF FlushByCap, CapFlush, GatewayIInv, Consistent, WorkersHoldBatches, Allocation
  <2>2. FlushBatch(p, "cap") /\ UNCHANGED items /\ Render(p, "cap")
    BY <1>2, <2>1 DEF FlushByCap, CapFlush, RenderFails
  <2> QED
    BY <2>1, <2>2, RenderHasRow
<1>3. ASSUME NEW p \in Events, FlushByTimer(p) PROVE FlushesHaveRows'
  <2>1. items[p] # <<>> /\ FlushBatch(p, "timer") /\ UNCHANGED items /\ Render(p, "timer")
    BY <1>3 DEF FlushByTimer, TimerFlush, RenderFails, GatewayIInv, Consistent, Allocation
  <2> QED
    BY <2>1, RenderHasRow
<1> QED
  BY <1>1, <1>2, <1>3, FlushOrNot

(* Nothing is lost without a trace as long as nothing fails: an accepted   *)
(* event waits, is shown, or is in a row that says it was refused.         *)
THEOREM NothingIsLostSilently ==
  ASSUME Faults = {}, QueueCap >= MaxRows
  PROVE  GatewaySpec => []NoSilentLoss
<1>1. GatewayInit => FlushesHaveRows
  BY DEF GatewayInit, Init, FlushesHaveRows
<1>2. GatewaySpec => []FlushesHaveRows
  BY <1>1, FlushesHaveRowsStep, GatewayInductive, PTL DEF GatewaySpec
<1>3. ASSUME GatewayIInv, IInv, FlushesHaveRows, T!LeftIsRecorded
      PROVE  NoSilentLoss
  <2> SUFFICES ASSUME NEW e \in Events \ todo, e \notin Waiting, ShownWith(e) = {}
               PROVE  \E r \in T!Rows : r =< created /\ e \in EventsOf(r) /\ row[r].status = "failed"
    BY DEF NoSilentLoss
  <2>1. PICK p \in Events : e \in Elems(items[p])
    BY <1>3 DEF IInv, Consistent, Membership
  <2>2. ~ Alive(p)
    BY <2>1 DEF Waiting
  <2>3. items[p] # <<>>
    BY <2>1 DEF Elems
  <2>4. timer[p] \in {"stopped", "done"} /\ Flushing(p) = {}
    BY <1>3, <2>2, <2>3 DEF IInv, Consistent, TypeOK, Allocation, Alive
  <2>5. calls[p] # <<>> /\ calls[p] \in Seq(Call)
    BY <1>3, <2>4 DEF IInv, Consistent, TypeOK, StoppedIsFlushed
  <2>6. 1 \in DOMAIN calls[p] /\ calls[p][1].by \in {"cap", "timer"}
    <3>1. 1 \in DOMAIN calls[p] /\ calls[p][1] \in Call
      BY <2>5
    <3> QED
      BY <3>1 DEF Call
  <2>7. PICK r \in T!Rows : r =< created /\ text[r] = [batch |-> p, by |-> calls[p][1].by]
    BY <1>3, <2>6 DEF FlushesHaveRows
  <2>8. text[r].batch = p
    BY <2>7
  <2>9. e \in EventsOf(r) /\ ~ T!Held(r)
    BY <2>1, <2>2, <2>8 DEF EventsOf, Alive
  <2>10. acks[r] = 0
    BY <1>3, <2>9 DEF ShownWith, Shown, GatewayIInv, T!IInv, T!TypeOK, T!PostsAreAttempts
  <2>11. row[r].status = "failed"
    BY <1>3, <2>7, <2>9, <2>10 DEF T!LeftIsRecorded, T!Left
  <2> QED
    BY <2>7, <2>9, <2>11
<1> QED
  BY <1>2, <1>3, GatewayInductive, StoppedIsKept, RecordsAreKept, PTL
=============================================================================
