------------------------------ MODULE Coalescer ------------------------------
(***************************************************************************)
(* internal/coalesce/coalesce.go: tumbling windows per key.                *)
(*                                                                         *)
(* Add runs in the goroutine of the HTTP request that carries the event    *)
(* (a worker); the window timer's closure runs in a goroutine of its own.  *)
(* Both touch the map of open batches under one mutex but flush outside    *)
(* it, so each is split at its unlock: Add, then ForceFlush, then          *)
(* CapFlush; Fire, then TimerLock, then TimerFlush.                        *)
(*                                                                         *)
(* A batch (a "pending") is named by the event whose Add allocated it, so  *)
(* that comparing pointers is comparing names.                             *)
(***************************************************************************)
EXTENDS Integers, Sequences, FiniteSets

CONSTANTS Events,   \* the events passed to Add, each once
          Keys,     \* coalescing keys (user, service, type)
          KeyOf,    \* the key of each event
          Workers,  \* HTTP handler goroutines that may be inside Add at once
          Cap,      \* batch cap (20 in main.go)
          NoBatch   \* nil

ASSUME KeyAssumption == KeyOf \in [Events -> Keys]
ASSUME CapAssumption == Cap \in Nat \ {0}
ASSUME WorkersAssumption == IsFiniteSet(Workers)
ASSUME NoBatchAssumption == NoBatch \notin Events

VARIABLES todo,     \* events whose request has not reached Add yet
          b,        \* c.b: the open batch of each key
          items,    \* p.items of each batch
          timer,    \* the state of p.timer and of the closure it runs
          worker,   \* what each handler goroutine is doing inside Add
          calls     \* the Flush calls each batch has had: who, and with what

vars == <<todo, b, items, timer, worker, calls>>

Idle == [pc |-> "idle", p |-> NoBatch]

Init ==
  /\ todo = Events
  /\ b = [k \in Keys |-> NoBatch]
  /\ items = [p \in Events |-> <<>>]
  /\ timer = [p \in Events |-> "none"]
  /\ worker = [w \in Workers |-> Idle]
  /\ calls = [p \in Events |-> <<>>]

(* Mutant: the cap flush leaves Flush to the timer it has just stopped. *)
FlushByTimerOnly(p, by) ==
  calls' = IF by = "cap"
             THEN calls
             ELSE [calls EXCEPT ![p] = Append(@, [by |-> by, batch |-> items[p]])]

(* flushBatch: an empty batch is not flushed; otherwise Flush receives the *)
(* items the batch holds at this moment.                                   *)
FlushBatch(p, by) ==
  calls' = IF items[p] = <<>>
             THEN calls
             ELSE [calls EXCEPT ![p] = Append(@, [by |-> by, batch |-> items[p]])]

(* Mutant: the batch is flushed one event after the cap. *)
HitCapLate(batch) == Len(batch) > Cap

HitCap(batch) == Len(batch) >= Cap

(* Mutant: the window of a new batch is never armed. *)
NeverArm(k, p) == timer

(* time.AfterFunc, for the first event of a key. *)
Arm(k, p) == IF b[k] = NoBatch THEN [timer EXCEPT ![p] = "armed"] ELSE timer

(* Add, up to its unlock: join the key's open batch or open one; hitCap is *)
(* computed under the mutex and used after it.                             *)
Add(w, e) ==
  LET k == KeyOf[e]
      p == IF b[k] = NoBatch THEN e ELSE b[k]
      batch == Append(items[p], e)
  IN /\ worker[w].pc = "idle"
     /\ e \in todo
     /\ todo' = todo \ {e}
     /\ b' = [b EXCEPT ![k] = p]
     /\ timer' = Arm(k, p)
     /\ items' = [items EXCEPT ![p] = batch]
     /\ worker' = IF HitCap(batch)
                    THEN [worker EXCEPT ![w] = [pc |-> "force", p |-> p]]
                    ELSE worker
     /\ UNCHANGED calls

(* p is the batch registered for its key. *)
Open(p) == b[KeyOf[p]] = p

(* Mutant: a batch that is being flushed stays registered. *)
KeepOpen(p) == b

(* delete(c.b, key) *)
Delete(p) == [b EXCEPT ![KeyOf[p]] = NoBatch]

(* forceFlush, in its critical section: another flush took the batch. *)
ForceFlushLost(w) ==
  /\ worker[w].pc = "force"
  /\ ~ Open(worker[w].p)
  /\ worker' = [worker EXCEPT ![w] = Idle]
  /\ UNCHANGED <<todo, b, items, timer, calls>>

(* forceFlush, in its critical section: take the batch out of the map and  *)
(* stop its timer, which does nothing to a closure that already started.   *)
ForceFlush(w) ==
  LET p == worker[w].p
  IN /\ worker[w].pc = "force"
     /\ Open(p)
     /\ b' = Delete(p)
     /\ timer' = IF timer[p] = "armed" THEN [timer EXCEPT ![p] = "stopped"] ELSE timer
     /\ worker' = [worker EXCEPT ![w].pc = "flush"]
     /\ UNCHANGED <<todo, items, calls>>

(* forceFlush, after its unlock. *)
CapFlush(w) ==
  /\ worker[w].pc = "flush"
  /\ FlushBatch(worker[w].p, "cap")
  /\ worker' = [worker EXCEPT ![w] = Idle]
  /\ UNCHANGED <<todo, b, items, timer>>

(* The window elapses: the closure is started and waits for the mutex. *)
Fire(p) ==
  /\ timer[p] = "armed"
  /\ timer' = [timer EXCEPT ![p] = "fired"]
  /\ UNCHANGED <<todo, b, items, worker, calls>>

(* The closure's critical section. *)
TimerLock(p) ==
  /\ timer[p] = "fired"
  /\ b' = IF Open(p) THEN Delete(p) ELSE b
  /\ timer' = [timer EXCEPT ![p] = "flushing"]
  /\ UNCHANGED <<todo, items, worker, calls>>

(* The closure after its unlock: it flushes whoever removed the batch. *)
TimerFlush(p) ==
  /\ timer[p] = "flushing"
  /\ FlushBatch(p, "timer")
  /\ timer' = [timer EXCEPT ![p] = "done"]
  /\ UNCHANGED <<todo, b, items, worker>>

WorkerStep(w) == ForceFlushLost(w) \/ ForceFlush(w) \/ CapFlush(w)
TimerStep(p) == Fire(p) \/ TimerLock(p) \/ TimerFlush(p)

Next == \/ \E w \in Workers, e \in Events : Add(w, e)
        \/ \E w \in Workers : WorkerStep(w)
        \/ \E p \in Events : TimerStep(p)

Spec == Init /\ [][Next]_vars

(* Timers fire, goroutines run, sync.Mutex starves nobody. That an event   *)
(* is ever added is up to the services and is not assumed.                 *)
Fairness == /\ \A w \in Workers : WF_vars(WorkerStep(w))
            /\ \A p \in Events : WF_vars(TimerStep(p))

FairSpec == Spec /\ Fairness
-----------------------------------------------------------------------------
Elems(s) == {s[i] : i \in DOMAIN s}

Call == [by : {"cap", "timer"}, batch : Seq(Events)]

(* Every variable has its type. *)
TypeOK ==
  /\ todo \in SUBSET Events
  /\ b \in [Keys -> Events \cup {NoBatch}]
  /\ items \in [Events -> Seq(Events)]
  /\ timer \in [Events -> {"none", "armed", "fired", "flushing", "stopped", "done"}]
  /\ worker \in [Workers -> [pc : {"idle", "force", "flush"}, p : Events \cup {NoBatch}]]
  /\ calls \in [Events -> Seq(Call)]

(* The workers that saw the cap reached on p and have not locked again. *)
Forcing(p) == {w \in Workers : worker[w] = [pc |-> "force", p |-> p]}
Flushing(p) == {w \in Workers : worker[w] = [pc |-> "flush", p |-> p]}

(* A batch may outgrow the cap while the worker that filled it is between  *)
(* its unlock and forceFlush, but by no more than one event per other      *)
(* handler goroutine.                                                      *)
BatchBound == \A p \in Events : Len(items[p]) =< Cap - 1 + Cardinality(Workers)

(* An open batch that reached the cap has a worker on its way to flush it: *)
(* nobody may leave a full batch to the timer.                             *)
FullBatchIsTaken ==
  \A p \in Events : Open(p) /\ Len(items[p]) >= Cap => Forcing(p) # {}

(* Somebody will still flush p, or has. *)
Held(p) == \/ timer[p] \in {"armed", "fired", "flushing"}
           \/ Flushing(p) # {}
           \/ calls[p] # <<>>

(* No interleaving of adds, cap flushes and timers strands an event: it is *)
(* in exactly one batch, of its own key, that somebody will flush.         *)
NoEventLost ==
  \A e \in Events \ todo :
     \E p \in Events : /\ e \in Elems(items[p])
                       /\ KeyOf[p] = KeyOf[e]
                       /\ Held(p)
                       /\ \A q \in Events \ {p} : e \notin Elems(items[q])

(* Flush saw the whole batch: no event joins a batch after it was flushed, *)
(* although flushBatch reads p.items without the mutex.                    *)
FlushIsFinal ==
  \A p \in Events : \A i \in DOMAIN calls[p] : calls[p][i].batch = items[p]

(* However many workers saw the cap, one of them flushes; a second flush   *)
(* of a batch can only be its timer's.                                     *)
OneFlushPerCause ==
  \A p \in Events : \A i, j \in DOMAIN calls[p] :
     calls[p][i].by = calls[p][j].by => i = j

(* The inductive invariant: TypeOK and what relates the map, the timers,   *)
(* the goroutines outside the mutex and the flushes already made.          *)
CapFlushed(p) == \E i \in DOMAIN calls[p] : calls[p][i].by = "cap"
TimerFlushed(p) == \E i \in DOMAIN calls[p] : calls[p][i].by = "timer"

(* A batch exists once its first event was added, and its timer with it. *)
Allocation ==
  \A p \in Events : /\ timer[p] = "none" <=> items[p] = <<>>
                    /\ p \in todo => timer[p] = "none"
                    /\ timer[p] = "none" => calls[p] = <<>>

(* Only a batch nobody has begun to flush is registered. *)
Registration ==
  /\ \A k \in Keys : b[k] # NoBatch => KeyOf[b[k]] = k
  /\ \A p \in Events : Open(p) =>
       timer[p] \in {"armed", "fired"} /\ Flushing(p) = {} /\ calls[p] = <<>>

WorkersHoldBatches ==
  \A w \in Workers : worker[w].pc # "idle" =>
    worker[w].p \in Events /\ timer[worker[w].p] # "none"

OpenBatchBound ==
  \A p \in Events : Open(p) => Len(items[p]) =< Cap - 1 + Cardinality(Forcing(p))

(* At most one goroutine ever passes forceFlush's comparison for a batch. *)
OneCapFlush ==
  \A p \in Events : /\ \A v, w \in Flushing(p) : v = w
                    /\ Flushing(p) # {} => ~ CapFlushed(p)
                    /\ TimerFlushed(p) => timer[p] = "done"

StoppedIsFlushed ==
  \A p \in Events : /\ timer[p] = "stopped" => Flushing(p) # {} \/ calls[p] # <<>>
                    /\ timer[p] = "done" => calls[p] # <<>>

(* Every added event is in one batch of its key. *)
Membership ==
  /\ \A e \in Events \ todo : \E p \in Events : e \in Elems(items[p])
  /\ \A p, e \in Events : e \in Elems(items[p]) => e \notin todo /\ KeyOf[p] = KeyOf[e]
  /\ \A p, q, e \in Events :
       e \in Elems(items[p]) /\ e \in Elems(items[q]) => p = q

(* What even a crash leaves true, and with StoppedIsFlushed the invariant. *)
Consistent ==
  /\ TypeOK
  /\ Allocation
  /\ Registration
  /\ WorkersHoldBatches
  /\ OpenBatchBound
  /\ BatchBound
  /\ OneCapFlush
  /\ OneFlushPerCause
  /\ FlushIsFinal
  /\ Membership

IInv == Consistent /\ StoppedIsFlushed

(* Every added event is flushed at last. *)
Emitted == UNION {Elems(c.batch) : c \in UNION {Elems(calls[p]) : p \in Events}}
EventuallyFlushed ==
  \A e \in Events : (e \notin todo) ~> (e \in Emitted)

(* The coalescer implements BatchingSpec; a repeated flush of a batch is a *)
(* stuttering step there.                                                  *)
Promise == INSTANCE BatchingSpec
             WITH waiting <- (Events \ todo) \ Emitted,
                  out <- Emitted,
                  Batches <- {S \in SUBSET Events :
                                Cardinality(S) =< Cap - 1 + Cardinality(Workers)}
ImplementsPromise == Promise!Spec

(* coalesce.go says that a flush renders ONE message when the timer fires  *)
(* or the cap is reached. The timer's closure does not look at who removed *)
(* the batch, so a batch can be flushed, and its message sent, twice.      *)
FlushedOnce == \A p \in Events : Len(calls[p]) =< 1

(* README and SPEC (COA-1) say a batch never exceeds the cap. *)
BatchWithinCap == \A p \in Events : Len(items[p]) =< Cap
=============================================================================
