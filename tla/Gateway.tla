-------------------------------- MODULE Gateway --------------------------------
(***************************************************************************)
(* The way of an event from Coalescer.Add to Telegram: the coalescer and   *)
(* the transport composed by dispatch.BatchFlusher, as main.go wires them. *)
(* A flush call of module Coalescer is a delivery row of module Transport, *)
(* or nothing if the row cannot be created; all other steps are steps of   *)
(* one of the two while the other stands still.  A crash hits both.        *)
(* The retry button is left out: it only rewrites rows, and no step from   *)
(* here to Telegram reads one (it is in Transport).                        *)
(* Of two names that clash the one of Coalescer stays as it is.            *)
(***************************************************************************)
EXTENDS Coalescer

CONSTANTS MaxRows, QueueCap, MaxAttempts, TokenCap, RetryMax, Faults  \* Transport

ASSUME TransportAssumption ==
  /\ MaxRows \in Nat /\ QueueCap \in Nat /\ RetryMax \in Nat
  /\ MaxAttempts \in Nat \ {0} /\ TokenCap \in Nat \ {0}
  /\ Faults \subseteq {"crash", "write"}

VARIABLES created, flushing, row, queue, run, tokens, stopped, tries, acks, posted,  \* Transport
          text  \* of each row the batch it was rendered from, and who flushed it

T == INSTANCE Transport

tvars == <<created, flushing, row, queue, run, tokens, stopped, tries, acks, posted>>
gatewayVars == <<vars, tvars, text>>

NoText == [batch |-> NoBatch, by |-> "none"]

GatewayInit == Init /\ T!Init /\ text = [r \in T!Rows |-> NoText]

-----------------------------------------------------------------------------
(* Flush(ctx, key, items) in the goroutine that calls it. *)

(* CreateDelivery; Enqueue is FlushEnqueue, in the same goroutine. *)
Render(p, by) ==
  /\ T!CreateDelivery
  /\ text' = [text EXCEPT ![created'] = [batch |-> p, by |-> by]]

(* The row cannot be created: logged, and the batch is gone. *)
RenderFails == "write" \in Faults /\ UNCHANGED <<tvars, text>>

FlushByCap(w) ==
  /\ CapFlush(w)
  /\ Render(worker[w].p, "cap") \/ RenderFails

FlushByTimer(p) ==
  /\ TimerFlush(p)
  /\ Render(p, "timer") \/ RenderFails

-----------------------------------------------------------------------------
CoalescerAlone(step) == step /\ UNCHANGED <<tvars, text>>
TransportAlone(step) == step /\ UNCHANGED <<vars, text>>

Accept(w, e) == CoalescerAlone(Add(w, e))
HandlerStep(w) == CoalescerAlone(ForceFlushLost(w) \/ ForceFlush(w)) \/ FlushByCap(w)
WindowStep(p) == CoalescerAlone(Fire(p) \/ TimerLock(p)) \/ FlushByTimer(p)
FlushEnqueue(r) == TransportAlone(T!FlushEnqueue(r))
Loop == TransportAlone(T!Loop)
Refill == TransportAlone(T!Refill)
Answered == TransportAlone(T!SendOk \/ T!SendForbidden \/ T!SendError \/ T!SendLost)

(* Mutant: a restart rebuilds the batches it finds and arms their windows, *)
(* those that were flushed too.                                            *)
ForgetReplays ==
  /\ b' = [k \in Keys |-> NoBatch]
  /\ timer' = [p \in Events |-> IF items[p] # <<>> THEN "armed" ELSE timer[p]]
  /\ worker' = [w \in Workers |-> Idle]

(* Batches, timers and handlers are gone; what was flushed, and what       *)
(* reached Add, is history.                                                *)
Forget ==
  /\ b' = [k \in Keys |-> NoBatch]
  /\ timer' = [p \in Events |-> IF timer[p] \in {"armed", "fired", "flushing"}
                                  THEN "stopped" ELSE timer[p]]
  /\ worker' = [w \in Workers |-> Idle]

Crash ==
  /\ T!Crash
  /\ Forget
  /\ UNCHANGED <<todo, items, calls, text>>

Goroutine ==
  \/ \E w \in Workers : HandlerStep(w)
  \/ \E p \in Events : WindowStep(p)
  \/ \E r \in T!Rows : FlushEnqueue(r)

GatewayNext ==
  \/ \E w \in Workers, e \in Events : Accept(w, e)
  \/ Goroutine \/ Loop \/ Refill \/ Crash

GatewaySpec == GatewayInit /\ [][GatewayNext]_gatewayVars

(* Less than what Coalescer and Transport assume: some goroutine that can  *)
(* run does (each has finitely many steps), and the Run loop's conditions. *)
GatewayFairness ==
  /\ WF_gatewayVars(Goroutine) /\ WF_gatewayVars(Loop) /\ WF_gatewayVars(Refill)
  /\ SF_gatewayVars(Answered)

FairGatewaySpec == GatewaySpec /\ GatewayFairness

-----------------------------------------------------------------------------
(* Properties. *)

(* The deliveries of which Telegram shows a message, posted[r] times (a    *)
(* lost answer makes the loop send it again), and the events it contains.  *)
Shown == {r \in T!Rows : posted[r] > 0}
EventsOf(r) == Elems(items[text[r].batch])

ShownWith(e) == {r \in Shown : e \in EventsOf(r)}

(* Somebody still acts for the batch p. *)
Alive(p) ==
  \/ timer[p] \in {"armed", "fired", "flushing"} \/ Flushing(p) # {}
  \/ \E r \in T!Rows : text[r].batch = p /\ T!Held(r)

Waiting ==
  {e \in Events \ todo :
     /\ ShownWith(e) = {}
     /\ \E p \in Events : e \in Elems(items[p]) /\ Alive(p)}

(* However batches are filled and flushed, answers lost and the process    *)
(* killed: no event is shown in messages of two batches, and a batch gets  *)
(* no more deliveries than one for the cap and one for its timer.  (Each   *)
(* is posted again for every answer that is lost: Transport.PostedOnce.)   *)
OneMessagePerCause ==
  \A q, r \in Shown :
    EventsOf(q) \cap EventsOf(r) # {} =>
      /\ text[q].batch = text[r].batch
      /\ text[q].by = text[r].by => q = r

(* No accepted event is stuck anywhere on its way: of the events that come *)
(* all are shown in the end, or lost by a crash, a full queue, a failed    *)
(* write or Telegram's refusal.                                            *)
EventuallySettled == <>[](Waiting = {})

(* The composition implements MessageSpec.  *)
Messages == INSTANCE MessageSpec
             WITH accepted <- Events \ todo,
                  waiting <- Waiting,
                  group <- [e \in Events |-> UNION {EventsOf(r) : r \in ShownWith(e)}],
                  Batches <- {S \in SUBSET Events :
                                Cardinality(S) =< Cap - 1 + Cardinality(Workers)}
ImplementsMessageSpec == Messages!Spec

-----------------------------------------------------------------------------
(* The inductive invariant: what holds of each half, and that each row was *)
(* rendered by a flush of its own, which the coalescer made.               *)
TextsAreFlushes ==
  /\ text \in [T!Rows -> [batch : Events \cup {NoBatch}, by : {"none", "cap", "timer"}]]
  /\ \A r \in T!Rows :
       IF r > created
         THEN text[r] = NoText
         ELSE /\ text[r].batch \in Events
              /\ \/ text[r].by = "cap" /\ CapFlushed(text[r].batch)
                 \/ text[r].by = "timer" /\ TimerFlushed(text[r].batch)

TextsDiffer ==
  \A q, r \in T!Rows : q =< created /\ r =< created /\ text[q] = text[r] => q = r

GatewayIInv == Consistent /\ T!IInv /\ TextsAreFlushes /\ TextsDiffer

(* Without faults, and with room on the queue for every row: what is not   *)
(* shown and waits no longer was refused by Telegram, and its row says so. *)
NoSilentLoss ==
  \A e \in Events \ todo :
    \/ e \in Waiting
    \/ ShownWith(e) # {}
    \/ \E r \in T!Rows : r =< created /\ e \in EventsOf(r) /\ row[r].status = "failed"

FlushesHaveRows ==
  \A p \in Events : \A by \in {"cap", "timer"} :
    (\E i \in DOMAIN calls[p] : calls[p][i].by = by) =>
      \E r \in T!Rows : r =< created /\ text[r] = [batch |-> p, by |-> by]

(* Not a property of this code (README.md, section 5): one message per batch. *)
ShownOnce == \A q, r \in Shown : text[q].batch = text[r].batch => q = r
=============================================================================
