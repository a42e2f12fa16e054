------------------------------ MODULE Transport ------------------------------
(***************************************************************************)
(* internal/transport/transport.go and the delivery rows it keeps          *)
(* (internal/store/deliveries.go): a batch's row is created, its delivery  *)
(* put on the bounded queue, and one Run goroutine takes deliveries off    *)
(* the queue and tries each until it is sent, refused or given up.         *)
(*                                                                         *)
(* The row, the queue and the loop's local state are three records of one  *)
(* delivery that change at different moments: flush goroutines, the        *)
(* /undelivered button, Stop and a restart act between the loop's steps.   *)
(* Rows are deliveries.id, handed out in order. Texts, chats, tg_msg_id,   *)
(* last_err and next_retry_at are left out: nothing reads them back to     *)
(* decide what to do. Sleeping is the step that follows the sleep.         *)
(***************************************************************************)
EXTENDS Integers, Sequences, FiniteSets

CONSTANTS MaxRows,      \* bound: deliveries created
          QueueCap,     \* queue capacity (5000 in main.go)
          MaxAttempts,  \* maxAttempts (5)
          TokenCap,     \* token bucket capacity (30)
          RetryMax,     \* rows reset per click on "Retry all failed" (50)
          Faults        \* what the environment may do, a subset of FaultKinds

FaultKinds == {"retry",    \* the user clicks "Retry all failed"
               "stop",     \* main returns and closes the stop channel
               "crash",    \* the process dies and is started again
               "write"}    \* a bookkeeping write fails (the code ignores it)

ASSUME BoundAssumption == MaxRows \in Nat /\ QueueCap \in Nat
ASSUME AttemptsAssumption == MaxAttempts \in Nat \ {0}
ASSUME TokenAssumption == TokenCap \in Nat \ {0}
ASSUME RetryMaxAssumption == RetryMax \in Nat
ASSUME FaultsAssumption == Faults \subseteq FaultKinds

Rows == 1..MaxRows
NoRow == 0

VARIABLES created,   \* the last row id handed out
          flushing,  \* rows whose Flush has not reached Enqueue
          row,       \* the deliveries table: status and attempts
          queue,     \* the channel
          run,       \* the Run goroutine: pc, delivery, attempt
          tokens,    \* whole tokens in the bucket
          stopped,   \* the stop channel is closed
          tries,     \* what Telegram saw: answers other than 429, per row
          acks,      \* successful answers that reached the loop, per row
          posted     \* messages it posted, per row: the answer may be lost

vars == <<created, flushing, row, queue, run, tokens, stopped, tries, acks, posted>>

Receiving == [pc |-> "recv", row |-> NoRow, attempt |-> 0]
NoDelivery == [status |-> "none", attempts |-> 0]

Init ==
  /\ created = 0
  /\ flushing = {}
  /\ row = [r \in Rows |-> NoDelivery]
  /\ queue = <<>>
  /\ run = Receiving
  /\ tokens = TokenCap
  /\ stopped = FALSE
  /\ tries = [r \in Rows |-> 0]
  /\ acks = [r \in Rows |-> 0]
  /\ posted = [r \in Rows |-> 0]

-----------------------------------------------------------------------------
(* Flush goroutines. *)

(* CreateDelivery. *)
CreateDelivery ==
  LET r == created + 1
  IN /\ created < MaxRows
     /\ created' = r
     /\ flushing' = flushing \cup {r}
     /\ row' = [row EXCEPT ![r] = [status |-> "pending", attempts |-> 0]]
     /\ UNCHANGED <<queue, run, tokens, stopped, tries, acks, posted>>

(* Mutant: Flush forgets to hand the delivery over. *)
EnqueueNothing(r) == UNCHANGED queue

(* Queue.Enqueue: a full queue drops the delivery, and nobody is told. *)
Enqueue(r) == queue' = IF Len(queue) < QueueCap THEN Append(queue, r) ELSE queue

FlushEnqueue(r) ==
  /\ r \in flushing
  /\ flushing' = flushing \ {r}
  /\ Enqueue(r)
  /\ UNCHANGED <<created, row, run, tokens, stopped, tries, acks, posted>>

-----------------------------------------------------------------------------
(* The Run goroutine. *)

(* recvBlocking, a delivery; with stop closed too, select may pick either. *)
Receive ==
  /\ run.pc = "recv"
  /\ queue # <<>>
  /\ run' = [pc |-> "take", row |-> Head(queue), attempt |-> 0]
  /\ queue' = Tail(queue)
  /\ UNCHANGED <<created, flushing, row, tokens, stopped, tries, acks, posted>>

(* recvBlocking, stop. *)
Exit ==
  /\ run.pc = "recv"
  /\ stopped
  /\ run' = [run EXCEPT !.pc = "exited"]
  /\ UNCHANGED <<created, flushing, row, queue, tokens, stopped, tries, acks, posted>>

(* TokenBucket.take, when a token is there. *)
Take ==
  /\ run.pc = "take"
  /\ tokens >= 1
  /\ tokens' = tokens - 1
  /\ run' = [run EXCEPT !.pc = "send"]
  /\ UNCHANGED <<created, flushing, row, queue, stopped, tries, acks, posted>>

(* Mutant: the bucket keeps whole tokens only, and every poll drops the    *)
(* fraction of one it has waited for.                                      *)
RefillTruncated ==
  /\ tokens < TokenCap
  /\ UNCHANGED <<created, flushing, row, queue, run, tokens, stopped, tries, acks, posted>>

(* Time refills the bucket. *)
Refill ==
  /\ tokens < TokenCap
  /\ tokens' = tokens + 1
  /\ UNCHANGED <<created, flushing, row, queue, run, stopped, tries, acks, posted>>

(* SendMessage returns: ok, 429, 403, or any other error, the latter also  *)
(* when Telegram posted the message and its answer was lost (SendLost).    *)
SendOk ==
  /\ run.pc = "send"
  /\ run' = [run EXCEPT !.pc = "ok"]
  /\ tries' = [tries EXCEPT ![run.row] = @ + 1]
  /\ acks' = [acks EXCEPT ![run.row] = @ + 1]
  /\ posted' = [posted EXCEPT ![run.row] = @ + 1]
  /\ UNCHANGED <<created, flushing, row, queue, tokens, stopped>>

SendFlood ==
  /\ run.pc = "send"
  /\ run' = [run EXCEPT !.pc = "flood"]
  /\ UNCHANGED <<created, flushing, row, queue, tokens, stopped, tries, acks, posted>>

SendFails(outcome) ==
  /\ run.pc = "send"
  /\ run' = [run EXCEPT !.pc = outcome]
  /\ tries' = [tries EXCEPT ![run.row] = @ + 1]
  /\ UNCHANGED <<created, flushing, row, queue, tokens, stopped, acks>>

SendForbidden == SendFails("forbidden") /\ UNCHANGED posted
SendError == SendFails("error") /\ UNCHANGED posted
SendLost == SendFails("error") /\ posted' = [posted EXCEPT ![run.row] = @ + 1]

(* A bookkeeping write; its error is discarded. *)
Write(r, delivery) ==
  \/ row' = [row EXCEPT ![r] = delivery]
  \/ "write" \in Faults /\ UNCHANGED row

(* Mutant: a sent delivery goes round the retry loop once more. *)
AfterSendAgain == [run EXCEPT !.pc = "take"]

(* deliver returned nil: the loop is done with this delivery. *)
AfterSend == Receiving

(* Mutant: the send that succeeded is not counted as an attempt. *)
SentRowUncounted(r) == [status |-> "sent", attempts |-> row[r].attempts]

(* What MarkDeliverySent writes. *)
SentRow(r) == [status |-> "sent", attempts |-> row[r].attempts + 1]

MarkDeliverySent ==
  /\ run.pc = "ok"
  /\ Write(run.row, SentRow(run.row))
  /\ run' = AfterSend
  /\ UNCHANGED <<created, flushing, queue, tokens, stopped, tries, acks, posted>>

(* DeliveryRetry429 leaves status and attempts alone, attempt-- undoes the *)
(* loop's attempt++, and the loop starts over, as often as it takes.       *)
DeliveryRetry429 ==
  /\ run.pc = "flood"
  /\ run' = [run EXCEPT !.pc = "take"]
  /\ UNCHANGED <<created, flushing, row, queue, tokens, stopped, tries, acks, posted>>

(* Mutant: the failure is recorded with the other status. *)
FailDeliveryAsSent(r, attempts) == Write(r, [status |-> "sent", attempts |-> attempts])

FailDelivery(r, attempts) == Write(r, [status |-> "failed", attempts |-> attempts])

(* 403: FailDeliveryPermanently, no retry. *)
FailForbidden ==
  /\ run.pc = "forbidden"
  /\ FailDelivery(run.row, run.attempt + 1)
  /\ run' = Receiving
  /\ UNCHANGED <<created, flushing, queue, tokens, stopped, tries, acks, posted>>

(* Mutant: the loop runs while attempt <= maxAttempts. *)
AfterErrorTooMany ==
  [run EXCEPT !.attempt = @ + 1,
              !.pc = IF run.attempt < MaxAttempts THEN "take" ELSE "exhausted"]

(* attempt++ and the loop's condition. *)
AfterError ==
  [run EXCEPT !.attempt = @ + 1,
              !.pc = IF run.attempt + 1 < MaxAttempts THEN "take" ELSE "exhausted"]

(* Any other error: MarkDeliveryFailed writes 'failed' although the loop   *)
(* is going to try again, then it sleeps.                                  *)
MarkDeliveryFailed ==
  /\ run.pc = "error"
  /\ FailDelivery(run.row, run.attempt + 1)
  /\ run' = AfterError
  /\ UNCHANGED <<created, flushing, queue, tokens, stopped, tries, acks, posted>>

(* After the loop: FailDeliveryPermanently. *)
FailExhausted ==
  /\ run.pc = "exhausted"
  /\ FailDelivery(run.row, MaxAttempts)
  /\ run' = Receiving
  /\ UNCHANGED <<created, flushing, queue, tokens, stopped, tries, acks, posted>>

-----------------------------------------------------------------------------
(* The environment. *)

Status(s) == {r \in Rows : row[r].status = s}

(* Mutant: the button resets every row, the sent ones too. *)
RetriableAll == Status("failed") \cup Status("sent")

(* The rows of RetryAllFailed's subquery: the oldest failed ones. *)
Retriable == {r \in Status("failed") :
                Cardinality({q \in Status("failed") : q < r}) < RetryMax}

ResetRows == [r \in Rows |-> IF r \in Retriable
                               THEN [status |-> "pending", attempts |-> 0]
                               ELSE row[r]]

(* The button resets rows; it puts nothing on the queue. *)
RetryAllFailed ==
  /\ "retry" \in Faults
  /\ row' = ResetRows
  /\ UNCHANGED <<created, flushing, queue, run, tokens, stopped, tries, acks, posted>>

Stop ==
  /\ "stop" \in Faults
  /\ ~ stopped
  /\ stopped' = TRUE
  /\ UNCHANGED <<created, flushing, row, queue, run, tokens, tries, acks, posted>>

(* The process dies and a new one starts over the same database, with an   *)
(* empty queue: main reads no delivery.                                    *)
Crash ==
  /\ "crash" \in Faults
  /\ flushing' = {}
  /\ queue' = <<>>
  /\ run' = Receiving
  /\ tokens' = TokenCap
  /\ stopped' = FALSE
  /\ UNCHANGED <<created, row, tries, acks, posted>>

-----------------------------------------------------------------------------
Loop == \/ Receive \/ Take
        \/ SendOk \/ SendFlood \/ SendForbidden \/ SendError \/ SendLost
        \/ MarkDeliverySent \/ DeliveryRetry429 \/ FailForbidden
        \/ MarkDeliveryFailed \/ FailExhausted \/ Exit

Next == \/ CreateDelivery
        \/ \E r \in Rows : FlushEnqueue(r)
        \/ Loop
        \/ Refill
        \/ RetryAllFailed
        \/ Stop
        \/ Crash

Spec == Init /\ [][Next]_vars

(* The Run goroutine is scheduled, time passes, and Telegram does not      *)
(* answer 429 for ever (the loop itself sets no limit to that).            *)
Fairness == /\ WF_vars(Loop)
            /\ WF_vars(Refill)
            /\ SF_vars(SendOk \/ SendForbidden \/ SendError \/ SendLost)

FairSpec == Spec /\ Fairness
-----------------------------------------------------------------------------
Queued == {queue[i] : i \in DOMAIN queue}

(* Somebody will still act on r. *)
Held(r) == r \in flushing \/ r \in Queued \/ r = run.row

(* r was created and nobody will act on it any more. *)
Left(r) == r =< created /\ ~ Held(r)

(* Every variable has its type. *)
TypeOK ==
  /\ created \in 0..MaxRows
  /\ flushing \in SUBSET Rows
  /\ row \in [Rows -> [status : {"none", "pending", "sent", "failed"},
                       attempts : 0..MaxAttempts]]
  /\ queue \in Seq(Rows) /\ Len(queue) =< QueueCap
  /\ run \in [pc : {"recv", "take", "send", "ok", "flood", "forbidden", "error",
                    "exhausted", "exited"},
              row : Rows \cup {NoRow}, attempt : 0..MaxAttempts]
  /\ tokens \in 0..TokenCap
  /\ stopped \in BOOLEAN
  /\ tries \in [Rows -> 0..MaxAttempts]
  /\ acks \in [Rows -> {0, 1}]
  /\ posted \in [Rows -> 0..MaxAttempts]

(* Once Telegram's ok has reached the loop, no message of the delivery is  *)
(* posted any more, whatever fails or crashes before the row says so.  (If *)
(* the ok is lost the loop does post it again: PostedOnce below.)          *)
AckedIsFinal ==
  [][\A r \in Rows : acks[r] > 0 => acks'[r] = acks[r] /\ posted'[r] = posted[r]]_vars

(* At most maxAttempts attempts other than 429 are made per delivery, and  *)
(* so at most as many messages posted, whatever the button does to the row *)
(* meanwhile, however often Telegram says 429 and its answer is lost.      *)
AttemptsBounded == \A r \in Rows : tries[r] =< MaxAttempts /\ posted[r] =< MaxAttempts

(* 'sent' is only written for what Telegram said it posted. *)
SentIsTrue == \A r \in Rows : row[r].status = "sent" => acks[r] = 1

(* A delivery is in one place: no two goroutines or queue slots hold it. *)
HeldOnce ==
  /\ \A i, j \in DOMAIN queue : queue[i] = queue[j] => i = j
  /\ \A r \in Queued : r \notin flushing /\ r # run.row
  /\ run.row \notin flushing

(* A sent row stays sent, although the loop, the button and a late failure *)
(* all write the status without looking at it.                             *)
SentIsFinal ==
  [][\A r \in Rows : row[r].status = "sent" => row'[r] = row[r]]_vars

(* Every pending row is somebody's: in a flush goroutine, on the queue or  *)
(* with the loop.                                                          *)
PendingIsHeld == \A r \in Rows : row[r].status = "pending" => Held(r)

(* When the loop is done with a delivery the row tells what the loop knows *)
(* of its end, and after how many attempts: a failed delivery may have     *)
(* been posted, if an answer was lost.                                     *)
LeftIsRecorded ==
  \A r \in Rows : Left(r) =>
    /\ row[r].status = "sent" <=> acks[r] = 1
    /\ row[r].status = "failed" <=> acks[r] = 0
    /\ row[r].attempts = tries[r]

(* Everything on the queue is settled at last, in spite of the head-of-    *)
(* line delivery's backoff and of floods that end.                         *)
QueuedIsSettled == \A r \in Rows : (r \in Queued) ~> Left(r)

(* The comment on Stop: "signals the Run loop to exit (after draining)".   *)
StopDrains == run.pc = "exited" => queue = <<>>

(* The comment of package coalesce, one message per batch, as far as it is *)
(* the transport's: a lost answer is an error, and the loop sends again.   *)
PostedOnce == \A r \in Rows : posted[r] =< 1

-----------------------------------------------------------------------------
(* The inductive invariant. Rows above created are untouched; a row that   *)
(* waits for the loop is as CreateDelivery left it; and the loop's place   *)
(* tells how many answers its delivery has had.                            *)
Untouched(r) == tries[r] = 0 /\ acks[r] = 0 /\ posted[r] = 0

NotCreated ==
  \A r \in Rows : r > created => /\ ~ Held(r)
                                 /\ Untouched(r)
                                 /\ row[r].status = "none"

Waiting == \A r \in Rows : r \in flushing \/ r \in Queued =>
             Untouched(r) /\ row[r] = [status |-> "pending", attempts |-> 0]

InHand ==
  LET r == run.row
  IN IF run.pc \in {"recv", "exited"}
       THEN r = NoRow
       ELSE /\ r \in Rows
            /\ row[r].status # "sent"
            /\ row[r].attempts =< run.attempt
            /\ acks[r] = IF run.pc = "ok" THEN 1 ELSE 0
            /\ run.attempt < MaxAttempts <=> run.pc # "exhausted"
            /\ tries[r] = IF run.pc \in {"ok", "forbidden", "error"}
                            THEN run.attempt + 1
                            ELSE run.attempt

(* An ok is a message, and a message an attempt. *)
PostsAreAttempts == \A r \in Rows : acks[r] =< posted[r] /\ posted[r] =< tries[r]

IInv ==
  TypeOK /\ NotCreated /\ Waiting /\ HeldOnce /\ InHand /\ SentIsTrue /\ PostsAreAttempts

(* Without faults the row of the delivery in hand is up to date, too.      *)
HandIsRecorded ==
  run.pc \notin {"recv", "exited"} => row[run.row].attempts = run.attempt
=============================================================================
