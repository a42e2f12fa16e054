--------------------------- MODULE TransportProofs ---------------------------
(* Proofs about Transport for every number of rows, queue capacity, number *)
(* of attempts and set of faults.                                          *)
EXTENDS Transport, FiniteSetTheorems, TLAPS

USE DEF Rows, NoRow

LEMMA SeqElement ==
  ASSUME NEW S, NEW q \in Seq(S), NEW i \in DOMAIN q
  PROVE  q[i] \in S
OBVIOUS

LEMMA PostsStay ==
  ASSUME IInv, UNCHANGED <<tries, acks, posted>>
  PROVE  PostsAreAttempts'
BY DEF IInv, PostsAreAttempts

LEMMA InitIInv == Init => IInv
<1> SUFFICES ASSUME Init PROVE IInv
  OBVIOUS
<1> USE BoundAssumption, AttemptsAssumption, TokenAssumption DEF Init
<1>1. TypeOK
  <2>1. queue \in Seq(Rows) /\ Len(queue) =< QueueCap
    OBVIOUS
  <2>2. row \in [Rows -> [status : {"none", "pending", "sent", "failed"},
                          attempts : 0..MaxAttempts]]
    BY DEF NoDelivery
  <2>3. run \in [pc : {"recv", "take", "send", "ok", "flood", "forbidden", "error",
                       "exhausted", "exited"},
                 row : Rows \cup {NoRow}, attempt : 0..MaxAttempts]
    BY DEF Receiving
  <2>4. created \in 0..MaxRows /\ tokens \in 0..TokenCap
    OBVIOUS
  <2>5. /\ tries \in [Rows -> 0..MaxAttempts] /\ acks \in [Rows -> {0, 1}]
        /\ posted \in [Rows -> 0..MaxAttempts]
    OBVIOUS
  <2> QED
    BY <2>1, <2>2, <2>3, <2>4, <2>5 DEF TypeOK
<1>2. Queued = {}
  BY DEF Queued
<1>3. NotCreated /\ Waiting /\ HeldOnce
  BY <1>2 DEF NotCreated, Waiting, HeldOnce, Held, Untouched, NoDelivery, Receiving
<1>4. InHand /\ SentIsTrue /\ PostsAreAttempts
  BY DEF InHand, SentIsTrue, PostsAreAttempts, NoDelivery, Receiving
<1> QED
  BY <1>1, <1>3, <1>4 DEF IInv

-----------------------------------------------------------------------------
(* The queue. *)

LEMMA AppendQueue ==
  ASSUME NEW q \in Seq(Rows), NEW r \in Rows
  PROVE  /\ Append(q, r) \in Seq(Rows)
         /\ Len(Append(q, r)) = Len(q) + 1
         /\ DOMAIN Append(q, r) = DOMAIN q \cup {Len(q) + 1}
         /\ Len(q) + 1 \notin DOMAIN q
         /\ \A i \in DOMAIN q : Append(q, r)[i] = q[i]
         /\ Append(q, r)[Len(q) + 1] = r
OBVIOUS

LEMMA TailQueue ==
  ASSUME NEW q \in Seq(Rows), q # <<>>
  PROVE  /\ Head(q) = q[1] /\ 1 \in DOMAIN q /\ Head(q) \in Rows
         /\ Tail(q) \in Seq(Rows)
         /\ Len(Tail(q)) = Len(q) - 1
         /\ \A i \in DOMAIN Tail(q) : i + 1 \in DOMAIN q /\ Tail(q)[i] = q[i + 1] /\ i # 0 /\ i \in Nat
<1>1. Len(q) \in Nat \ {0} /\ DOMAIN q = 1..Len(q)
  OBVIOUS
<1>2. Head(q) = q[1] /\ q[1] \in Rows
  <2>1. q[1] \in Rows
    <3>1. 1 \in DOMAIN q
      BY <1>1
    <3> HIDE DEF Rows
    <3> QED
      BY <3>1, SeqElement
  <2>2. Head(q) = q[1]
    BY <1>1
  <2> QED
    BY <2>1, <2>2
<1>3. /\ Tail(q) \in Seq(Rows) /\ Len(Tail(q)) = Len(q) - 1
      /\ \A i \in 1..(Len(q) - 1) : Tail(q)[i] = q[i + 1]
  BY <1>1
<1>4. DOMAIN Tail(q) = 1..(Len(q) - 1)
  BY <1>1, <1>3
<1> QED
  BY <1>1, <1>2, <1>3, <1>4

LEMMA CreateDeliveryIInv ==
  ASSUME IInv, CreateDelivery
  PROVE  IInv'
<1> DEFINE c == created + 1
<1>1. /\ c \in Rows /\ created' = c /\ created \in Nat
      /\ flushing' = flushing \cup {c}
      /\ row' = [row EXCEPT ![c] = [status |-> "pending", attempts |-> 0]]
      /\ UNCHANGED <<queue, run, tokens, stopped, tries, acks, posted>>
  BY BoundAssumption DEF IInv, TypeOK, CreateDelivery
<1>2. ~ Held(c) /\ Untouched(c)
  BY <1>1 DEF IInv, NotCreated
<1>3. Queued' = Queued
  BY <1>1 DEF Queued
<1>4. TypeOK'
  <2>1. row' \in [Rows -> [status : {"none", "pending", "sent", "failed"},
                          attempts : 0..MaxAttempts]]
    BY <1>1, AttemptsAssumption DEF IInv, TypeOK
  <2>2. created' \in 0..MaxRows /\ flushing' \in SUBSET Rows
    BY <1>1, BoundAssumption DEF IInv, TypeOK
  <2> QED
    BY <1>1, <2>1, <2>2 DEF IInv, TypeOK
<1>5. NotCreated'
  BY <1>1, <1>3 DEF IInv, TypeOK, NotCreated, Held, Untouched
<1>6. Waiting'
  BY <1>1, <1>2, <1>3 DEF IInv, TypeOK, Waiting, Untouched
<1>7. HeldOnce'
  BY <1>1, <1>2, <1>3 DEF IInv, HeldOnce, Held
<1>8. InHand'
  BY <1>1, <1>2 DEF IInv, TypeOK, InHand, Held
<1>9. SentIsTrue'
  BY <1>1 DEF IInv, TypeOK, SentIsTrue
<1> QED
  BY <1>1, PostsStay, <1>4, <1>5, <1>6, <1>7, <1>8, <1>9 DEF IInv

LEMMA FlushEnqueueIInv ==
  ASSUME IInv, NEW r \in Rows, FlushEnqueue(r)
  PROVE  IInv'
<1>1. /\ r \in flushing /\ flushing' = flushing \ {r}
      /\ queue' = IF Len(queue) < QueueCap THEN Append(queue, r) ELSE queue
      /\ UNCHANGED <<created, row, run, tokens, stopped, tries, acks, posted>>
  BY DEF FlushEnqueue, Enqueue
<1>2. queue \in Seq(Rows) /\ Len(queue) =< QueueCap
  BY DEF IInv, TypeOK
<1>3. r \notin Queued /\ r # run.row
  BY <1>1 DEF IInv, HeldOnce
<1>4. /\ queue' \in Seq(Rows) /\ Len(queue') =< QueueCap
      /\ Queued' \in {Queued, Queued \cup {r}}
      /\ \A i, j \in DOMAIN queue' : queue'[i] = queue'[j] => i = j
  <2>1. CASE Len(queue) < QueueCap
    <3> DEFINE n == Len(queue) + 1
    <3>1. /\ queue' \in Seq(Rows) /\ Len(queue') = n
          /\ DOMAIN queue' = DOMAIN queue \cup {n} /\ n \notin DOMAIN queue
          /\ \A i \in DOMAIN queue : queue'[i] = queue[i]
          /\ queue'[n] = r
      BY <2>1, <1>1, <1>2, AppendQueue
    <3>2. n =< QueueCap
      BY <2>1, <1>2, BoundAssumption
    <3> HIDE DEF n
    <3>3. Queued' = Queued \cup {r}
      BY <3>1 DEF Queued
    <3>4. \A i, j \in DOMAIN queue' : queue'[i] = queue'[j] => i = j
      BY <3>1, <1>3 DEF IInv, HeldOnce, Queued
    <3> QED
      BY <3>1, <3>2, <3>3, <3>4
  <2>2. CASE ~ (Len(queue) < QueueCap)
    BY <2>2, <1>1, <1>2 DEF IInv, HeldOnce, Queued
  <2> QED
    BY <2>1, <2>2
<1>5. TypeOK'
  BY <1>1, <1>4 DEF IInv, TypeOK
<1>6. NotCreated'
  BY <1>1, <1>4 DEF IInv, NotCreated, Held, Untouched
<1>7. Waiting'
  BY <1>1, <1>4 DEF IInv, Waiting, Untouched
<1>8. HeldOnce'
  BY <1>1, <1>3, <1>4 DEF IInv, HeldOnce
<1>9. InHand' /\ SentIsTrue'
  BY <1>1 DEF IInv, InHand, SentIsTrue
<1> QED
  BY <1>1, PostsStay, <1>5, <1>6, <1>7, <1>8, <1>9 DEF IInv

LEMMA ReceiveIInv ==
  ASSUME IInv, Receive
  PROVE  IInv'
<1> DEFINE r == Head(queue)
<1>1. /\ run.pc = "recv" /\ queue # <<>>
      /\ run' = [pc |-> "take", row |-> r, attempt |-> 0]
      /\ queue' = Tail(queue)
      /\ UNCHANGED <<created, flushing, row, tokens, stopped, tries, acks, posted>>
  BY DEF Receive
<1>2. queue \in Seq(Rows) /\ Len(queue) =< QueueCap
  BY DEF IInv, TypeOK
<1>3. /\ r = queue[1] /\ 1 \in DOMAIN queue /\ r \in Rows
      /\ queue' \in Seq(Rows) /\ Len(queue') = Len(queue) - 1
      /\ \A i \in DOMAIN queue' : /\ i + 1 \in DOMAIN queue /\ queue'[i] = queue[i + 1]
                                  /\ i # 0 /\ i \in Nat
  BY <1>1, <1>2, TailQueue
<1>4. \A i, j \in DOMAIN queue : queue[i] = queue[j] => i = j
  BY DEF IInv, HeldOnce
<1>5. r \in Queued /\ Queued' \subseteq Queued
  BY <1>3 DEF Queued
<1>6. r \notin Queued'
  BY <1>3, <1>4 DEF Queued
<1>7. \A i, j \in DOMAIN queue' : queue'[i] = queue'[j] => i = j
  BY <1>3, <1>4
<1>8. r \notin flushing
  BY <1>5 DEF IInv, HeldOnce
<1>9. Untouched(r) /\ row[r] = [status |-> "pending", attempts |-> 0] /\ r =< created
  BY <1>3, <1>5 DEF IInv, TypeOK, Waiting, NotCreated, Held
<1>10. TypeOK'
  <2>1. run' \in [pc : {"take"}, row : Rows, attempt : 0..MaxAttempts]
    BY <1>1, <1>3, AttemptsAssumption
  <2>2. Len(queue') =< QueueCap
    BY <1>2, <1>3, BoundAssumption
  <2> QED
    BY <1>1, <1>3, <2>1, <2>2 DEF IInv, TypeOK
<1> HIDE DEF r
<1>11. NotCreated'
  BY <1>1, <1>5, <1>9 DEF IInv, TypeOK, NotCreated, Held, Untouched
<1>12. Waiting'
  BY <1>1, <1>5 DEF IInv, Waiting, Untouched
<1>13. HeldOnce'
  BY <1>1, <1>5, <1>6, <1>7, <1>8 DEF IInv, HeldOnce
<1>14. InHand'
  BY <1>1, <1>3, <1>9, AttemptsAssumption DEF InHand, Untouched
<1>15. SentIsTrue'
  BY <1>1 DEF IInv, SentIsTrue
<1> QED
  BY <1>1, PostsStay, <1>10, <1>11, <1>12, <1>13, <1>14, <1>15 DEF IInv

(* The loop at work on a delivery, its bookkeeping apart.                  *)
LEMMA LoopSilentIInv ==
  ASSUME IInv, Exit \/ Take \/ Refill \/ SendFlood \/ DeliveryRetry429 \/ Stop
  PROVE  IInv'
<1>1. /\ run'.row = run.row
      /\ UNCHANGED <<created, flushing, row, queue, tries, acks, posted>>
  BY DEF IInv, TypeOK, Exit, Take, Refill, SendFlood, DeliveryRetry429, Stop
<1>2. TypeOK'
  <2>1. CASE Exit
    BY <2>1 DEF IInv, TypeOK, Exit
  <2>2. CASE Take
    <3>1. tokens' \in 0..TokenCap
      BY <2>2, TokenAssumption DEF IInv, TypeOK, Take
    <3>2. run' \in [pc : {"send"}, row : Rows \cup {NoRow}, attempt : 0..MaxAttempts]
      BY <2>2 DEF IInv, TypeOK, Take
    <3> QED
      BY <2>2, <3>1, <3>2 DEF IInv, TypeOK, Take
  <2>3. CASE Refill
    BY <2>3, TokenAssumption DEF IInv, TypeOK, Refill
  <2>4. CASE SendFlood \/ DeliveryRetry429 \/ Stop
    BY <2>4 DEF IInv, TypeOK, SendFlood, DeliveryRetry429, Stop
  <2> QED
    BY <2>1, <2>2, <2>3, <2>4
<1>3. Queued' = Queued
  BY <1>1 DEF Queued
<1>4. NotCreated' /\ Waiting' /\ HeldOnce' /\ SentIsTrue'
  BY <1>1, <1>3 DEF IInv, NotCreated, Waiting, HeldOnce, SentIsTrue, Held, Untouched
<1>5. InHand'
  BY <1>1 DEF IInv, TypeOK, InHand, Exit, Take, Refill, SendFlood, DeliveryRetry429, Stop
<1> QED
  BY <1>1, PostsStay, <1>2, <1>4, <1>5 DEF IInv

LEMMA SendIInv ==
  ASSUME IInv, SendOk \/ SendForbidden \/ SendError \/ SendLost
  PROVE  IInv'
<1>1. PICK r \in Rows : r = run.row
  BY DEF IInv, InHand, SendOk, SendForbidden, SendError, SendLost, SendFails
<1>2. /\ run.pc = "send" /\ run'.pc \in {"ok", "forbidden", "error"}
      /\ run' = [run EXCEPT !.pc = run'.pc]
      /\ tries' = [tries EXCEPT ![r] = @ + 1]
      /\ acks' = IF run'.pc = "ok" THEN [acks EXCEPT ![r] = @ + 1] ELSE acks
      /\ \/ posted' = [posted EXCEPT ![r] = @ + 1]
         \/ posted' = posted /\ run'.pc # "ok"
      /\ UNCHANGED <<created, flushing, row, queue, tokens, stopped>>
  BY <1>1 DEF IInv, TypeOK, SendOk, SendForbidden, SendError, SendLost, SendFails
<1>3. /\ acks[r] = 0 /\ tries[r] = run.attempt /\ run.attempt < MaxAttempts
      /\ row[r].status # "sent" /\ row[r].attempts =< run.attempt
      /\ posted[r] =< run.attempt /\ posted[r] \in Nat /\ run.attempt \in Nat
  BY <1>1, <1>2, AttemptsAssumption DEF IInv, TypeOK, InHand, PostsAreAttempts
<1>4. /\ run' \in [pc : {"ok", "forbidden", "error"}, row : Rows, attempt : 0..MaxAttempts]
      /\ run'.row = r /\ run'.attempt = run.attempt
  BY <1>1, <1>2 DEF IInv, TypeOK
<1>5. /\ tries' \in [Rows -> 0..MaxAttempts] /\ acks' \in [Rows -> {0, 1}]
      /\ tries'[r] = run.attempt + 1
      /\ acks'[r] = IF run'.pc = "ok" THEN 1 ELSE 0
      /\ \A q \in Rows \ {r} : tries'[q] = tries[q] /\ acks'[q] = acks[q]
  BY <1>1, <1>2, <1>3, AttemptsAssumption DEF IInv, TypeOK
<1>6. /\ posted' \in [Rows -> 0..MaxAttempts]
      /\ posted'[r] \in {posted[r], posted[r] + 1}
      /\ run'.pc = "ok" => posted'[r] = posted[r] + 1
      /\ \A q \in Rows \ {r} : posted'[q] = posted[q]
  <2>1. posted \in [Rows -> 0..MaxAttempts] /\ posted[r] + 1 \in 0..MaxAttempts
    BY <1>3, AttemptsAssumption DEF IInv, TypeOK
  <2> QED
    BY <1>2, <2>1
<1>7. TypeOK'
  BY <1>2, <1>4, <1>5, <1>6 DEF IInv, TypeOK
<1>8. Queued' = Queued
  BY <1>2 DEF Queued
<1>9. NotCreated' /\ Waiting' /\ HeldOnce'
  BY <1>1, <1>2, <1>4, <1>5, <1>6, <1>8 DEF IInv, NotCreated, Waiting, HeldOnce, Held, Untouched
<1>10. InHand'
  BY <1>2, <1>3, <1>4, <1>5 DEF InHand
<1>11. SentIsTrue'
  BY <1>2, <1>3, <1>5 DEF IInv, SentIsTrue
<1>12. PostsAreAttempts'
  BY <1>3, <1>5, <1>6 DEF IInv, PostsAreAttempts
<1> QED
  BY <1>7, <1>9, <1>10, <1>11, <1>12 DEF IInv

(* A write to the row of the delivery in hand, and the end of its loop.    *)
LEMMA SettleIInv ==
  ASSUME IInv, MarkDeliverySent \/ FailForbidden \/ FailExhausted
  PROVE  IInv'
<1>1. PICK r \in Rows : r = run.row
  BY DEF IInv, InHand, MarkDeliverySent, FailForbidden, FailExhausted
<1>2. /\ run' = Receiving
      /\ UNCHANGED <<created, flushing, queue, tokens, stopped, tries, acks, posted>>
  BY DEF MarkDeliverySent, FailForbidden, FailExhausted, AfterSend
<1>3. PICK d \in [status : {"sent", "failed"}, attempts : 0..MaxAttempts] :
         /\ row' \in {row, [row EXCEPT ![r] = d]}
         /\ d.status = "sent" => acks[r] = 1
  <2>1. CASE MarkDeliverySent
    <3>1. row[r].attempts \in 0..MaxAttempts /\ row[r].attempts < MaxAttempts /\ acks[r] = 1
      <4>1. row[r].attempts \in 0..MaxAttempts /\ run.attempt \in 0..MaxAttempts
        BY <1>1 DEF IInv, TypeOK
      <4>2. row[r].attempts =< run.attempt /\ run.attempt < MaxAttempts /\ acks[r] = 1
        BY <2>1, <1>1 DEF IInv, InHand, MarkDeliverySent
      <4> QED
        BY <4>1, <4>2, AttemptsAssumption
    <3>2. SentRow(r) \in [status : {"sent", "failed"}, attempts : 0..MaxAttempts]
      BY <3>1, AttemptsAssumption DEF SentRow
    <3> QED
      BY <2>1, <3>1, <3>2, <1>1 DEF MarkDeliverySent, Write
  <2>2. CASE FailForbidden
    <3>1. run.attempt + 1 \in 0..MaxAttempts
      BY <2>2, AttemptsAssumption DEF IInv, TypeOK, InHand, FailForbidden
    <3> QED
      BY <2>2, <3>1, <1>1 DEF FailForbidden, FailDelivery, Write
  <2>3. CASE FailExhausted
    BY <2>3, <1>1, AttemptsAssumption DEF FailExhausted, FailDelivery, Write
  <2> QED
    BY <2>1, <2>2, <2>3
<1>4. /\ row' \in [Rows -> [status : {"none", "pending", "sent", "failed"},
                          attempts : 0..MaxAttempts]]
      /\ \A q \in Rows \ {r} : row'[q] = row[q]
      /\ row'[r].status = "sent" => acks[r] = 1
  <2>1. row \in [Rows -> [status : {"none", "pending", "sent", "failed"},
                          attempts : 0..MaxAttempts]]
    BY DEF IInv, TypeOK
  <2>2. row[r].status = "sent" => acks[r] = 1
    BY DEF IInv, SentIsTrue
  <2>3. CASE row' = row
    BY <2>1, <2>2, <2>3
  <2>4. CASE row' = [row EXCEPT ![r] = d]
    BY <2>1, <2>4, <1>3
  <2> QED
    BY <1>3, <2>3, <2>4
<1>5. r \notin flushing /\ r \notin Queued /\ r =< created
  BY <1>1 DEF IInv, HeldOnce, NotCreated, Held, TypeOK
<1>6. Queued' = Queued /\ run'.row = NoRow /\ NoRow \notin Rows /\ NoRow \notin Queued
      /\ NoRow \notin flushing
  <2>1. NoRow \notin Rows
    BY BoundAssumption
  <2>2. Queued \subseteq Rows /\ flushing \subseteq Rows
    <3>1. queue \in Seq(Rows) /\ flushing \subseteq Rows
      BY DEF IInv, TypeOK
    <3>2. \A i \in DOMAIN queue : queue[i] \in Rows
      BY <3>1, SeqElement
    <3> QED
      BY <3>1, <3>2 DEF Queued
  <2>3. Queued' = Queued
    BY <1>2 DEF Queued
  <2> QED
    BY <2>1, <2>2, <2>3, <1>2 DEF Receiving
<1>7. TypeOK'
  BY <1>2, <1>4, AttemptsAssumption DEF IInv, TypeOK, Receiving
<1>8. NotCreated'
  BY <1>2, <1>4, <1>5, <1>6 DEF IInv, TypeOK, NotCreated, Held, Untouched
<1>9. Waiting' /\ HeldOnce'
  BY <1>2, <1>4, <1>5, <1>6 DEF IInv, Waiting, HeldOnce, Untouched
<1>10. InHand' /\ SentIsTrue'
  BY <1>2, <1>4 DEF IInv, InHand, SentIsTrue, Receiving
<1> QED
  BY <1>2, PostsStay, <1>7, <1>8, <1>9, <1>10 DEF IInv

LEMMA MarkDeliveryFailedIInv ==
  ASSUME IInv, MarkDeliveryFailed
  PROVE  IInv'
<1>1. PICK r \in Rows : r = run.row
  BY DEF IInv, InHand, MarkDeliveryFailed
<1> DEFINE a == run.attempt + 1
<1>2. /\ run.pc = "error" /\ a \in 0..MaxAttempts /\ run.attempt \in Nat
      /\ tries[r] = a /\ acks[r] = 0 /\ row[r].status # "sent" /\ row[r].attempts =< run.attempt
  BY <1>1, AttemptsAssumption DEF IInv, TypeOK, InHand, MarkDeliveryFailed
<1>3. /\ run' = [run EXCEPT !.attempt = a,
                          !.pc = IF a < MaxAttempts THEN "take" ELSE "exhausted"]
      /\ row' \in {row, [row EXCEPT ![r] = [status |-> "failed", attempts |-> a]]}
      /\ UNCHANGED <<created, flushing, queue, tokens, stopped, tries, acks, posted>>
  BY <1>1 DEF MarkDeliveryFailed, AfterError, FailDelivery, Write
<1>4. /\ run'.row = r /\ run'.attempt = a
      /\ run'.pc = IF a < MaxAttempts THEN "take" ELSE "exhausted"
      /\ run' \in [pc : {"take", "exhausted"}, row : Rows, attempt : 0..MaxAttempts]
  BY <1>1, <1>2, <1>3 DEF IInv, TypeOK
<1>5. /\ row' \in [Rows -> [status : {"none", "pending", "sent", "failed"},
                          attempts : 0..MaxAttempts]]
      /\ \A q \in Rows \ {r} : row'[q] = row[q]
      /\ row'[r].status # "sent" /\ row'[r].attempts =< a
  <2>1. row \in [Rows -> [status : {"none", "pending", "sent", "failed"},
                          attempts : 0..MaxAttempts]]
    BY DEF IInv, TypeOK
  <2>2. CASE row' = row
    BY <1>2, <2>1, <2>2
  <2>3. CASE row' = [row EXCEPT ![r] = [status |-> "failed", attempts |-> a]]
    BY <1>2, <2>1, <2>3
  <2> QED
    BY <1>3, <2>2, <2>3
<1> HIDE DEF a
<1>6. r \notin flushing /\ r \notin Queued /\ r =< created
  BY <1>1 DEF IInv, HeldOnce, NotCreated, Held, TypeOK
<1>7. Queued' = Queued
  BY <1>3 DEF Queued
<1>8. TypeOK'
  BY <1>3, <1>4, <1>5 DEF IInv, TypeOK
<1>9. NotCreated'
  BY <1>1, <1>3, <1>4, <1>5, <1>6, <1>7 DEF IInv, TypeOK, NotCreated, Held, Untouched
<1>10. Waiting' /\ HeldOnce'
  BY <1>1, <1>3, <1>4, <1>5, <1>6, <1>7 DEF IInv, Waiting, HeldOnce, Untouched
<1>11. InHand'
  BY <1>2, <1>3, <1>4, <1>5 DEF InHand
<1>12. SentIsTrue'
  BY <1>3, <1>5 DEF IInv, SentIsTrue
<1> QED
  BY <1>3, PostsStay, <1>8, <1>9, <1>10, <1>11, <1>12 DEF IInv

LEMMA RetryAllFailedIInv ==
  ASSUME IInv, RetryAllFailed
  PROVE  IInv'
<1>1. /\ UNCHANGED <<created, flushing, queue, run, tokens, stopped, tries, acks, posted>>
      /\ row' \in [Rows -> [status : {"none", "pending", "sent", "failed"},
                          attempts : 0..MaxAttempts]]
  BY AttemptsAssumption DEF RetryAllFailed, ResetRows, IInv, TypeOK
<1>2. \A r \in Rows : \/ row'[r] = row[r]
                      \/ /\ row[r].status = "failed"
                         /\ row'[r] = [status |-> "pending", attempts |-> 0]
  BY DEF RetryAllFailed, ResetRows, Retriable, Status
<1>3. Queued' = Queued
  BY <1>1 DEF Queued
<1>4. TypeOK'
  BY <1>1 DEF IInv, TypeOK
<1>5. NotCreated' /\ HeldOnce'
  BY <1>1, <1>2, <1>3 DEF IInv, NotCreated, HeldOnce, Held, Untouched
<1>6. Waiting'
  BY <1>1, <1>2, <1>3 DEF IInv, TypeOK, Waiting, Untouched, Queued
<1>7. InHand'
  BY <1>1, <1>2 DEF IInv, TypeOK, InHand
<1>8. SentIsTrue'
  BY <1>1, <1>2 DEF IInv, SentIsTrue
<1> QED
  BY <1>1, PostsStay, <1>4, <1>5, <1>6, <1>7, <1>8 DEF IInv

LEMMA CrashIInv ==
  ASSUME IInv, Crash
  PROVE  IInv'
<1>1. /\ flushing' = {} /\ queue' = <<>> /\ run' = Receiving /\ tokens' = TokenCap
      /\ stopped' = FALSE /\ UNCHANGED <<created, row, tries, acks, posted>>
  BY DEF Crash
<1>2. Queued' = {}
  BY <1>1 DEF Queued
<1>3. TypeOK'
  <2>1. queue' \in Seq(Rows) /\ Len(queue') =< QueueCap
    BY <1>1, BoundAssumption
  <2>2. run' \in [pc : {"recv"}, row : {NoRow}, attempt : 0..MaxAttempts]
    BY <1>1, AttemptsAssumption DEF Receiving
  <2>3. tokens' \in 0..TokenCap
    BY <1>1, TokenAssumption
  <2> QED
    BY <1>1, <2>1, <2>2, <2>3 DEF IInv, TypeOK
<1>4. NotCreated' /\ Waiting' /\ HeldOnce'
  BY <1>1, <1>2 DEF IInv, NotCreated, Waiting, HeldOnce, Held, Untouched, Receiving
<1>5. InHand' /\ SentIsTrue'
  BY <1>1 DEF IInv, InHand, SentIsTrue, Receiving
<1> QED
  BY <1>1, PostsStay, <1>3, <1>4, <1>5 DEF IInv

LEMMA StutterIInv ==
  ASSUME IInv, UNCHANGED vars
  PROVE  IInv'
BY DEF vars, IInv, TypeOK, NotCreated, Waiting, HeldOnce, InHand, SentIsTrue, PostsAreAttempts, Held,
     Untouched, Queued

LEMMA StepIInv == IInv /\ [Next]_vars => IInv'
<1> SUFFICES ASSUME IInv, [Next]_vars PROVE IInv'
  OBVIOUS
<1>1. CASE Loop
  BY <1>1, ReceiveIInv, LoopSilentIInv, SendIInv, SettleIInv, MarkDeliveryFailedIInv DEF Loop
<1>2. CASE CreateDelivery \/ \E r \in Rows : FlushEnqueue(r)
  BY <1>2, CreateDeliveryIInv, FlushEnqueueIInv
<1>3. CASE Refill \/ RetryAllFailed \/ Stop \/ Crash
  BY <1>3, LoopSilentIInv, RetryAllFailedIInv, CrashIInv
<1>4. CASE UNCHANGED vars
  BY <1>4, StutterIInv
<1> QED
  BY <1>1, <1>2, <1>3, <1>4 DEF Next

THEOREM Inductive == Spec => []IInv
BY InitIInv, StepIInv, PTL DEF Spec

-----------------------------------------------------------------------------
(* What the invariant gives. *)

(* Every reachable state is well-typed: in particular the attempts written *)
(* to a row and the answers taken for it stay within maxAttempts.          *)
THEOREM TypeCorrect == Spec => []TypeOK
<1>1. IInv => TypeOK
  BY DEF IInv
<1> QED
  BY <1>1, Inductive, PTL

(* Once the loop has Telegram's ok for a delivery nothing posts a message  *)
(* of it any more: whoever could is done with it, whatever fails later.    *)
THEOREM AckedStaysDone == Spec => AckedIsFinal
<1>1. ASSUME IInv, [Next]_vars, NEW r \in Rows, acks[r] > 0
      PROVE  acks'[r] = acks[r] /\ posted'[r] = posted[r]
  <2> USE <1>1
  <2>1. CASE SendOk \/ SendForbidden \/ SendError \/ SendLost
    <3>1. run.row # r
      BY <2>1 DEF IInv, InHand, SendOk, SendForbidden, SendError, SendLost, SendFails
    <3> QED
      BY <2>1, <3>1 DEF IInv, TypeOK, SendOk, SendForbidden, SendError, SendLost, SendFails
  <2>2. CASE UNCHANGED <<acks, posted>>
    BY <2>2
  <2> QED
    BY <2>1, <2>2 DEF Next, Loop, vars, CreateDelivery, FlushEnqueue, Receive, Exit, Take, Refill,
         SendFlood, DeliveryRetry429, Stop, Crash, MarkDeliverySent, FailForbidden, FailExhausted,
         MarkDeliveryFailed, RetryAllFailed
<1>2. IInv /\ [Next]_vars =>
        [\A r \in Rows : acks[r] > 0 => acks'[r] = acks[r] /\ posted'[r] = posted[r]]_vars
  BY <1>1
<1> QED
  BY <1>2, Inductive, PTL DEF Spec, AckedIsFinal

(* A delivery takes at most maxAttempts attempts that are not answered 429, *)
(* and posts at most as many messages.                                     *)
THEOREM AttemptsAreBounded == Spec => []AttemptsBounded
<1>1. IInv => AttemptsBounded
  <2>1. IInv => tries \in [Rows -> 0..MaxAttempts] /\ posted \in [Rows -> 0..MaxAttempts]
    BY DEF IInv, TypeOK
  <2> QED
    BY <2>1, AttemptsAssumption DEF AttemptsBounded
<1> QED
  BY <1>1, Inductive, PTL

(* 'sent' tells the truth.                                                 *)
THEOREM SentRowsAreTrue == Spec => []SentIsTrue
<1>1. IInv => SentIsTrue
  BY DEF IInv
<1> QED
  BY <1>1, Inductive, PTL

(* A delivery is in one place at a time.                                   *)
THEOREM HeldByOne == Spec => []HeldOnce
<1>1. IInv => HeldOnce
  BY DEF IInv
<1> QED
  BY <1>1, Inductive, PTL

(* No step of the loop, the button or a restart rewrites a sent row.       *)
THEOREM SentRowsAreFinal == Spec => SentIsFinal
<1>1. ASSUME IInv, [Next]_vars, NEW r \in Rows, row[r].status = "sent"
      PROVE  row'[r] = row[r]
  <2> USE <1>1
  <2>1. CASE CreateDelivery
    <3>1. created + 1 # r
      <4>1. created + 1 \in Rows => row[created + 1].status = "none"
        BY DEF IInv, TypeOK, NotCreated
      <4> QED
        BY <4>1
    <3> QED
      BY <2>1, <3>1 DEF CreateDelivery
  <2>2. CASE MarkDeliverySent \/ FailForbidden \/ FailExhausted \/ MarkDeliveryFailed
    <3>1. run.row # r
      BY <2>2 DEF IInv, InHand, MarkDeliverySent, FailForbidden, FailExhausted, MarkDeliveryFailed
    <3>2. \/ UNCHANGED row
          \/ \E d : row' = [row EXCEPT ![run.row] = d]
      BY <2>2 DEF MarkDeliverySent, FailForbidden, FailExhausted, MarkDeliveryFailed,
           FailDelivery, Write
    <3> QED
      BY <3>1, <3>2 DEF IInv, TypeOK
  <2>3. CASE RetryAllFailed
    BY <2>3 DEF RetryAllFailed, ResetRows, Retriable, Status
  <2>4. CASE UNCHANGED row
    BY <2>4
  <2> QED
    BY <2>1, <2>2, <2>3, <2>4 DEF Next, Loop, vars, FlushEnqueue, Receive, Exit, Take, Refill,
         SendOk, SendFlood, SendForbidden, SendError, SendLost, SendFails, DeliveryRetry429, Stop, Crash
<1>2. IInv /\ [Next]_vars => [\A r \in Rows : row[r].status = "sent" => row'[r] = row[r]]_vars
  BY <1>1
<1> QED
  BY <1>2, Inductive, PTL DEF Spec, SentIsFinal

(* Whoever acts on a row has had it since it was created. *)
LEMMA LeftStays ==
  ASSUME IInv, [Next]_vars, NEW r \in Rows, Left(r)
  PROVE  Left(r)'
<1>1. r =< created /\ r \notin flushing /\ r \notin Queued /\ r # run.row
  BY DEF Left, Held
<1>2. created' >= created /\ created \in Nat /\ created' \in Nat
  BY DEF IInv, TypeOK, Next, Loop, vars, CreateDelivery, FlushEnqueue, Receive, Exit, Take, Refill,
       SendOk, SendFlood, SendForbidden, SendError, SendLost, SendFails, DeliveryRetry429, Stop, Crash,
       MarkDeliverySent, FailForbidden, FailExhausted, MarkDeliveryFailed, RetryAllFailed, ResetRows
<1>3. r \notin flushing' /\ r \notin Queued' /\ r # run'.row
  <2>1. CASE CreateDelivery
    BY <2>1, <1>1 DEF CreateDelivery, IInv, TypeOK, Queued
  <2>2. ASSUME NEW q \in Rows, FlushEnqueue(q) PROVE r \notin flushing' /\ r \notin Queued' /\ r # run'.row
    <3>1. q # r
      BY <2>2, <1>1 DEF FlushEnqueue
    <3>2. \A i \in DOMAIN queue' : queue'[i] \in Queued \cup {q}
      BY <2>2, AppendQueue DEF FlushEnqueue, Enqueue, IInv, TypeOK, Queued
    <3>3. Queued' \subseteq Queued \cup {q}
      BY <3>2 DEF Queued
    <3> QED
      BY <2>2, <3>1, <3>3, <1>1 DEF FlushEnqueue
  <2>3. CASE Receive
    <3>1. Head(queue) \in Queued /\ Queued' \subseteq Queued
      BY <2>3, TailQueue DEF Receive, IInv, TypeOK, Queued
    <3> QED
      BY <2>3, <3>1, <1>1 DEF Receive
  <2>4. CASE Crash
    BY <2>4 DEF Crash, Queued, Receiving
  <2>5. CASE MarkDeliverySent \/ FailForbidden \/ FailExhausted
    BY <2>5, <1>1 DEF MarkDeliverySent, FailForbidden, FailExhausted, AfterSend, Receiving, Queued
  <2>6. CASE run'.row = run.row /\ UNCHANGED <<flushing, queue>>
    BY <2>6, <1>1 DEF Queued
  <2> QED
    BY <2>1, <2>2, <2>3, <2>4, <2>5, <2>6 DEF IInv, TypeOK, Next, Loop, vars, Exit, Take, Refill,
         SendOk, SendFlood, SendForbidden, SendError, SendLost, SendFails, DeliveryRetry429, Stop,
         MarkDeliveryFailed, AfterError, RetryAllFailed, ResetRows
<1> QED
  BY <1>1, <1>2, <1>3 DEF Left, Held

-----------------------------------------------------------------------------
(* Without faults, and with room on the queue for every delivery.          *)

(* A row that is still to be queued finds room. *)
LEMMA QueueHasRoom ==
  ASSUME IInv, NEW r \in flushing, QueueCap >= MaxRows
  PROVE  Len(queue) < QueueCap
<1>1. /\ queue \in Seq(Rows) /\ flushing \subseteq Rows
      /\ r \notin Queued /\ \A i, j \in DOMAIN queue : queue[i] = queue[j] => i = j
  BY DEF IInv, TypeOK, HeldOnce
<1>2. /\ IsFiniteSet(Rows) /\ Cardinality(Rows) = MaxRows
  BY FS_Interval, BoundAssumption
<1>3. r \in Rows
  BY <1>1
<1> HIDE DEF Rows
<1>4. IsFiniteSet(Rows \ {r}) /\ Cardinality(Rows \ {r}) = MaxRows - 1
  BY <1>2, <1>3, FS_RemoveElement
<1>5. /\ Len(queue) \in Nat /\ DOMAIN queue = 1..Len(queue)
      /\ \A i \in 1..Len(queue) : queue[i] \in Rows \ {r}
  BY <1>1, SeqElement DEF Queued
<1>6. IsFiniteSet(1..Len(queue)) /\ Cardinality(1..Len(queue)) = Len(queue)
  BY <1>5, FS_Interval
<1>7. [i \in 1..Len(queue) |-> queue[i]] \in [1..Len(queue) -> Rows \ {r}]
  BY <1>5
<1>8. ~ (MaxRows - 1 < Len(queue))
  BY <1>1, <1>4, <1>5, <1>6, <1>7, FS_PigeonHole
<1> QED
  BY <1>5, <1>8, BoundAssumption

(* Steps that neither let go of a delivery nor write the row of one that   *)
(* was let go of.                                                          *)
LEMMA KeepsRecord ==
  ASSUME LeftIsRecorded,
         \A r \in Rows : Left(r)' => /\ Left(r) /\ row'[r] = row[r]
                                    /\ tries'[r] = tries[r] /\ acks'[r] = acks[r]
  PROVE  LeftIsRecorded'
BY DEF LeftIsRecorded

LEMMA FlushRecords ==
  ASSUME IInv, LeftIsRecorded, HandIsRecorded, QueueCap >= MaxRows,
         CreateDelivery \/ \E r \in Rows : FlushEnqueue(r)
  PROVE  LeftIsRecorded' /\ HandIsRecorded'
<1>1. CASE CreateDelivery
  <2> DEFINE c == created + 1
  <2>1. /\ created \in Nat /\ created' = c /\ c \in Rows /\ flushing' = flushing \cup {c}
        /\ row' = [row EXCEPT ![c] = [status |-> "pending", attempts |-> 0]]
        /\ UNCHANGED <<queue, run, tries, acks, posted>> /\ Queued' = Queued
    BY <1>1, BoundAssumption DEF CreateDelivery, IInv, TypeOK, Queued
  <2>2. c # run.row
    BY <2>1 DEF IInv, NotCreated, Held
  <2>3. \A r \in Rows : Left(r)' => Left(r) /\ r # c
    BY <2>1 DEF Left, Held
  <2>4. LeftIsRecorded'
    BY <2>1, <2>3, KeepsRecord DEF IInv, TypeOK
  <2>5. HandIsRecorded'
    BY <2>1, <2>2 DEF HandIsRecorded, IInv, TypeOK
  <2> QED
    BY <2>4, <2>5
<1>2. CASE \E r \in Rows : FlushEnqueue(r)
  <2>1. PICK r \in Rows : FlushEnqueue(r)
    BY <1>2
  <2>2. r \in flushing /\ Len(queue) < QueueCap
    BY <2>1, QueueHasRoom DEF FlushEnqueue
  <2>3. /\ flushing' = flushing \ {r} /\ queue' = Append(queue, r)
        /\ UNCHANGED <<created, row, run, tries, acks, posted>>
    BY <2>1, <2>2 DEF FlushEnqueue, Enqueue
  <2>4. Queued' = Queued \cup {r}
    BY <2>3, AppendQueue DEF IInv, TypeOK, Queued
  <2>5. \A q \in Rows : Left(q)' => Left(q)
    BY <2>3, <2>4 DEF Left, Held
  <2> QED
    BY <2>3, <2>5, KeepsRecord DEF HandIsRecorded
<1> QED
  BY <1>1, <1>2

LEMMA ReceiveRecords ==
  ASSUME IInv, LeftIsRecorded, Receive
  PROVE  LeftIsRecorded' /\ HandIsRecorded'
<1>1. /\ run' = [pc |-> "take", row |-> Head(queue), attempt |-> 0] /\ queue' = Tail(queue)
      /\ queue # <<>> /\ queue \in Seq(Rows) /\ run.row = NoRow
      /\ UNCHANGED <<created, flushing, row, tries, acks, posted>>
  BY DEF Receive, IInv, TypeOK, InHand
<1>2. /\ Head(queue) = queue[1] /\ Head(queue) \in Queued /\ Head(queue) \in Rows
      /\ DOMAIN queue = 1..Len(queue) /\ Len(queue) \in Nat
  BY <1>1, TailQueue DEF Queued
<1>3. Queued \subseteq Queued' \cup {Head(queue)}
  <2> SUFFICES ASSUME NEW i \in 1..Len(queue), i # 1 PROVE queue[i] \in Queued'
    BY <1>2 DEF Queued
  <2>1. i - 1 \in DOMAIN Tail(queue) /\ Tail(queue)[i - 1] = queue[i]
    BY <1>1, <1>2
  <2> QED
    BY <1>1, <2>1 DEF Queued
<1>4. \A r \in Rows : Left(r)' => Left(r)
  BY <1>1, <1>3, BoundAssumption DEF Left, Held
<1>5. row[Head(queue)].attempts = 0
  BY <1>2 DEF IInv, Waiting
<1> QED
  BY <1>1, <1>4, <1>5, KeepsRecord DEF HandIsRecorded

(* The loop at work, up to the end of its delivery. *)
LEMMA WorkRecords ==
  ASSUME IInv, LeftIsRecorded, HandIsRecorded, Faults = {},
         \/ Exit \/ Take \/ Refill \/ SendFlood \/ DeliveryRetry429
         \/ SendOk \/ SendForbidden \/ SendError \/ SendLost \/ MarkDeliveryFailed
  PROVE  LeftIsRecorded' /\ HandIsRecorded'
<1>1. /\ run'.row = run.row /\ UNCHANGED <<created, flushing, queue>>
      /\ \A r \in Rows \ {run.row} : row'[r] = row[r] /\ tries'[r] = tries[r] /\ acks'[r] = acks[r]
  <2>1. CASE MarkDeliveryFailed
    <3>1. PICK d : row' = [row EXCEPT ![run.row] = d]
      BY <2>1 DEF MarkDeliveryFailed, FailDelivery, Write
    <3> QED
      BY <2>1, <3>1 DEF MarkDeliveryFailed, AfterError, IInv, TypeOK
  <2>2. CASE ~ MarkDeliveryFailed
    BY <2>2 DEF IInv, TypeOK, Exit, Take, Refill, SendFlood, DeliveryRetry429, SendOk, SendForbidden,
         SendError, SendLost, SendFails
  <2> QED
    BY <2>1, <2>2
<1>2. \A r \in Rows : Left(r)' => Left(r) /\ r # run.row
  BY <1>1 DEF Left, Held, Queued
<1>3. LeftIsRecorded'
  BY <1>1, <1>2, KeepsRecord
<1>4. HandIsRecorded'
  <2>1. CASE MarkDeliveryFailed
    <3>1. run.row \in Rows /\ row' = [row EXCEPT ![run.row] =
                                       [status |-> "failed", attempts |-> run.attempt + 1]]
      BY <2>1 DEF MarkDeliveryFailed, FailDelivery, Write, IInv, InHand
    <3>2. run'.attempt = run.attempt + 1 /\ row'[run.row].attempts = run.attempt + 1
      BY <2>1, <3>1 DEF MarkDeliveryFailed, AfterError, IInv, TypeOK
    <3> QED
      BY <1>1, <3>2 DEF HandIsRecorded
  <2>2. CASE ~ MarkDeliveryFailed
    BY <2>2 DEF HandIsRecorded, IInv, TypeOK, Exit, Take, Refill, SendFlood, DeliveryRetry429, SendOk,
         SendForbidden, SendError, SendLost, SendFails
  <2> QED
    BY <2>1, <2>2
<1> QED
  BY <1>3, <1>4

(* The end of a delivery: its row gets what Telegram saw of it. *)
LEMMA SettleRecords ==
  ASSUME IInv, LeftIsRecorded, HandIsRecorded, Faults = {},
         MarkDeliverySent \/ FailForbidden \/ FailExhausted
  PROVE  LeftIsRecorded' /\ HandIsRecorded'
<1>1. /\ run' = Receiving /\ UNCHANGED <<created, flushing, queue, tries, acks, posted>>
      /\ Queued' = Queued
  BY DEF MarkDeliverySent, FailForbidden, FailExhausted, AfterSend, Queued
<1>2. PICK r \in Rows : r = run.row
  BY DEF IInv, InHand, MarkDeliverySent, FailForbidden, FailExhausted
<1>3. /\ row[r].attempts = run.attempt /\ run.attempt \in 0..MaxAttempts
      /\ tries[r] \in 0..MaxAttempts /\ acks[r] \in {0, 1}
  BY <1>2 DEF IInv, TypeOK, HandIsRecorded, MarkDeliverySent, FailForbidden, FailExhausted
<1>4. /\ row'[r].attempts = tries[r]
      /\ \/ row'[r].status = "sent" /\ acks[r] = 1
         \/ row'[r].status = "failed" /\ acks[r] = 0
  <2>1. CASE MarkDeliverySent
    <3>1. row' = [row EXCEPT ![r] = SentRow(r)] /\ tries[r] = run.attempt + 1 /\ acks[r] = 1
      BY <2>1, <1>2 DEF MarkDeliverySent, Write, IInv, InHand
    <3>2. row'[r] = SentRow(r)
      BY <3>1 DEF IInv, TypeOK
    <3> QED
      BY <1>3, <3>1, <3>2 DEF SentRow
  <2>2. CASE FailForbidden
    <3>1. /\ row' = [row EXCEPT ![r] = [status |-> "failed", attempts |-> run.attempt + 1]]
          /\ tries[r] = run.attempt + 1 /\ acks[r] = 0
      BY <2>2, <1>2 DEF FailForbidden, FailDelivery, Write, IInv, InHand
    <3> QED
      BY <3>1 DEF IInv, TypeOK
  <2>3. CASE FailExhausted
    <3>1. /\ row' = [row EXCEPT ![r] = [status |-> "failed", attempts |-> MaxAttempts]]
          /\ tries[r] = run.attempt /\ acks[r] = 0 /\ ~ (run.attempt < MaxAttempts)
      BY <2>3, <1>2 DEF FailExhausted, FailDelivery, Write, IInv, InHand
    <3>2. tries[r] = MaxAttempts
      BY <1>3, <3>1, AttemptsAssumption
    <3> QED
      BY <3>1, <3>2 DEF IInv, TypeOK
  <2> QED
    BY <2>1, <2>2, <2>3
<1>5. \A q \in Rows \ {r} : row'[q] = row[q]
  BY <1>2 DEF MarkDeliverySent, FailForbidden, FailExhausted, FailDelivery, Write, IInv, TypeOK
<1>6. \A q \in Rows : Left(q)' => q = r \/ Left(q)
  BY <1>1, <1>2 DEF Left, Held
<1>7. LeftIsRecorded'
  <2> SUFFICES ASSUME NEW q \in Rows, Left(q)'
               PROVE  /\ row'[q].status = "sent" <=> acks'[q] = 1
                      /\ row'[q].status = "failed" <=> acks'[q] = 0
                      /\ row'[q].attempts = tries'[q]
    BY DEF LeftIsRecorded
  <2>1. CASE q = r
    BY <1>1, <1>4, <1>5, <2>1
  <2>2. CASE q # r
    BY <1>1, <1>5, <1>6, <2>2 DEF LeftIsRecorded
  <2> QED
    BY <2>1, <2>2
<1> QED
  BY <1>1, <1>7 DEF HandIsRecorded, Receiving

LEMMA StepRecords ==
  ASSUME IInv, LeftIsRecorded, HandIsRecorded, Faults = {}, QueueCap >= MaxRows, [Next]_vars
  PROVE  LeftIsRecorded' /\ HandIsRecorded'
<1>1. CASE CreateDelivery \/ \E r \in Rows : FlushEnqueue(r)
  BY <1>1, FlushRecords
<1>2. CASE Loop \/ Refill
  BY <1>2, ReceiveRecords, WorkRecords, SettleRecords DEF Loop
<1>3. CASE UNCHANGED vars
  BY <1>3 DEF vars, LeftIsRecorded, HandIsRecorded, Left, Held, Queued
<1>4. ~ (RetryAllFailed \/ Stop \/ Crash)
  BY DEF RetryAllFailed, Stop, Crash
<1> QED
  BY <1>1, <1>2, <1>3, <1>4 DEF Next

(* Without faults, and if the queue has room for every delivery, the row of *)
(* each delivery the loop is done with tells how it ended and after how     *)
(* many answers.                                                            *)
THEOREM LeftRowsAreRecorded ==
  ASSUME Faults = {}, QueueCap >= MaxRows
  PROVE  Spec => []LeftIsRecorded
<1>1. Init => LeftIsRecorded /\ HandIsRecorded
  BY BoundAssumption DEF Init, LeftIsRecorded, HandIsRecorded, Left, Receiving
<1>2. IInv /\ LeftIsRecorded /\ HandIsRecorded /\ [Next]_vars =>
        LeftIsRecorded' /\ HandIsRecorded'
  BY StepRecords
<1> QED
  BY <1>1, <1>2, Inductive, PTL DEF Spec

(* Then no row is left pending that nobody acts for.                        *)
THEOREM PendingRowsAreHeld ==
  ASSUME Faults = {}, QueueCap >= MaxRows
  PROVE  Spec => []PendingIsHeld
<1>1. IInv /\ LeftIsRecorded => PendingIsHeld
  <2> SUFFICES ASSUME IInv, LeftIsRecorded, NEW r \in Rows, row[r].status = "pending", ~ Held(r)
               PROVE  FALSE
    BY DEF PendingIsHeld
  <2>1. r =< created
    BY DEF IInv, TypeOK, NotCreated
  <2>2. acks[r] \in {0, 1}
    BY DEF IInv, TypeOK
  <2> QED
    BY <2>1, <2>2 DEF Left, LeftIsRecorded
<1> QED
  BY <1>1, LeftRowsAreRecorded, Inductive, PTL
=============================================================================
