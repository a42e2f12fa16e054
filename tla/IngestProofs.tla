---------------------------- MODULE IngestProofs ----------------------------
(* Proofs about Ingest for every set of events and handlers, every bound   *)
(* on posts and every set of faults.                                       *)
EXTENDS Ingest, TLAPS

Request == [pc : {"idle", "limit", "insert", "route", "add"},
            event : Events \cup {NoEvent}, live : BOOLEAN]

LEMMA InitIInv == Init => IInv
<1> SUFFICES ASSUME Init PROVE IInv
  OBVIOUS
<1>1. TypeOK
  BY DEF Init, TypeOK, Idle
<1>2. Accounted
  BY DEF Init, Accounted, Carrying, Elsewhere, In, Idle
<1>3. Busy /\ AnswersAreTrue /\ RowsOfKept
  BY DEF Init, Busy, AnswersAreTrue, RowsOfKept, Idle
<1> QED
  BY <1>1, <1>2, <1>3 DEF IInv

(* Where an event is, as arithmetic over small numbers.                    *)
LEMMA PlaceTypes ==
  ASSUME TypeOK, NEW e \in Events
  PROVE  /\ batch[e] \in Nat /\ kept[e] \in Nat /\ rows[e] \in Nat
         /\ In(e, unrouted) \in {0, 1} /\ In(e, lost) \in {0, 1}
         /\ Elsewhere(e) = batch[e] + kept[e] + In(e, unrouted) + In(e, lost)
BY DEF TypeOK, In, Elsewhere

(* What a handler in the middle of a stored event knows.                   *)
LEMMA CarrierKnows ==
  ASSUME IInv, NEW h \in Handlers, req[h].pc \in {"route", "add"}
  PROVE  /\ req[h].event \in Events \ Dropped
         /\ req[h].event \in stored
         /\ Carrying(req[h].event) = {h}
         /\ Elsewhere(req[h].event) = 0
<1>1. req[h].event \in Events \ Dropped
  BY DEF IInv, Busy
<1>2. h \in Carrying(req[h].event)
  BY DEF Carrying
<1> QED
  BY <1>1, <1>2 DEF IInv, Accounted, Carrying

-----------------------------------------------------------------------------
(* Steps that move no event: whoever carried it still does.                *)
LEMMA QuietAccounted ==
  ASSUME IInv,
         NEW h \in Handlers, NEW x \in Request, req' = [req EXCEPT ![h] = x],
         \/ x.pc \notin {"route", "add"} /\ req[h].pc \notin {"route", "add"}
         \/ x.event = req[h].event /\ x.pc \in {"route", "add"} /\ req[h].pc \in {"route", "add"},
         UNCHANGED <<stored, batch, kept, rows, unrouted, lost>>
  PROVE  Accounted'
<1>1. \A e \in Events : Carrying(e)' = Carrying(e)
  BY DEF Carrying, IInv, TypeOK, Request
<1>2. \A e \in Events : Elsewhere(e)' = Elsewhere(e)
  BY DEF Elsewhere, In
<1> QED
  BY <1>1, <1>2 DEF IInv, Accounted

LEMMA BusyAfter ==
  ASSUME IInv, NEW h \in Handlers, NEW x \in Request, req' = [req EXCEPT ![h] = x],
         x.pc # "idle" => x.event \in Events,
         x.pc \in {"insert", "route", "add"} => x.event \notin Dropped,
         x.live => x.pc # "idle"
  PROVE  Busy' /\ req' \in [Handlers -> Request]
BY DEF IInv, TypeOK, Busy, Request

(* A reply frees the handler and tells the truth, if its argument is true. *)
LEMMA ReplyTells ==
  ASSUME IInv, NEW h \in Handlers, req[h].pc # "idle",
         NEW a \in {"refused", "accepted", "duplicate"}, Reply(h, a),
         a # "refused" => req[h].event \in stored \/ req[h].event \in Dropped,
         UNCHANGED stored
  PROVE  /\ Idle \in Request /\ req' = [req EXCEPT ![h] = Idle]
         /\ Busy' /\ req' \in [Handlers -> Request]
         /\ answer' \in [Events -> {"none", "refused", "accepted", "duplicate"}]
         /\ \A e \in Events : answer'[e] \in {"accepted", "duplicate"} /\ e \notin Dropped
                                => e \in stored
<1>1. Idle \in Request /\ Idle.pc = "idle" /\ Idle.live = FALSE
  BY DEF Idle, Request
<1>2. req' = [req EXCEPT ![h] = Idle]
  BY DEF Reply
<1>3. Busy' /\ req' \in [Handlers -> Request]
  BY <1>1, <1>2, BusyAfter
<1>4. req[h].event \in Events
  BY DEF IInv, Busy
<1>5. answer' = answer \/ answer' = [answer EXCEPT ![req[h].event] = a]
  BY DEF Reply
<1>6. answer' \in [Events -> {"none", "refused", "accepted", "duplicate"}]
  BY <1>4, <1>5 DEF IInv, TypeOK
<1>7. \A e \in Events : answer'[e] \in {"accepted", "duplicate"} /\ e \notin Dropped
                          => e \in stored
  BY <1>4, <1>5 DEF IInv, TypeOK, AnswersAreTrue
<1> QED
  BY <1>1, <1>2, <1>3, <1>6, <1>7

LEMMA AnswerIInv ==
  ASSUME IInv, NEW h \in Handlers,
         RateLimited(h) \/ Drop(h) \/ Duplicate(h) \/ InsertFails(h)
  PROVE  IInv'
<1>1. /\ req[h].pc \in {"limit", "insert"}
      /\ UNCHANGED <<posts, stored, linked, batch, kept, rows, unrouted, lost>>
  BY DEF RateLimited, Drop, Duplicate, InsertFails
<1>2. PICK a \in {"refused", "accepted", "duplicate"} :
        /\ Reply(h, a)
        /\ a # "refused" => req[h].event \in stored \/ req[h].event \in Dropped
  BY DEF RateLimited, Drop, Duplicate, InsertFails, Fresh
<1>3. /\ Idle \in Request /\ req' = [req EXCEPT ![h] = Idle]
      /\ Busy' /\ req' \in [Handlers -> Request]
      /\ answer' \in [Events -> {"none", "refused", "accepted", "duplicate"}]
      /\ \A e \in Events : answer'[e] \in {"accepted", "duplicate"} /\ e \notin Dropped
                             => e \in stored
  BY <1>1, <1>2, ReplyTells
<1>4. TypeOK'
  BY <1>1, <1>3 DEF IInv, TypeOK, Request
<1>5. Accounted'
  BY <1>1, <1>3, QuietAccounted DEF Idle
<1>6. AnswersAreTrue'
  BY <1>1, <1>3 DEF IInv, AnswersAreTrue
<1> QED
  BY <1>1, <1>3, <1>4, <1>5, <1>6 DEF IInv, RowsOfKept

(* Steps of a handler that answer nothing and store nothing.               *)
LEMMA ProceedIInv ==
  ASSUME IInv, NEW h \in Handlers,
         (\E e \in Events : Post(h, e)) \/ Hangup(h) \/ Admit(h) \/ Route(h)
  PROVE  IInv'
<1>1. /\ UNCHANGED <<answer, stored, linked, batch, kept, rows, unrouted, lost>>
      /\ posts' \in [Events -> Nat]
  BY DEF Post, Hangup, Admit, Route, IInv, TypeOK
<1>2. PICK x \in Request :
        /\ req' = [req EXCEPT ![h] = x]
        /\ x.pc # "idle" => x.event \in Events
        /\ x.pc \in {"insert", "route", "add"} => x.event \notin Dropped
        /\ x.live => x.pc # "idle"
        /\ \/ x.pc \notin {"route", "add"} /\ req[h].pc \notin {"route", "add"}
           \/ x.event = req[h].event /\ x.pc \in {"route", "add"} /\ req[h].pc \in {"route", "add"}
  <2>1. CASE \E e \in Events : Post(h, e)
    <3>1. PICK e \in Events : Post(h, e)
      BY <2>1
    <3> DEFINE x == [pc |-> "limit", event |-> e, live |-> TRUE]
    <3>2. x \in Request /\ x.pc = "limit" /\ x.event = e
      BY DEF Request
    <3>3. req' = [req EXCEPT ![h] = x] /\ req[h].pc = "idle"
      BY <3>1 DEF Post
    <3> HIDE DEF x
    <3> QED
      BY <3>2, <3>3
  <2>2. CASE Hangup(h)
    <3> DEFINE x == [req[h] EXCEPT !.live = FALSE]
    <3>1. req[h] \in Request
      BY DEF IInv, TypeOK, Request
    <3>2. x \in Request /\ x.pc = req[h].pc /\ x.event = req[h].event /\ x.live = FALSE
      BY <3>1 DEF Request
    <3>3. req' = [req EXCEPT ![h] = x]
      BY <2>2 DEF Hangup
    <3>4. /\ x.pc # "idle" => x.event \in Events
          /\ x.pc \in {"insert", "route", "add"} => x.event \notin Dropped
      BY <3>2 DEF IInv, Busy
    <3> HIDE DEF x
    <3> QED
      BY <3>2, <3>3, <3>4
  <2>3. CASE Admit(h)
    <3> DEFINE x == [req[h] EXCEPT !.pc = "insert"]
    <3>1. req[h] \in Request
      BY DEF IInv, TypeOK, Request
    <3>2. x \in Request /\ x.pc = "insert" /\ x.event = req[h].event
      BY <3>1 DEF Request
    <3>3. req' = [req EXCEPT ![h] = x] /\ req[h].pc = "limit" /\ x.event \in Events \ Dropped
      BY <2>3, <3>2 DEF Admit, IInv, Busy
    <3> HIDE DEF x
    <3> QED
      BY <3>2, <3>3
  <2>4. CASE Route(h)
    <3> DEFINE x == [req[h] EXCEPT !.pc = "add"]
    <3>1. req[h] \in Request
      BY DEF IInv, TypeOK, Request
    <3>2. x \in Request /\ x.pc = "add" /\ x.event = req[h].event
      BY <3>1 DEF Request
    <3>3. req' = [req EXCEPT ![h] = x] /\ req[h].pc = "route" /\ x.event \in Events \ Dropped
      BY <2>4, <3>2 DEF Route, IInv, Busy
    <3> HIDE DEF x
    <3> QED
      BY <3>2, <3>3
  <2> QED
    BY <2>1, <2>2, <2>3, <2>4
<1>3. Busy' /\ req' \in [Handlers -> Request]
  BY <1>2, BusyAfter
<1>4. TypeOK'
  BY <1>1, <1>3 DEF IInv, TypeOK, Request
<1>5. Accounted'
  BY <1>1, <1>2, QuietAccounted
<1>6. AnswersAreTrue'
  BY <1>1 DEF IInv, AnswersAreTrue
<1> QED
  BY <1>1, <1>3, <1>4, <1>5, <1>6 DEF IInv, RowsOfKept

-----------------------------------------------------------------------------
(* Steps that move one event: it enters with InsertEvent and leaves its    *)
(* handler with RouteNone or Add.                                          *)
LEMMA InsertIInv ==
  ASSUME IInv, NEW h \in Handlers, InsertEvent(h)
  PROVE  IInv'
<1> DEFINE x == [req[h] EXCEPT !.pc = "route"]
           e == req[h].event
<1>1. /\ UNCHANGED <<posts, answer, linked, batch, kept, rows, unrouted, lost>>
      /\ req[h].pc = "insert" /\ e \notin stored
      /\ stored' = stored \cup {e}
      /\ req' = [req EXCEPT ![h] = x]
  BY DEF InsertEvent, Fresh
<1>2. e \in Events \ Dropped
  BY <1>1 DEF IInv, Busy
<1>3. x \in Request /\ x.pc = "route" /\ x.event = e
  BY DEF IInv, TypeOK, Request
<1>4. Busy' /\ req' \in [Handlers -> Request]
  <2>1. x.live => x.pc # "idle"
    BY <1>3
  <2> HIDE DEF x
  <2> QED
    BY <1>1, <1>2, <1>3, <2>1, BusyAfter
<1>5. TypeOK'
  BY <1>1, <1>2, <1>4 DEF IInv, TypeOK, Request
<1>6. AnswersAreTrue'
  BY <1>1, <1>2 DEF IInv, AnswersAreTrue
<1>7. Accounted'
  <2>1. Carrying(e) = {}
    BY <1>1, <1>2 DEF IInv, Accounted
  <2>2. Carrying(e)' = {h}
    BY <1>1, <1>3, <2>1 DEF Carrying, IInv, TypeOK
  <2>3. \A d \in Events \ {e} : Carrying(d)' = Carrying(d)
    BY <1>1, <1>3 DEF Carrying, IInv, TypeOK
  <2>4. \A d \in Events : Elsewhere(d)' = Elsewhere(d)
    BY <1>1 DEF Elsewhere, In
  <2> QED
    BY <1>1, <1>2, <2>1, <2>2, <2>3, <2>4 DEF IInv, Accounted
<1> QED
  BY <1>1, <1>4, <1>5, <1>6, <1>7 DEF IInv, RowsOfKept

(* A handler that lets go of its event: the event is then elsewhere.       *)
LEMMA LetGo ==
  ASSUME IInv, NEW h \in Handlers, req[h].pc \in {"route", "add"},
         NEW CONSTANT e \in Events, e = req[h].event,
         req' = [req EXCEPT ![h] = Idle], UNCHANGED stored,
         Elsewhere(e)' = 1,
         \A d \in Events \ {e} : Elsewhere(d)' = Elsewhere(d)
  PROVE  Accounted'
<1>1. Carrying(e) = {h} /\ e \in stored
  BY CarrierKnows
<1>2. Carrying(e)' = {}
  BY <1>1 DEF Carrying, IInv, TypeOK, Idle
<1>3. \A d \in Events \ {e} : Carrying(d)' = Carrying(d)
  BY DEF Carrying, IInv, TypeOK, Idle
<1> QED
  BY <1>1, <1>2, <1>3 DEF IInv, Accounted

LEMMA AnsweredIInv ==
  ASSUME IInv, NEW h \in Handlers, RouteNone(h) \/ Add(h)
  PROVE  IInv'
<1>1. /\ req[h].pc \in {"route", "add"}
      /\ Reply(h, "accepted")
      /\ UNCHANGED <<posts, stored, linked, kept, rows, lost>>
  BY DEF RouteNone, Add
<1>2. PICK e \in Events : e = req[h].event
  BY <1>1, CarrierKnows
<1>3. e \in stored /\ Elsewhere(e) = 0
  BY <1>1, <1>2, CarrierKnows
<1>4. /\ Idle \in Request /\ req' = [req EXCEPT ![h] = Idle]
      /\ Busy' /\ req' \in [Handlers -> Request]
      /\ answer' \in [Events -> {"none", "refused", "accepted", "duplicate"}]
      /\ \A d \in Events : answer'[d] \in {"accepted", "duplicate"} /\ d \notin Dropped
                             => d \in stored
  BY <1>1, <1>2, <1>3, ReplyTells
<1>5. \/ unrouted' = unrouted \cup {e} /\ batch' = batch
      \/ unrouted' = unrouted /\ batch' = [batch EXCEPT ![e] = @ + 1]
  BY <1>2 DEF RouteNone, Counted, Add
<1>6. TypeOK'
  BY <1>1, <1>4, <1>5 DEF IInv, TypeOK, Request
<1>7. AnswersAreTrue'
  BY <1>1, <1>4 DEF IInv, AnswersAreTrue
<1>8. Elsewhere(e)' = 1
  <2>1. batch[e] = 0 /\ kept[e] = 0 /\ e \notin unrouted /\ e \notin lost
    BY <1>3, PlaceTypes DEF IInv, In
  <2> QED
    BY <1>1, <1>5, <2>1 DEF Elsewhere, In, IInv, TypeOK
<1>9. \A d \in Events \ {e} : Elsewhere(d)' = Elsewhere(d)
  BY <1>1, <1>5 DEF Elsewhere, In, IInv, TypeOK
<1>10. Accounted'
  BY <1>1, <1>2, <1>4, <1>8, <1>9, LetGo DEF Elsewhere
<1> QED
  BY <1>1, <1>4, <1>6, <1>7, <1>10 DEF IInv, RowsOfKept

-----------------------------------------------------------------------------
(* An event in the batch is stored and nowhere else.                       *)
LEMMA BatchedIsElsewhere ==
  ASSUME IInv, NEW e \in Events, e \in Batched
  PROVE  /\ e \in stored /\ e \notin Dropped /\ Carrying(e) = {}
         /\ batch[e] = 1 /\ kept[e] = 0 /\ rows[e] = 0 /\ e \notin unrouted /\ e \notin lost
<1>1. batch[e] \in Nat /\ batch[e] > 0
  BY PlaceTypes DEF IInv, Batched
<1>2. Elsewhere(e) > 0
  BY <1>1, PlaceTypes DEF IInv
<1>3. e \in stored /\ Carrying(e) = {} /\ Elsewhere(e) = 1
  BY <1>2 DEF IInv, Accounted
<1>4. batch[e] = 1 /\ kept[e] = 0 /\ In(e, unrouted) = 0 /\ In(e, lost) = 0
  BY <1>1, <1>3, PlaceTypes DEF IInv
<1>5. rows[e] = 0
  BY <1>4, PlaceTypes DEF IInv, RowsOfKept
<1> QED
  BY <1>3, <1>4, <1>5 DEF IInv, AnswersAreTrue, In

LEMMA NotBatched ==
  ASSUME IInv, NEW e \in Events, e \notin Batched
  PROVE  batch[e] = 0
BY DEF IInv, TypeOK, Batched

LEMMA FlushIInv == IInv /\ Flush => IInv'
<1> SUFFICES ASSUME IInv, Flush PROVE IInv'
  OBVIOUS
<1>1. /\ batch' = NoBatch
      /\ UNCHANGED <<posts, answer, stored, linked, req, unrouted>>
  BY DEF Flush, BatchAfter
<1>2. \/ /\ \E n \in {1, 2} : rows' = [e \in Events |-> rows[e] + n * batch[e]]
         /\ kept' = [e \in Events |-> kept[e] + batch[e]] /\ lost' = lost
      \/ rows' = rows /\ kept' = kept /\ lost' = lost \cup Batched
  BY DEF Flush
<1>a. ASSUME NEW e \in Events
      PROVE  /\ kept'[e] \in Nat /\ rows'[e] \in Nat
             /\ kept'[e] =< rows'[e] /\ rows'[e] =< 2 * kept'[e]
             /\ batch[e] = 0 => rows'[e] = rows[e]
  <2>1. /\ batch[e] \in Nat /\ kept[e] \in Nat /\ rows[e] \in Nat
        /\ kept[e] =< rows[e] /\ rows[e] =< 2 * kept[e]
    BY PlaceTypes DEF IInv, RowsOfKept
  <2>2. \/ kept'[e] = kept[e] /\ rows'[e] = rows[e]
        \/ kept'[e] = kept[e] + batch[e] /\ rows'[e] = rows[e] + batch[e]
        \/ kept'[e] = kept[e] + batch[e] /\ rows'[e] = rows[e] + 2 * batch[e]
    BY <1>2, <2>1
  <2> QED
    BY <2>1, <2>2
<1>b. kept' \in [Events -> Nat] /\ rows' \in [Events -> Nat]
  <2>1. /\ kept' = [e \in Events |-> kept'[e]]
        /\ rows' = [e \in Events |-> rows'[e]]
    BY <1>2 DEF IInv, TypeOK
  <2>2. \A e \in Events : kept'[e] \in Nat /\ rows'[e] \in Nat
    BY <1>a
  <2> QED
    BY <2>1, <2>2
<1>3. TypeOK'
  BY <1>1, <1>2, <1>b DEF IInv, TypeOK, NoBatch, Batched
<1>4. AnswersAreTrue'
  <2>1. \A e \in Dropped : e \in Events /\ rows'[e] = 0
    BY <1>a, BatchedIsElsewhere, NotBatched, DroppedAssumption DEF IInv, AnswersAreTrue
  <2> QED
    BY <1>1, <2>1 DEF IInv, AnswersAreTrue
<1>5. Accounted'
  <2>1. \A e \in Events : Carrying(e)' = Carrying(e)
    BY <1>1 DEF Carrying
  <2>2. ASSUME NEW e \in Events PROVE Elsewhere(e)' = Elsewhere(e)
    <3>1. batch'[e] = 0 /\ unrouted' = unrouted
      BY <1>1 DEF NoBatch
    <3>2. CASE e \in Batched
      BY <1>2, <3>1, <3>2, BatchedIsElsewhere DEF Elsewhere, In
    <3>3. CASE e \notin Batched
      <4>1. batch[e] = 0 /\ kept'[e] = kept[e] /\ (e \in lost' <=> e \in lost)
        BY <1>2, <3>3, NotBatched DEF IInv, TypeOK
      <4> QED
        BY <3>1, <4>1 DEF Elsewhere, In
    <3> QED
      BY <3>2, <3>3
  <2> QED
    BY <1>1, <2>1, <2>2 DEF IInv, Accounted
<1> QED
  BY <1>1, <1>3, <1>4, <1>5, <1>a DEF IInv, Busy, RowsOfKept

LEMMA CrashIInv == IInv /\ Crash => IInv'
<1> SUFFICES ASSUME IInv, Crash PROVE IInv'
  OBVIOUS
<1> DEFINE Carried == {e \in Events : Carrying(e) # {}}
<1>1. /\ req' = [h \in Handlers |-> Idle]
      /\ batch' = NoBatch
      /\ lost' = lost \cup Batched \cup Carried
      /\ UNCHANGED <<posts, answer, stored, linked, kept, rows, unrouted>>
  BY DEF Crash
<1>2. TypeOK'
  BY <1>1 DEF IInv, TypeOK, NoBatch, Batched, Idle
<1>3. Busy' /\ AnswersAreTrue' /\ RowsOfKept'
  BY <1>1 DEF IInv, Busy, AnswersAreTrue, RowsOfKept, Idle
<1>4. Accounted'
  <2>1. \A e \in Events : Carrying(e)' = {}
    BY <1>1 DEF Carrying, Idle
  <2>2. ASSUME NEW e \in Events
        PROVE  Elsewhere(e)' = IF e \in stored THEN 1 ELSE 0
    <3>1. batch'[e] = 0 /\ kept'[e] = kept[e] /\ unrouted' = unrouted
      BY <1>1 DEF NoBatch
    <3>2. CASE e \in Batched
      BY <1>1, <3>1, <3>2, BatchedIsElsewhere DEF Elsewhere, In
    <3>3. CASE e \in Carried
      <4>1. e \in stored /\ Elsewhere(e) = 0
        BY <3>3 DEF IInv, Accounted
      <4>2. kept[e] = 0 /\ e \notin unrouted
        BY <4>1, PlaceTypes DEF IInv, In
      <4> QED
        BY <1>1, <3>1, <3>3, <4>1, <4>2 DEF Elsewhere, In
    <3>4. CASE e \notin Batched /\ e \notin Carried
      <4>1. batch[e] = 0 /\ Carrying(e) = {}
        BY <3>4, NotBatched
      <4>2. Elsewhere(e) = IF e \in stored THEN 1 ELSE 0
        BY <4>1 DEF IInv, Accounted
      <4>3. e \in lost' <=> e \in lost
        BY <1>1, <3>4
      <4> QED
        BY <3>1, <4>1, <4>2, <4>3 DEF Elsewhere, In
    <3> QED
      BY <3>2, <3>3, <3>4
  <2> QED
    BY <1>1, <2>1, <2>2 DEF Accounted
<1> QED
  BY <1>2, <1>3, <1>4 DEF IInv

LEMMA StepIInv == IInv /\ [Next]_vars => IInv'
<1> SUFFICES ASSUME IInv, [Next]_vars PROVE IInv'
  OBVIOUS
<1>1. ASSUME UNCHANGED <<posts, answer, stored, req, batch, kept, rows, unrouted, lost>>,
             linked' \in BOOLEAN
      PROVE  IInv'
  BY <1>1 DEF IInv, TypeOK, Accounted, Busy, AnswersAreTrue, RowsOfKept, Carrying, Elsewhere, In
<1>2. CASE UNCHANGED vars \/ Relink
  BY <1>1, <1>2 DEF vars, Relink, IInv, TypeOK
<1>3. CASE Next
  BY <1>2, <1>3, AnswerIInv, ProceedIInv, InsertIInv, AnsweredIInv, FlushIInv, CrashIInv
  DEF Next, Handle
<1> QED
  BY <1>2, <1>3

-----------------------------------------------------------------------------
(* IInv is inductive, so it holds in every reachable state.                *)
THEOREM Inductive == Spec => []IInv
BY InitIInv, StepIInv, PTL DEF Spec

(* A stored event is in one place, whatever fails and however the service  *)
(* posts it: carried, batched, in the rows of one batch, counted as        *)
(* unrouted, or lost in a crash or by a failed write.                      *)
THEOREM EventsAreAccounted == Spec => []Accounted
<1>1. IInv => Accounted
  BY DEF IInv
<1> QED
  BY <1>1, Inductive, PTL

(* All delivery rows of an event are of one batch, and at most two.        *)
THEOREM RowsAreOfOneBatch == Spec => []DeliveredOnce
<1>1. ASSUME IInv PROVE DeliveredOnce
  <2> SUFFICES ASSUME NEW e \in Events PROVE kept[e] =< 1 /\ rows[e] =< 2 * kept[e]
    BY DEF DeliveredOnce
  <2>1. Elsewhere(e) =< 1
    BY <1>1 DEF IInv, Accounted
  <2>2. kept[e] =< 1
    BY <1>1, <2>1, PlaceTypes DEF IInv
  <2> QED
    BY <1>1, <2>2 DEF IInv, RowsOfKept
<1> QED
  BY <1>1, Inductive, PTL

(* The service is told the truth about what is stored.                     *)
THEOREM AnswersTellTruth == Spec => []AnswersAreTrue
<1>1. IInv => AnswersAreTrue
  BY DEF IInv
<1> QED
  BY <1>1, Inductive, PTL
=============================================================================
