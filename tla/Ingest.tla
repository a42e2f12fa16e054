-------------------------------- MODULE Ingest --------------------------------
(***************************************************************************)
(* One event from POST /v1/events (internal/ingest/ingest.go,              *)
(* store/events.go) to its delivery row, seen from the service that posts  *)
(* it: concurrent posts of the same event_id, a client that hangs up and   *)
(* tries again, a process that dies. All events are of one service, user   *)
(* and type, so the coalescer (see Coalescer) holds one batch of them; the *)
(* rate limiter (see Limiter) answers either way; topics are in            *)
(* Destination, and what becomes of a delivery row in Transport.           *)
(***************************************************************************)
EXTENDS Integers, FiniteSets

CONSTANTS Events,    \* event_ids
          Dropped,   \* those whose type the catalog drops
          Handlers,  \* HTTP handler goroutines
          Patience,  \* bound: posts of each event
          Faults     \* what may happen, a subset of FaultKinds

FaultKinds == {"hangup",  \* the client closes the connection: r.Context() ends
               "crash",   \* the process dies, or stops at its shutdown timeout
               "write",   \* a write fails
               "read",    \* the query of ResolveRoutes fails
               "unlink"}  \* the user_ref is unlinked or muted, then linked again

ASSUME DroppedAssumption == Dropped \subseteq Events
ASSUME PatienceAssumption == Patience \in [Events -> Nat]
ASSUME IngestFaultsAssumption == Faults \subseteq FaultKinds

NoEvent == "no event"
ASSUME NoEventAssumption == NoEvent \notin Events

VARIABLES posts,     \* how often the service posted each event
          answer,    \* the last answer it got for each event
          stored,    \* the events table
          linked,    \* the user_ref has a user who wants the type
          req,       \* what each handler is doing, and whether its client waits
          batch,     \* how often each event is in the coalescer's batch
          kept,      \* in how many batches that became rows each event is
          rows,      \* in how many delivery rows it is
          unrouted,  \* events counted in events_unrouted_total
          lost       \* stored events that a crash or a failed write lost

vars == <<posts, answer, stored, linked, req, batch, kept, rows, unrouted, lost>>

Idle == [pc |-> "idle", event |-> NoEvent, live |-> FALSE]

Init ==
  /\ posts = [e \in Events |-> 0]
  /\ answer = [e \in Events |-> "none"]
  /\ stored = {}
  /\ linked \in BOOLEAN
  /\ req = [h \in Handlers |-> Idle]
  /\ batch = [e \in Events |-> 0]
  /\ kept = [e \in Events |-> 0]
  /\ rows = [e \in Events |-> 0]
  /\ unrouted = {}
  /\ lost = {}

-----------------------------------------------------------------------------
(* The service posts until it is told that the event is accepted or known. *)
Post(h, e) ==
  /\ req[h].pc = "idle"
  /\ answer[e] \notin {"accepted", "duplicate"}
  /\ posts[e] < Patience[e]
  /\ posts' = [posts EXCEPT ![e] = @ + 1]
  /\ req' = [req EXCEPT ![h] = [pc |-> "limit", event |-> e, live |-> TRUE]]
  /\ UNCHANGED <<answer, stored, linked, batch, kept, rows, unrouted, lost>>

Hangup(h) ==
  /\ "hangup" \in Faults
  /\ req[h].live
  /\ req' = [req EXCEPT ![h].live = FALSE]
  /\ UNCHANGED <<posts, answer, stored, linked, batch, kept, rows, unrouted, lost>>

(* The handler is done; its client reads the answer if it is still there.  *)
Reply(h, a) ==
  /\ req' = [req EXCEPT ![h] = Idle]
  /\ answer' = IF req[h].live THEN [answer EXCEPT ![req[h].event] = a] ELSE answer

-----------------------------------------------------------------------------
(* handleEvents, after authentication and validation.                      *)

(* AllowForService refuses: 429. *)
RateLimited(h) ==
  /\ req[h].pc = "limit"
  /\ Reply(h, "refused")
  /\ UNCHANGED <<posts, stored, linked, batch, kept, rows, unrouted, lost>>

(* The drop rule: accepted, and forgotten. *)
Drop(h) ==
  /\ req[h].pc = "limit"
  /\ req[h].event \in Dropped
  /\ Reply(h, "accepted")
  /\ UNCHANGED <<posts, stored, linked, batch, kept, rows, unrouted, lost>>

Admit(h) ==
  /\ req[h].pc = "limit"
  /\ req[h].event \notin Dropped
  /\ req' = [req EXCEPT ![h].pc = "insert"]
  /\ UNCHANGED <<posts, answer, stored, linked, batch, kept, rows, unrouted, lost>>

(* Mutant: the UNIQUE constraint is not there. *)
FreshAlways(e) == TRUE

(* UNIQUE (event_id): SQLite lets one of several inserts pass. *)
Fresh(e) == e \notin stored

InsertEvent(h) ==
  /\ req[h].pc = "insert"
  /\ Fresh(req[h].event)
  /\ stored' = stored \cup {req[h].event}
  /\ req' = [req EXCEPT ![h].pc = "route"]
  /\ UNCHANGED <<posts, answer, linked, batch, kept, rows, unrouted, lost>>

(* ErrDuplicateEvent: 409. *)
Duplicate(h) ==
  /\ req[h].pc = "insert"
  /\ ~ Fresh(req[h].event)
  /\ Reply(h, "duplicate")
  /\ UNCHANGED <<posts, stored, linked, batch, kept, rows, unrouted, lost>>

(* Mutant: the error is ignored, as the one of ResolveRoutes is. *)
InsertFailsUnseen(h) ==
  /\ req[h].pc = "insert"
  /\ "write" \in Faults \/ ~ req[h].live
  /\ req' = [req EXCEPT ![h].pc = "route"]
  /\ UNCHANGED <<posts, answer, stored, linked, batch, kept, rows, unrouted, lost>>

(* Any other error, such as a context that has ended: 500. *)
InsertFails(h) ==
  /\ req[h].pc = "insert"
  /\ "write" \in Faults \/ ~ req[h].live
  /\ Reply(h, "refused")
  /\ UNCHANGED <<posts, stored, linked, batch, kept, rows, unrouted, lost>>

(* Mutant: an event without a route is forgotten. *)
CountedNot(e) == unrouted

(* eventsUnrouted. *)
Counted(e) == unrouted \cup {e}

(* ResolveRoutes finds the user. *)
Route(h) ==
  /\ req[h].pc = "route"
  /\ linked /\ req[h].live
  /\ req' = [req EXCEPT ![h].pc = "add"]
  /\ UNCHANGED <<posts, answer, stored, linked, batch, kept, rows, unrouted, lost>>

(* No user, or the query fails, which the handler does not look at and     *)
(* counts in the same way: the query of a request whose client is gone     *)
(* fails, and any other may.                                               *)
RouteNone(h) ==
  /\ req[h].pc = "route"
  /\ ~ linked \/ ~ req[h].live \/ "read" \in Faults
  /\ unrouted' = Counted(req[h].event)
  /\ Reply(h, "accepted")
  /\ UNCHANGED <<posts, stored, linked, batch, kept, rows, lost>>

(* Coalescer.Add, and the answer. *)
Add(h) ==
  /\ req[h].pc = "add"
  /\ batch' = [batch EXCEPT ![req[h].event] = @ + 1]
  /\ Reply(h, "accepted")
  /\ UNCHANGED <<posts, stored, linked, kept, rows, unrouted, lost>>

-----------------------------------------------------------------------------
(* Handlers between the INSERT and Add. *)
Carrying(e) == {h \in Handlers : req[h].event = e /\ req[h].pc \in {"route", "add"}}

Batched == {e \in Events : batch[e] > 0}
NoBatch == [e \in Events |-> 0]

BatchAfter == NoBatch

(* The window ends, or the batch is full, or both: then it is flushed      *)
(* twice (see Coalescer, which has the steps; here they are one, of a      *)
(* batch of any size). Each Flush makes a row of it, if it can.            *)
Flush ==
  /\ Batched # {}
  /\ batch' = BatchAfter
  /\ \/ \E n \in {1, 2} :
          /\ rows' = [e \in Events |-> rows[e] + n * batch[e]]
          /\ kept' = [e \in Events |-> kept[e] + batch[e]]
          /\ UNCHANGED lost
     \/ /\ "write" \in Faults
        /\ lost' = lost \cup Batched
        /\ UNCHANGED <<kept, rows>>
  /\ UNCHANGED <<posts, answer, stored, linked, req, unrouted>>

(* Handlers and batches are gone, and nothing at start looks at the events *)
(* table. main does not flush the coalescer when it is told to stop.       *)
Crash ==
  /\ "crash" \in Faults
  /\ req' = [h \in Handlers |-> Idle]
  /\ batch' = NoBatch
  /\ lost' = lost \cup Batched \cup {e \in Events : Carrying(e) # {}}
  /\ UNCHANGED <<posts, answer, stored, linked, kept, rows, unrouted>>

Relink ==
  /\ "unlink" \in Faults
  /\ linked' = ~ linked
  /\ UNCHANGED <<posts, answer, stored, req, batch, kept, rows, unrouted, lost>>

-----------------------------------------------------------------------------
Handle(h) == RateLimited(h) \/ Drop(h) \/ Admit(h) \/ InsertEvent(h) \/ Duplicate(h)
             \/ InsertFails(h) \/ Route(h) \/ RouteNone(h) \/ Add(h)

Next == \/ \E h \in Handlers, e \in Events : Post(h, e)
        \/ \E h \in Handlers : Hangup(h) \/ Handle(h)
        \/ Flush
        \/ Crash
        \/ Relink

Spec == Init /\ [][Next]_vars

(* Goroutines are scheduled and windows end. *)
Fairness == WF_vars(Flush) /\ \A h \in Handlers : WF_vars(Handle(h))

FairSpec == Spec /\ Fairness
-----------------------------------------------------------------------------
(* Every variable has its type. *)
TypeOK ==
  /\ posts \in [Events -> Nat]
  /\ answer \in [Events -> {"none", "refused", "accepted", "duplicate"}]
  /\ stored \in SUBSET Events
  /\ linked \in BOOLEAN
  /\ req \in [Handlers -> [pc : {"idle", "limit", "insert", "route", "add"},
                          event : Events \cup {NoEvent}, live : BOOLEAN]]
  /\ batch \in [Events -> Nat]
  /\ kept \in [Events -> Nat]
  /\ rows \in [Events -> Nat]
  /\ unrouted \in SUBSET Events
  /\ lost \in SUBSET Events

(* IDP-1: however often and however concurrently an event is posted, and   *)
(* whatever fails, all its delivery rows come of one batch, and there are  *)
(* at most two: the second when the cap and the timer both flush it.       *)
DeliveredOnce == \A e \in Events : kept[e] =< 1 /\ rows[e] =< 2 * kept[e]

(* Whatever the service was told is accepted, or known, is in the table,   *)
(* unless the catalog drops it; and what the catalog drops never is.       *)
AnswersAreTrue ==
  \A e \in Events :
    /\ answer[e] \in {"accepted", "duplicate"} /\ e \notin Dropped => e \in stored
    /\ e \in Dropped => e \notin stored /\ rows[e] = 0

(* How often an event is in the batch, in batches with a row, and counted  *)
(* or lost.                                                                *)
In(e, S) == IF e \in S THEN 1 ELSE 0
Elsewhere(e) == batch[e] + kept[e] + In(e, unrouted) + In(e, lost)

(* An event is in one place from the moment it is stored: with one handler *)
(* or in the batch or in rows of one batch, counted as unrouted, or lost   *)
(* in a crash or by a failed write. Unrouted is every event whose query    *)
(* gave no user: also that of a linked user, when its client hung up       *)
(* before the routing or the query failed.                                 *)
Accounted ==
  \A e \in Events :
    /\ \A g, h \in Carrying(e) : g = h
    /\ Elsewhere(e) = IF e \in stored /\ Carrying(e) = {} THEN 1 ELSE 0
    /\ Carrying(e) # {} => e \in stored

(* What is stored gets a row, or is counted as unrouted (rightly or not),  *)
(* in the end, unless a crash or a failed write loses it.                  *)
StoredIsSettled ==
  \A e \in Events : (e \in stored) ~> (rows[e] > 0 \/ e \in unrouted \/ e \in lost)

(* SPEC 17, "bot restart mid-coalesce (in-memory windows lost -> at worst  *)
(* one extra message; events are durable in events": none is lost.         *)
Durable == lost = {}

(* events_unrouted_total: "Accepted, no linked users."                     *)
UnroutedIsUnlinked ==
  [][\A e \in Events : e \in unrouted' \ unrouted => ~ linked]_vars

-----------------------------------------------------------------------------
(* The inductive invariant. *)
Busy == \A h \in Handlers :
          /\ req[h].pc # "idle" => req[h].event \in Events
          /\ req[h].pc \in {"insert", "route", "add"} => req[h].event \notin Dropped
          /\ req[h].live => req[h].pc # "idle"

(* A batch with a row has one or two. *)
RowsOfKept == \A e \in Events : kept[e] =< rows[e] /\ rows[e] =< 2 * kept[e]

IInv == TypeOK /\ Accounted /\ Busy /\ AnswersAreTrue /\ RowsOfKept
=============================================================================
