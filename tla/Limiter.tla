------------------------------- MODULE Limiter -------------------------------
(***************************************************************************)
(* The ingest rate limiter of one service (internal/limit/limit.go): two   *)
(* sliding windows, each a ring of the times it recorded.                  *)
(*                                                                         *)
(* The registry's mutex guards the map of limiters and is released before  *)
(* Allow, so handlers of one service are inside allow at the same time:    *)
(* each is split where it touches the ring. Torn reads of a time are left  *)
(* out. Time is a counter; a handler reads it before it calls the limiter. *)
(*                                                                         *)
(* The limiter has no guarantee while two handlers are inside (PassesFit). *)
(* The observers note who met another there; what a window lets through is *)
(* logged from the last such handler on.                                   *)
(***************************************************************************)
EXTENDS Integers, Sequences, FiniteSets

CONSTANTS Size,      \* duration of each window
          Cap,       \* and its cap
          Requests,  \* HTTP handler goroutines of the service
          MaxTime    \* bound: the clock

Windows == {"burst", "rate"}   \* 1s with cap 30, 60s with cap 100

ASSUME SizeAssumption == Size \in [Windows -> Nat]
ASSUME CapsAssumption == Cap \in [Windows -> Nat \ {0}]
ASSUME TimeAssumption == MaxTime \in Nat

Times == 0..MaxTime
ZeroTime == -1   \* time.Time{}
Slots(w) == 0..(Cap[w] - 1)

VARIABLES now,    \* the clock
          times,  \* w.times
          cur,    \* w.cur
          req,    \* where each handler is: in which window, since when
          met,    \* observer: handlers that were inside together with another
          raced,  \* observer: windows in which such a handler ever recorded
          log     \* observer: the times each window let through since it did

vars == <<now, times, cur, req, met, raced, log>>

Outside == [pc |-> "outside", w |-> "burst", at |-> 0]

Init ==
  /\ now = 0
  /\ times = [w \in Windows |-> [i \in Slots(w) |-> ZeroTime]]
  /\ cur = [w \in Windows |-> 0]
  /\ req = [q \in Requests |-> Outside]
  /\ met = {} /\ raced = {}
  /\ log = [w \in Windows |-> <<>>]

Inside == {q \in Requests : req[q].pc # "outside"}

-----------------------------------------------------------------------------
Tick ==
  /\ now < MaxTime
  /\ now' = now + 1
  /\ UNCHANGED <<times, cur, req, met, raced, log>>

(* handleEvents calls AllowForService(svc, h.now()). *)
Arrive(q) ==
  /\ req[q].pc = "outside"
  /\ req' = [req EXCEPT ![q] = [pc |-> "judge", w |-> "burst", at |-> now]]
  /\ met' = IF Inside = {} THEN met ELSE met \cup Inside \cup {q}
  /\ UNCHANGED <<now, times, cur, raced, log>>

(* Mutant: times are compared with After, so the oldest may count no more. *)
RecentAfter(w, at) ==
  {i \in Slots(w) : times[w][i] # ZeroTime /\ times[w][i] > at - Size[w]}

(* The recorded times that still count at the moment at. *)
Recent(w, at) ==
  {i \in Slots(w) : times[w][i] # ZeroTime /\ times[w][i] >= at - Size[w]}

(* Mutant: the cap is refused only when it is exceeded. *)
FullLate(w, at) == Cardinality(Recent(w, at)) > Cap[w]

Full(w, at) == Cardinality(Recent(w, at)) >= Cap[w]

(* allow returns false. What burst recorded stays when rate refuses. *)
Refuse(q) ==
  /\ req[q].pc = "judge"
  /\ Full(req[q].w, req[q].at)
  /\ req' = [req EXCEPT ![q] = Outside]
  /\ met' = met \ {q}
  /\ UNCHANGED <<now, times, cur, raced, log>>

Fits(q) ==
  /\ req[q].pc = "judge"
  /\ ~ Full(req[q].w, req[q].at)
  /\ req' = [req EXCEPT ![q].pc = "store"]
  /\ UNCHANGED <<now, times, cur, met, raced, log>>

(* w.times[w.cur] = now *)
Store(q) ==
  LET w == req[q].w
  IN /\ req[q].pc = "store"
     /\ times' = [times EXCEPT ![w] = [@ EXCEPT ![cur[w]] = req[q].at]]
     /\ log' = [log EXCEPT ![w] = IF q \in met THEN <<>> ELSE Append(@, req[q].at)]
     /\ raced' = IF q \in met THEN raced \cup {w} ELSE raced
     /\ req' = [req EXCEPT ![q].pc = "advance"]
     /\ UNCHANGED <<now, cur, met>>

NextSlot(w) == (cur[w] + 1) % Cap[w]

(* w.cur = (w.cur + 1) % w.cap; then the next window, or the answer. *)
Advance(q) ==
  LET w == req[q].w
  IN /\ req[q].pc = "advance"
     /\ cur' = [cur EXCEPT ![w] = NextSlot(w)]
     /\ req' = [req EXCEPT ![q] = IF w = "burst" THEN [@ EXCEPT !.pc = "judge", !.w = "rate"]
                                                 ELSE Outside]
     /\ log' = [log EXCEPT ![w] = IF q \in met THEN <<>> ELSE @]
     /\ raced' = IF q \in met THEN raced \cup {w} ELSE raced
     /\ met' = IF w = "burst" THEN met ELSE met \ {q}
     /\ UNCHANGED <<now, times>>

Allow(q) == Arrive(q) \/ Refuse(q) \/ Fits(q) \/ Store(q) \/ Advance(q)

Next == Tick \/ \E q \in Requests : Allow(q)

Spec == Init /\ [][Next]_vars
-----------------------------------------------------------------------------
(* Every variable has its type. *)
TypeOK ==
  /\ now \in Times
  /\ times = [w \in Windows |-> times[w]]
  /\ \A w \in Windows : times[w] \in [Slots(w) -> Times \cup {ZeroTime}]
  /\ cur \in [Windows -> Nat]
  /\ \A w \in Windows : cur[w] \in Slots(w)
  /\ req \in [Requests -> [pc : {"outside", "judge", "store", "advance"},
                           w : Windows, at : Times]]
  /\ met \subseteq Requests /\ raced \subseteq Windows
  /\ log \in [Windows -> Seq(Times)]

(* RATE-1, as far as it holds: among requests let through one after another*)
(* no window lets more than its cap through in any stretch of its size: the*)
(* request Cap places later came later than that. Whatever overlapping     *)
(* requests made of the ring and its cursor before does not matter.        *)
WithinCaps ==
  \A w \in Windows : \A i \in 1..(Len(log[w]) - Cap[w]) :
    log[w][i + Cap[w]] - log[w][i] > Size[w]

(* The requests that w let through in the last Size. *)
InWindow(w) == {i \in DOMAIN log[w] : log[w][i] >= now - Size[w]}

(* The d newest entries of the ring are requests that came one after       *)
(* another, or it has had no others.                                       *)
Known(w, d) == d =< Len(log[w]) \/ w \notin raced

(* The ring forgets nothing that counts and keeps nothing that does not:   *)
(* a request is refused exactly when cap requests were let through in the  *)
(* window that ends now, and so it is let through again as soon as the     *)
(* window has slid. It is so from the start until requests overlap, and    *)
(* again once cap requests were let through one after another.             *)
RingIsExact ==
  \A w \in Windows : Known(w, Cap[w]) => (Full(w, now) <=> Cardinality(InWindow(w)) >= Cap[w])

(* Not a property of this code (README.md, section 5): RATE-1 when handlers*)
(* overlap, that those let through and those about to be are no more than  *)
(* the cap. MCLimiterRace.cfg has the counterexample.                      *)
PassesFit ==
  \A w \in Windows :
    Cardinality(Recent(w, now))
      + Cardinality({q \in Requests : /\ req[q].pc = "store" /\ req[q].w = w
                                      /\ req[q].at >= now - Size[w]}) =< Cap[w]

-----------------------------------------------------------------------------
(* The inductive invariant: where in the ring the d-th newest recorded     *)
(* time is, if it is known. A time that was stored but not yet advanced    *)
(* over counts as recorded.                                                *)
Recording(w) == \E q \in Requests : req[q].pc = "advance" /\ req[q].w = w
Cursor(w) == IF Recording(w) THEN NextSlot(w) ELSE cur[w]
Slot(w, d) == IF d =< Cursor(w) THEN Cursor(w) - d ELSE Cursor(w) - d + Cap[w]
Newest(w, d) == IF d =< Len(log[w]) THEN log[w][Len(log[w]) + 1 - d] ELSE ZeroTime

RingHoldsNewest ==
  \A w \in Windows : \A d \in 1..Cap[w] :
    Known(w, d) => times[w][Slot(w, d)] = Newest(w, d)

(* Whoever met nobody is alone.                                            *)
Alone == \A p, q \in Inside : p # q => q \in met

(* Times are recorded in order, and a request's own is the latest.         *)
Ordered ==
  \A w \in Windows : \A i \in DOMAIN log[w] :
    /\ \A j \in i..Len(log[w]) : log[w][i] =< log[w][j]
    /\ log[w][i] =< now
    /\ \A q \in Requests : req[q].pc # "outside" => log[w][i] =< req[q].at

(* Whoever is about to record in w was seen to fit.                        *)
Fitting(w, at) == Cap[w] =< Len(log[w]) => at - Newest(w, Cap[w]) > Size[w]

StoresFit ==
  \A q \in Requests :
    /\ req[q].at =< now
    /\ req[q].pc = "store" => Fitting(req[q].w, req[q].at)

IInv == TypeOK /\ Alone /\ RingHoldsNewest /\ Ordered /\ StoresFit /\ WithinCaps
=============================================================================
