------------------------------ MODULE MenuProofs ------------------------------
(***************************************************************************)
(* Proofs about the two modules of package menu: Menu, the keyboard, for   *)
(* every set of types and goroutines, and Setup, the connect codes, for    *)
(* every set of users, groups, codes and goroutines.                       *)
(***************************************************************************)
EXTENDS Menu, Setup, TLAPS

-----------------------------------------------------------------------------
(* What the writers of the row do to what the two SELECTs return. *)

LEMMA RowType ==
  ASSUME row \in Row \cup {NoRow}
  PROVE  /\ SubscriptionMuted \in BOOLEAN
         /\ EventTypesEnabled \in SUBSET Types
         /\ row # NoRow => /\ row.muted = SubscriptionMuted
                           /\ row.types = EventTypesEnabled
BY DEF Row, SubscriptionMuted, EventTypesEnabled

LEMMA SubscribeEffect ==
  ASSUME row \in Row \cup {NoRow}, row' = Subscribe
  PROVE  row' \in Row /\ EventTypesEnabled' = EventTypesEnabled
BY RowAssumption DEF Row, Subscribe, NewRow, EventTypesEnabled

LEMMA NewRowEffect ==
  ASSUME row = NoRow, row' = NewRow
  PROVE  /\ row' \in Row /\ EventTypesEnabled' = EventTypesEnabled
         /\ ~ SubscriptionMuted
BY RowAssumption DEF Row, NewRow, EventTypesEnabled, SubscriptionMuted

LEMMA SetMutedEffect ==
  ASSUME row \in Row \cup {NoRow}, row' = SetMuted
  PROVE  /\ row' \in Row \cup {NoRow}
         /\ EventTypesEnabled' = EventTypesEnabled
         /\ SubscriptionMuted => SubscriptionMuted'
BY RowAssumption DEF Row, SetMuted, EventTypesEnabled, SubscriptionMuted

LEMMA SetEventTypesEffect ==
  ASSUME row \in Row \cup {NoRow}, NEW S \in SUBSET Types, row' = SetEventTypes(S)
  PROVE  /\ row' \in Row \cup {NoRow}
         /\ EventTypesEnabled' = IF row = NoRow THEN {} ELSE S
         /\ SubscriptionMuted' = SubscriptionMuted
BY RowAssumption DEF Row, SetEventTypes, EventTypesEnabled, SubscriptionMuted

-----------------------------------------------------------------------------
(* Types. *)

LEMMA HandlerType ==
  ASSUME TypeOK, NEW h \in Handlers
  PROVE  /\ handler[h].pc \in {"idle", "muted", "read", "write", "types", "send"}
         /\ Tapping(h) => handler[h].typ \in Types
         /\ handler[h].pc = "write" => handler[h].cur \in SUBSET Types
         /\ handler[h].pc \in {"types", "send"} => handler[h].muted \in BOOLEAN
         /\ handler[h].pc = "send" => handler[h].on \in SUBSET Types
<1>1. handler[h] \in HandlerState
  BY DEF TypeOK
<1> QED
  BY <1>1 DEF HandlerState, Tapping

LEMMA InFlightType ==
  ASSUME TypeOK
  PROVE  InFlight \in SUBSET Types
BY HandlerType DEF InFlight

LEMMA StateTypes ==
  /\ Idle \in HandlerState
  /\ [pc |-> "muted"] \in HandlerState
  /\ \A t \in Types : [pc |-> "read", typ |-> t] \in HandlerState
  /\ \A t \in Types, S \in SUBSET Types : [pc |-> "write", typ |-> t, cur |-> S] \in HandlerState
  /\ \A m \in BOOLEAN : [pc |-> "types", muted |-> m] \in HandlerState
  /\ \A m \in BOOLEAN, S \in SUBSET Types : [pc |-> "send", muted |-> m, on |-> S] \in HandlerState
BY DEF HandlerState, Idle

LEMMA GotoType ==
  ASSUME TypeOK, NEW h \in Handlers, NEW s \in HandlerState, Goto(h, s)
  PROVE  /\ handler' \in [Handlers -> HandlerState]
         /\ handler'[h] = s
         /\ \A g \in Handlers \ {h} : handler'[g] = handler[g]
BY DEF TypeOK, Goto

LEMMA TypeInit == Init => TypeOK
BY StateTypes DEF Init, TypeOK

LEMMA TypeStep ==
  ASSUME TypeOK, [Next]_vars
  PROVE  TypeOK'
<1> USE DEF TypeOK
<1>1. CASE UNCHANGED vars
  BY <1>1 DEF vars
<1>l. CASE LinkIdentity
  <2>1. row' \in Row /\ EventTypesEnabled' \in SUBSET Types
    BY <1>l, SubscribeEffect, RowType DEF LinkIdentity, Write
  <2>2. blurred' \in SUBSET Types
    BY <1>l, InFlightType DEF LinkIdentity
  <2> QED
    BY <1>l, <2>1, <2>2 DEF LinkIdentity, Write
<1>2. CASE AdminLinkSub \/ AdminLinkOwner \/ AdminUnlink \/ MenuLevel1
  BY <1>2, NewRowEffect DEF AdminLinkSub, AdminLinkOwner, AdminUnlink, MenuLevel1, Write
<1>3. CASE Crash
  BY <1>3, StateTypes, InFlightType DEF Crash
<1>4. ASSUME NEW h \in Handlers, HandlerStep(h)
      PROVE  TypeOK'
  <2> USE <1>4
  <2>1. CASE TapService(h)
    BY <2>1, StateTypes, GotoType DEF TapService
  <2>2. ASSUME NEW t \in Types, TapType(h, t)
        PROVE  TypeOK'
    BY <2>2, StateTypes, GotoType, InFlightType DEF TapType
  <2>3. CASE ReadEnabled(h) \/ ReadEnabledFails(h)
    <3>1. handler[h].typ \in Types /\ EventTypesEnabled \in SUBSET Types
      BY <2>3, HandlerType, RowType DEF ReadEnabled, ReadEnabledFails, Tapping
    <3>2. handler' \in [Handlers -> HandlerState]
      BY <2>3, <3>1, StateTypes, GotoType DEF ReadEnabled, ReadEnabledFails
    <3> QED
      BY <2>3, <3>1, <3>2 DEF ReadEnabled, ReadEnabledFails
  <2>4. CASE WriteTypes(h)
    <3>1. PICK t \in Types : t = handler[h].typ
      BY <2>4, HandlerType DEF WriteTypes, Tapping
    <3>2. Toggled(handler[h].cur, t) \in SUBSET Types
      BY <2>4, HandlerType DEF WriteTypes, Toggled
    <3>3. row' \in Row \cup {NoRow}
      BY <2>4, <3>1, <3>2, SetEventTypesEffect DEF WriteTypes, Write
    <3>4. handler' \in [Handlers -> HandlerState]
      BY <2>4, StateTypes, GotoType DEF WriteTypes
    <3> QED
      BY <2>4, <3>1, <3>3, <3>4 DEF WriteTypes, Write
  <2>5. CASE WriteTypesFails(h)
    BY <2>5, StateTypes, GotoType, HandlerType DEF WriteTypesFails, Tapping
  <2>6. CASE TapMute(h) \/ TapMuteFails(h)
    BY <2>6, StateTypes, GotoType, SetMutedEffect DEF TapMute, TapMuteFails, Write
  <2>7. CASE Draw(h)
    <3>1. handler' \in [Handlers -> HandlerState]
      BY <2>7, StateTypes, GotoType, HandlerType, RowType
         DEF Draw, ReadMuted, ReadMutedFails, ReadTypes, ReadTypesFails, SendKeyboard, KeyboardLost
    <3>2. screen' \in [muted : BOOLEAN, on : SUBSET Types] \cup {NoScreen}
      BY <2>7, HandlerType
         DEF Draw, ReadMuted, ReadMutedFails, ReadTypes, ReadTypesFails, SendKeyboard, KeyboardLost
    <3> QED
      BY <2>7, <3>1, <3>2
         DEF Draw, ReadMuted, ReadMutedFails, ReadTypes, ReadTypesFails, SendKeyboard, KeyboardLost
  <2> QED
    BY <2>1, <2>2, <2>3, <2>4, <2>5, <2>6, <2>7 DEF HandlerStep
<1> QED
  BY <1>1, <1>2, <1>3, <1>4, <1>l DEF Next

-----------------------------------------------------------------------------
(* The taps. *)

LEMMA TypesInFlight ==
  ASSUME NEW t
  PROVE  t \in InFlight <=> \E g \in Handlers : Tapping(g) /\ handler[g].typ = t
BY DEF InFlight

LEMMA TypesInFlightNext ==
  ASSUME NEW t
  PROVE  t \in InFlight' <=> \E g \in Handlers : Tapping(g)' /\ handler'[g].typ = t
BY DEF InFlight

(* A step in which no goroutine that carries a tap moves, and the stored   *)
(* types stay.                                                             *)
LEMMA QuietTaps ==
  ASSUME TapsAreTracked, UNCHANGED <<want, blurred>>,
         EventTypesEnabled' = EventTypesEnabled,
         \A g \in Handlers : \/ handler'[g] = handler[g]
                             \/ ~ Tapping(g) /\ ~ Tapping(g)'
  PROVE  TapsAreTracked'
<1>1. \A g \in Handlers : Tapping(g)' => Tapping(g) /\ handler'[g] = handler[g]
  BY DEF Tapping
<1>2. \A g \in Handlers : Tapping(g) => Tapping(g)' /\ handler'[g] = handler[g]
  BY DEF Tapping
<1>3. InFlight' = InFlight
  BY <1>1, <1>2 DEF InFlight
<1>4. TogglesAreKept'
  BY <1>3 DEF TapsAreTracked, TogglesAreKept
<1>5. TapsBlur' /\ PendingTap'
  BY <1>1 DEF TapsAreTracked, TapsBlur, PendingTap
<1>6. ListIsFresh'
  BY <1>1 DEF TapsAreTracked, ListIsFresh, Tapping
<1> QED
  BY <1>4, <1>5, <1>6 DEF TapsAreTracked

(* A goroutine's state among those that carry no tap.                      *)
LEMMA QuietGoto ==
  ASSUME TypeOK, NEW h \in Handlers, NEW s, Goto(h, s),
         ~ Tapping(h), s.pc \notin {"read", "write"}
  PROVE  \A g \in Handlers : \/ handler'[g] = handler[g]
                             \/ ~ Tapping(g) /\ ~ Tapping(g)'
BY DEF TypeOK, Goto, Tapping

(* A tap alone toggles a type that is stored as wanted; one that meets     *)
(* another blurs both.                                                     *)
LEMMA TapTypeTaps ==
  ASSUME IInv, NEW h \in Handlers, NEW t \in Types, TapType(h, t)
  PROVE  TapsAreTracked'
<1> DEFINE x == [pc |-> "read", typ |-> t]
<1>1. /\ ~ Tapping(h) /\ handler'[h] = x
      /\ \A g \in Handlers \ {h} : handler'[g] = handler[g]
      /\ want' = IF t \in want THEN want \ {t} ELSE want \cup {t}
      /\ blurred' = IF InFlight = {} THEN blurred ELSE blurred \cup InFlight \cup {t}
      /\ EventTypesEnabled' = EventTypesEnabled
  BY StateTypes, GotoType DEF TapType, IInv, Idle, Tapping, EventTypesEnabled
<1>2. x.pc = "read" /\ x.typ = t
  OBVIOUS
<1> HIDE DEF x
<1>3. /\ Tapping(h)' /\ handler'[h].typ = t
      /\ \A g \in Handlers \ {h} : Tapping(g)' <=> Tapping(g)
  BY <1>1, <1>2 DEF Tapping
<1>4. \A u : u \in InFlight' <=> u = t \/ u \in InFlight
  BY <1>1, <1>3, TypesInFlight, TypesInFlightNext
<1>5. TogglesAreKept'
  BY <1>1, <1>4 DEF IInv, TapsAreTracked, TogglesAreKept
<1>6. \A g \in Handlers \ {h} : Tapping(g) => t \in blurred' /\ handler[g].typ \in blurred'
  BY <1>1, TypesInFlight
<1>7. TapsBlur'
  BY <1>1, <1>3, <1>6 DEF IInv, TapsAreTracked, TapsBlur
<1>8. PendingTap'
  <2>1. ASSUME t \notin blurred' PROVE t \in EventTypesEnabled <=> t \notin want'
    <3>1. InFlight = {} /\ t \notin blurred
      BY <1>1, <2>1
    <3> QED
      BY <1>1, <3>1 DEF IInv, TapsAreTracked, TogglesAreKept, TypeOK
  <2> QED
    BY <1>1, <1>3, <1>6, <2>1 DEF IInv, TapsAreTracked, PendingTap
<1>9. ListIsFresh'
  <2>1. blurred \subseteq blurred'
    BY <1>1
  <2> QED
    BY <1>1, <1>2, <2>1 DEF IInv, TapsAreTracked, ListIsFresh
<1> QED
  BY <1>5, <1>7, <1>8, <1>9 DEF TapsAreTracked

LEMMA ReadEnabledTaps ==
  ASSUME IInv, NEW h \in Handlers, ReadEnabled(h) \/ ReadEnabledFails(h)
  PROVE  TapsAreTracked'
<1>1. PICK S \in SUBSET Types :
        /\ handler[h].pc = "read"
        /\ Goto(h, [pc |-> "write", typ |-> handler[h].typ, cur |-> S])
        /\ UNCHANGED <<row, want>>
        /\ \/ S = EventTypesEnabled /\ blurred' = blurred
           \/ S = {} /\ blurred' = blurred \cup EventTypesEnabled
  BY RowType DEF ReadEnabled, ReadEnabledFails, IInv, TypeOK
<1>2. Tapping(h) /\ handler[h].typ \in Types
  BY <1>1, HandlerType DEF IInv, Tapping
<1> DEFINE x == [pc |-> "write", typ |-> handler[h].typ, cur |-> S]
<1>3. /\ handler'[h] = x
      /\ \A g \in Handlers \ {h} : handler'[g] = handler[g]
  BY <1>1, <1>2, StateTypes, GotoType DEF IInv
<1>4. x.pc = "write" /\ x.typ = handler[h].typ /\ x.cur = S
  OBVIOUS
<1> HIDE DEF x
<1>5. \A g \in Handlers : (Tapping(g)' <=> Tapping(g)) /\ handler'[g].typ = handler[g].typ
  BY <1>2, <1>3, <1>4 DEF Tapping
<1>6. InFlight' = InFlight
  BY <1>5 DEF InFlight
<1>7. EventTypesEnabled' = EventTypesEnabled
  BY <1>1 DEF EventTypesEnabled
<1>8. blurred \subseteq blurred'
  BY <1>1 DEF IInv, TypeOK
<1>9. TogglesAreKept'
  BY <1>1, <1>6, <1>7, <1>8 DEF IInv, TapsAreTracked, TogglesAreKept
<1>10. TapsBlur' /\ PendingTap'
  BY <1>1, <1>5, <1>7, <1>8 DEF IInv, TapsAreTracked, TapsBlur, PendingTap
<1>11. ListIsFresh'
  BY <1>1, <1>3, <1>4, <1>7, <1>8 DEF IInv, TapsAreTracked, ListIsFresh
<1> QED
  BY <1>9, <1>10, <1>11 DEF TapsAreTracked

(* The goroutine is done with its tap.                                     *)
LEMMA TapEnds ==
  ASSUME TypeOK, NEW h \in Handlers, Tapping(h), Goto(h, [pc |-> "muted"])
  PROVE  /\ \A g \in Handlers : Tapping(g)' => g # h /\ Tapping(g) /\ handler'[g] = handler[g]
         /\ InFlight \subseteq InFlight' \cup {handler[h].typ}
<1>1. /\ ~ Tapping(h)'
      /\ \A g \in Handlers \ {h} : handler'[g] = handler[g]
  BY StateTypes, GotoType DEF Tapping
<1>2. \A g \in Handlers \ {h} : Tapping(g)' <=> Tapping(g)
  BY <1>1 DEF Tapping
<1> QED
  BY <1>1, <1>2, TypesInFlight, TypesInFlightNext

(* A list that replaces the stored one agrees with it outside the blurred  *)
(* types, but for the tapped one.                                          *)
LEMMA WriteTypesTaps ==
  ASSUME IInv, NEW h \in Handlers, WriteTypes(h)
  PROVE  TapsAreTracked'
<1>1. PICK t \in Types, S \in SUBSET Types : t = handler[h].typ /\ S = handler[h].cur
  BY HandlerType DEF WriteTypes, IInv, Tapping
<1>2. /\ handler[h].pc = "write" /\ Tapping(h) /\ Goto(h, [pc |-> "muted"])
      /\ row' = SetEventTypes(Toggled(S, t))
      /\ blurred' = IF row = NoRow THEN blurred \cup {t} ELSE blurred
      /\ want' = want
  BY <1>1 DEF WriteTypes, Write, Tapping
<1>3. EventTypesEnabled' = IF row = NoRow THEN {} ELSE Toggled(S, t)
  BY <1>2, SetEventTypesEffect DEF Toggled, IInv, TypeOK
<1>4. /\ \A g \in Handlers : Tapping(g)' => g # h /\ Tapping(g) /\ handler'[g] = handler[g]
      /\ InFlight \subseteq InFlight' \cup {t}
  BY <1>1, <1>2, TapEnds DEF IInv
<1>5. ASSUME NEW u \in Types \ {t}, u \notin blurred
      PROVE  u \in EventTypesEnabled' <=> u \in EventTypesEnabled
  <2>1. CASE row = NoRow
    BY <1>3, <2>1 DEF EventTypesEnabled
  <2>2. CASE row # NoRow
    <3>1. u \in S <=> u \in EventTypesEnabled
      BY <1>1, <1>2, <1>5 DEF IInv, TapsAreTracked, ListIsFresh
    <3> QED
      BY <1>3, <1>5, <2>2, <3>1 DEF Toggled
  <2> QED
    BY <2>1, <2>2
<1>6. ASSUME t \notin blurred'
      PROVE  t \in EventTypesEnabled' <=> t \in want
  <2>1. row # NoRow /\ t \notin blurred
    BY <1>2, <1>6
  <2>2. t \in S <=> t \in EventTypesEnabled
    BY <1>1, <1>2, <2>1 DEF IInv, TapsAreTracked, ListIsFresh
  <2>3. t \in EventTypesEnabled <=> t \notin want
    BY <1>1, <1>2, <2>1 DEF IInv, TapsAreTracked, PendingTap
  <2> QED
    BY <1>3, <2>1, <2>2, <2>3 DEF Toggled
<1>7. TogglesAreKept'
  <2> SUFFICES ASSUME NEW u \in Types, u \notin blurred', u \notin InFlight'
               PROVE  u \in EventTypesEnabled' <=> u \in want
    BY <1>2 DEF TogglesAreKept
  <2>1. CASE u = t
    BY <1>6, <2>1
  <2>2. CASE u # t
    BY <1>2, <1>4, <1>5, <2>2 DEF IInv, TapsAreTracked, TogglesAreKept
  <2> QED
    BY <2>1, <2>2
<1>8. ASSUME NEW g \in Handlers, Tapping(g)'
      PROVE  t \in blurred /\ handler[g].typ \in Types
  BY <1>1, <1>2, <1>4, <1>8, HandlerType DEF IInv, TapsAreTracked, TapsBlur
<1>9. TapsBlur'
  BY <1>2, <1>4 DEF IInv, TapsAreTracked, TapsBlur
<1>10. PendingTap'
  <2> SUFFICES ASSUME NEW g \in Handlers, Tapping(g)', handler'[g].typ \notin blurred'
               PROVE  handler'[g].typ \in EventTypesEnabled' <=> handler'[g].typ \notin want
    BY <1>2 DEF PendingTap
  <2>1. handler[g].typ \in Types \ {t} /\ handler[g].typ \notin blurred
    BY <1>2, <1>4, <1>8
  <2> QED
    BY <1>4, <1>5, <2>1 DEF IInv, TapsAreTracked, PendingTap
<1>11. ListIsFresh'
  <2> SUFFICES ASSUME NEW g \in Handlers, handler'[g].pc = "write", NEW u \in Types, u \notin blurred'
               PROVE  u \in handler'[g].cur <=> u \in EventTypesEnabled'
    BY DEF ListIsFresh
  <2>1. Tapping(g)'
    BY DEF Tapping
  <2>2. u # t /\ u \notin blurred /\ handler'[g] = handler[g]
    BY <1>2, <1>4, <1>8, <2>1
  <2> QED
    BY <1>5, <2>2 DEF IInv, TapsAreTracked, ListIsFresh
<1> QED
  BY <1>7, <1>9, <1>10, <1>11 DEF TapsAreTracked

LEMMA WriteTypesFailsTaps ==
  ASSUME IInv, NEW h \in Handlers, WriteTypesFails(h)
  PROVE  TapsAreTracked'
<1>1. /\ Tapping(h) /\ Goto(h, [pc |-> "muted"])
      /\ blurred' = blurred \cup {handler[h].typ}
      /\ want' = want /\ row' = row
  BY DEF WriteTypesFails, Tapping
<1>2. EventTypesEnabled' = EventTypesEnabled
  BY <1>1 DEF EventTypesEnabled
<1>3. /\ \A g \in Handlers : Tapping(g)' => Tapping(g) /\ handler'[g] = handler[g]
      /\ InFlight \subseteq InFlight' \cup {handler[h].typ}
  BY <1>1, TapEnds DEF IInv
<1>4. TogglesAreKept'
  BY <1>1, <1>2, <1>3 DEF IInv, TapsAreTracked, TogglesAreKept
<1>5. TapsBlur' /\ PendingTap'
  BY <1>1, <1>2, <1>3 DEF IInv, TapsAreTracked, TapsBlur, PendingTap
<1>6. ListIsFresh'
  BY <1>1, <1>2, <1>3 DEF IInv, TapsAreTracked, ListIsFresh, Tapping
<1> QED
  BY <1>4, <1>5, <1>6 DEF TapsAreTracked

LEMMA CrashTaps ==
  ASSUME IInv, Crash
  PROVE  TapsAreTracked'
<1>1. /\ \A h \in Handlers : handler'[h].pc = "idle"
      /\ blurred' = blurred \cup InFlight /\ want' = want /\ row' = row
  BY DEF Crash, Idle
<1>2. EventTypesEnabled' = EventTypesEnabled
  BY <1>1 DEF EventTypesEnabled
<1>3. \A h \in Handlers : ~ Tapping(h)'
  BY <1>1 DEF Tapping
<1>4. TogglesAreKept'
  BY <1>1, <1>2 DEF IInv, TapsAreTracked, TogglesAreKept
<1> QED
  BY <1>1, <1>3, <1>4 DEF TapsAreTracked, TapsBlur, PendingTap, ListIsFresh

(* A new link: the observer agrees with the row again, but for the taps    *)
(* under way, which are blurred with all that was before.                  *)
LEMMA LinkTaps ==
  ASSUME IInv, LinkIdentity
  PROVE  TapsAreTracked'
<1>1. /\ want' = EventTypesEnabled' /\ handler' = handler
      /\ blurred' = IF InFlight = {} THEN {} ELSE blurred \cup InFlight
      /\ EventTypesEnabled' = EventTypesEnabled
  BY SubscribeEffect DEF LinkIdentity, Write, IInv, TypeOK
<1>2. \A g \in Handlers : /\ Tapping(g)' <=> Tapping(g)
                          /\ Tapping(g) => handler[g].typ \in blurred'
  BY <1>1, TypesInFlight DEF Tapping
<1>3. ListIsFresh'
  <2>1. InFlight = {} => \A g \in Handlers : handler[g].pc # "write"
    BY TypesInFlight DEF Tapping
  <2> QED
    BY <1>1, <2>1 DEF IInv, TapsAreTracked, ListIsFresh
<1> QED
  BY <1>1, <1>2, <1>3 DEF TapsAreTracked, TogglesAreKept, TapsBlur, PendingTap

LEMMA TapsStep ==
  ASSUME IInv, [Next]_vars
  PROVE  TapsAreTracked'
<1>1. CASE UNCHANGED vars
  BY <1>1, QuietTaps DEF vars, IInv, EventTypesEnabled
<1>l. CASE LinkIdentity
  BY <1>l, LinkTaps
<1>2. CASE AdminLinkSub \/ AdminLinkOwner \/ AdminUnlink \/ MenuLevel1
  <2>1. UNCHANGED <<handler, want, blurred>>
    BY <1>2 DEF AdminLinkSub, AdminLinkOwner, AdminUnlink, MenuLevel1
  <2>2. EventTypesEnabled' = EventTypesEnabled
    <3>2. CASE AdminLinkSub
      BY <3>2, NewRowEffect DEF AdminLinkSub, Write
    <3>3. CASE row' = row
      BY <3>3 DEF EventTypesEnabled
    <3> QED
      BY <1>2, <3>2, <3>3 DEF AdminLinkOwner, AdminUnlink, MenuLevel1
  <2> QED
    BY <2>1, <2>2, QuietTaps DEF IInv
<1>3. CASE Crash
  BY <1>3, CrashTaps
<1>4. ASSUME NEW h \in Handlers, HandlerStep(h)
      PROVE  TapsAreTracked'
  <2> USE <1>4
  <2>1. CASE TapService(h) \/ TapMute(h) \/ TapMuteFails(h)
    <3>1. /\ Goto(h, [pc |-> "muted"]) /\ ~ Tapping(h)
          /\ UNCHANGED <<want, blurred>>
      BY <2>1 DEF TapService, TapMute, TapMuteFails, Idle, Tapping
    <3>2. EventTypesEnabled' = EventTypesEnabled
      <4>1. CASE TapMute(h)
        BY <4>1, SetMutedEffect DEF TapMute, Write, IInv, TypeOK
      <4>2. CASE row' = row
        BY <4>2 DEF EventTypesEnabled
      <4> QED
        BY <2>1, <4>1, <4>2 DEF TapService, TapMuteFails
    <3> QED
      BY <3>1, <3>2, QuietGoto, QuietTaps DEF IInv
  <2>2. CASE Draw(h)
    <3>1. /\ handler[h].pc \in {"muted", "types", "send"}
          /\ UNCHANGED <<row, want, blurred>>
          /\ \E s : Goto(h, s) /\ s.pc \in {"idle", "types", "send"}
      <4>1. CASE ReadMuted(h) \/ ReadMutedFails(h)
        <5>1. PICK m : Goto(h, [pc |-> "types", muted |-> m])
          BY <4>1 DEF ReadMuted, ReadMutedFails
        <5>2. [pc |-> "types", muted |-> m].pc = "types"
          OBVIOUS
        <5> QED
          BY <4>1, <5>1, <5>2 DEF ReadMuted, ReadMutedFails
      <4>2. CASE ReadTypes(h) \/ ReadTypesFails(h)
        <5>1. PICK m, S : Goto(h, [pc |-> "send", muted |-> m, on |-> S])
          BY <4>2 DEF ReadTypes, ReadTypesFails
        <5>2. [pc |-> "send", muted |-> m, on |-> S].pc = "send"
          OBVIOUS
        <5> QED
          BY <4>2, <5>1, <5>2 DEF ReadTypes, ReadTypesFails
      <4>3. CASE SendKeyboard(h) \/ KeyboardLost(h)
        <5>1. Goto(h, Idle) /\ Idle.pc = "idle"
          BY <4>3 DEF SendKeyboard, KeyboardLost, Idle
        <5> QED
          BY <4>3, <5>1 DEF SendKeyboard, KeyboardLost
      <4> QED
        BY <2>2, <4>1, <4>2, <4>3 DEF Draw
    <3>2. PICK s : Goto(h, s) /\ s.pc \in {"idle", "types", "send"}
      BY <3>1
    <3>3. ~ Tapping(h)
      BY <3>1 DEF Tapping
    <3>4. EventTypesEnabled' = EventTypesEnabled
      BY <3>1 DEF EventTypesEnabled
    <3> QED
      BY <3>1, <3>2, <3>3, <3>4, QuietGoto, QuietTaps DEF IInv
  <2> QED
    BY <2>1, <2>2, TapTypeTaps, ReadEnabledTaps, WriteTypesTaps, WriteTypesFailsTaps DEF HandlerStep
<1> QED
  BY <1>1, <1>2, <1>3, <1>4, <1>l DEF Next

-----------------------------------------------------------------------------
(* The keyboards. *)

(* Who has begun to read the row after its last change has read it as it   *)
(* is, as far as he has come.                                              *)
ReadsTrue(h) ==
  /\ handler[h].pc \in {"muted", "types", "send"}
  /\ handler[h].pc # "muted" => handler[h].muted = SubscriptionMuted
  /\ handler[h].pc = "send" => handler[h].on = EventTypesEnabled

(* While the row stays, readers that have not moved are as good as before. *)
LEMMA RowStays ==
  ASSUME ViewsAreTrue, row' = row,
         \A g \in Handlers \cap current' :
           (g \in current /\ handler'[g] = handler[g]) \/ ReadsTrue(g)',
         Screen \in current' => \/ Screen \in current /\ screen' = screen
                                \/ screen' = [muted |-> SubscriptionMuted, on |-> EventTypesEnabled]
  PROVE  ViewsAreTrue'
<1>1. SubscriptionMuted' = SubscriptionMuted /\ EventTypesEnabled' = EventTypesEnabled
  BY DEF SubscriptionMuted, EventTypesEnabled
<1>2. ReadersAreCurrent'
  BY <1>1 DEF ViewsAreTrue, ReadersAreCurrent, ReadsTrue
<1>3. ScreenIsCurrent'
  BY <1>1 DEF ViewsAreTrue, ScreenIsCurrent
<1> QED
  BY <1>2, <1>3 DEF ViewsAreTrue

(* A write that changes the row leaves no reader but the writer.           *)
LEMMA RowWritten ==
  ASSUME ViewsAreTrue, NEW new, NEW readers \in SUBSET Handlers, Write(new, readers),
         screen' = screen,
         \A g \in readers : handler'[g].pc = "muted",
         \A g \in Handlers \ readers : handler'[g] = handler[g]
  PROVE  ViewsAreTrue'
<1>1. \A g \in readers : ReadsTrue(g)'
  BY DEF ReadsTrue
<1>2. Screen \notin readers
  BY ScreenAssumption
<1>3. CASE row' = row
  BY <1>1, <1>2, <1>3, RowStays DEF Write
<1>4. CASE row' # row
  <2>1. current' = readers
    BY <1>4 DEF Write
  <2>2. ReadersAreCurrent'
    BY <1>1, <2>1 DEF ReadersAreCurrent, ReadsTrue
  <2> QED
    BY <1>2, <2>1, <2>2 DEF ViewsAreTrue, ScreenIsCurrent
<1> QED
  BY <1>3, <1>4

(* One goroutine moves while the row stays.                                *)
LEMMA OneMoves ==
  ASSUME IInv, NEW h \in Handlers, NEW s \in HandlerState, Goto(h, s), row' = row,
         h \notin current' \/ ReadsTrue(h)',
         current' \subseteq current \cup {h, Screen},
         Screen \in current' => \/ Screen \in current /\ screen' = screen
                                \/ screen' = [muted |-> SubscriptionMuted, on |-> EventTypesEnabled]
  PROVE  ViewsAreTrue'
<1>1. \A g \in Handlers \ {h} : handler'[g] = handler[g]
  BY GotoType DEF IInv
<1>2. \A g \in Handlers \cap current' : g # h => g \in current
  BY ScreenAssumption
<1> QED
  BY <1>1, <1>2, RowStays DEF IInv

LEMMA DrawViews ==
  ASSUME IInv, NEW h \in Handlers, Draw(h)
  PROVE  ViewsAreTrue'
<1>1. h # Screen
  BY ScreenAssumption
<1>2. /\ h \in current => ReadsTrue(h)
      /\ row' = row
      /\ SubscriptionMuted' = SubscriptionMuted /\ EventTypesEnabled' = EventTypesEnabled
  BY DEF IInv, ViewsAreTrue, ReadersAreCurrent, ReadsTrue, SubscriptionMuted, EventTypesEnabled,
         Draw, ReadMuted, ReadMutedFails, ReadTypes, ReadTypesFails, SendKeyboard, KeyboardLost
<1>3. CASE ReadMuted(h)
  <2> DEFINE s == [pc |-> "types", muted |-> SubscriptionMuted]
  <2>1. s \in HandlerState /\ s.pc = "types" /\ s.muted = SubscriptionMuted
    BY StateTypes, RowType DEF IInv, TypeOK
  <2>2. Goto(h, s) /\ current' = current /\ screen' = screen
    BY <1>3 DEF ReadMuted
  <2> HIDE DEF s
  <2>3. ReadsTrue(h)'
    BY <1>2, <2>1, <2>2, GotoType DEF IInv, ReadsTrue
  <2> QED
    BY <1>2, <2>1, <2>2, <2>3, OneMoves
<1>4. CASE ReadTypes(h)
  <2> DEFINE s == [pc |-> "send", muted |-> handler[h].muted, on |-> EventTypesEnabled]
  <2>1. s \in HandlerState /\ s.pc = "send" /\ s.muted = handler[h].muted /\ s.on = EventTypesEnabled
    BY <1>4, StateTypes, RowType, HandlerType DEF ReadTypes, IInv, TypeOK
  <2>2. Goto(h, s) /\ current' = current /\ screen' = screen /\ handler[h].pc = "types"
    BY <1>4 DEF ReadTypes
  <2> HIDE DEF s
  <2>3. handler'[h] = s
    BY <2>1, <2>2, GotoType DEF IInv
  <2>4. h \in current => ReadsTrue(h)'
    BY <1>2, <2>1, <2>2, <2>3 DEF ReadsTrue
  <2> QED
    BY <1>2, <2>1, <2>2, <2>4, OneMoves
<1>5. CASE ReadMutedFails(h) \/ ReadTypesFails(h) \/ KeyboardLost(h)
  <2>1. PICK s \in HandlerState : Goto(h, s)
    BY <1>5, StateTypes, HandlerType DEF IInv, ReadMutedFails, ReadTypesFails, KeyboardLost
  <2>2. current' = current \ {h} /\ screen' = screen
    BY <1>5 DEF ReadMutedFails, ReadTypesFails, KeyboardLost
  <2> QED
    BY <1>2, <2>1, <2>2, OneMoves
<1>6. CASE SendKeyboard(h)
  <2>1. /\ Goto(h, Idle) /\ Idle \in HandlerState
        /\ screen' = [muted |-> handler[h].muted, on |-> handler[h].on]
        /\ handler[h].pc = "send"
        /\ current' = IF h \in current THEN (current \ {h}) \cup {Screen} ELSE current \ {Screen}
    BY <1>6, StateTypes DEF SendKeyboard
  <2>2. h \notin current' /\ current' \subseteq current \cup {h, Screen}
    BY <1>1, <2>1
  <2>3. Screen \in current' => h \in current
    BY <2>1
  <2>4. h \in current => screen' = [muted |-> SubscriptionMuted, on |-> EventTypesEnabled]
    BY <1>2, <2>1 DEF ReadsTrue
  <2> QED
    BY <1>2, <2>1, <2>2, <2>3, <2>4, OneMoves
<1> QED
  BY <1>3, <1>4, <1>5, <1>6 DEF Draw

LEMMA ViewsStep ==
  ASSUME IInv, [Next]_vars
  PROVE  ViewsAreTrue'
<1>1. CASE UNCHANGED vars
  BY <1>1, RowStays DEF vars, IInv
<1>2. CASE LinkIdentity \/ AdminLinkSub
  <2>1. PICK new : Write(new, {}) /\ UNCHANGED <<screen, handler>>
    BY <1>2 DEF LinkIdentity, AdminLinkSub
  <2> QED
    BY <2>1, RowWritten DEF IInv
<1>3. CASE AdminLinkOwner \/ AdminUnlink \/ MenuLevel1
  <2>1. UNCHANGED <<row, handler, screen, current>>
    BY <1>3 DEF AdminLinkOwner, AdminUnlink, MenuLevel1
  <2> QED
    BY <2>1, RowStays DEF IInv
<1>4. CASE Crash
  <2>1. row' = row /\ screen' = screen /\ current' = current \cap {Screen}
    BY <1>4 DEF Crash
  <2> QED
    BY <2>1, ScreenAssumption, RowStays DEF IInv
<1>5. ASSUME NEW h \in Handlers, HandlerStep(h)
      PROVE  ViewsAreTrue'
  <2> USE <1>5
  <2>1. CASE TapService(h) \/ TapMute(h) \/ TapMuteFails(h) \/ WriteTypes(h) \/ WriteTypesFails(h)
    <3>1. PICK new : Write(new, {h}) /\ Goto(h, [pc |-> "muted"]) /\ screen' = screen
      <4>1. CASE TapMute(h)
        BY <4>1 DEF TapMute
      <4>2. CASE WriteTypes(h)
        BY <4>2 DEF WriteTypes
      <4>3. CASE TapService(h) \/ TapMuteFails(h) \/ WriteTypesFails(h)
        <5>1. Write(row, {h})
          BY <4>3 DEF TapService, TapMuteFails, WriteTypesFails, Write
        <5> QED
          BY <4>3, <5>1 DEF TapService, TapMuteFails, WriteTypesFails
      <4> QED
        BY <2>1, <4>1, <4>2, <4>3
    <3>2. handler'[h].pc = "muted" /\ \A g \in Handlers \ {h} : handler'[g] = handler[g]
      BY <3>1, StateTypes, GotoType DEF IInv
    <3> QED
      BY <3>1, <3>2, RowWritten DEF IInv
  <2>2. ASSUME NEW t \in Types, TapType(h, t)
        PROVE  ViewsAreTrue'
    <3>1. /\ Goto(h, [pc |-> "read", typ |-> t]) /\ UNCHANGED <<row, screen, current>>
          /\ h \notin current
      BY <2>2 DEF TapType, Idle, IInv, ViewsAreTrue, ReadersAreCurrent
    <3> QED
      BY <3>1, StateTypes, OneMoves
  <2>3. CASE ReadEnabled(h) \/ ReadEnabledFails(h)
    <3>1. PICK S \in SUBSET Types :
            Goto(h, [pc |-> "write", typ |-> handler[h].typ, cur |-> S])
      BY <2>3, RowType DEF ReadEnabled, ReadEnabledFails, IInv, TypeOK
    <3>2. /\ UNCHANGED <<row, screen, current>>
          /\ h \notin current /\ handler[h].typ \in Types
      BY <2>3, HandlerType DEF ReadEnabled, ReadEnabledFails, IInv, ViewsAreTrue, ReadersAreCurrent, Tapping
    <3> QED
      BY <3>1, <3>2, StateTypes, OneMoves
  <2> QED
    BY <2>1, <2>2, <2>3, DrawViews DEF HandlerStep
<1> QED
  BY <1>1, <1>2, <1>3, <1>4, <1>5 DEF Next

-----------------------------------------------------------------------------
LEMMA InitIInv == Init => IInv
<1> SUFFICES ASSUME Init PROVE IInv
  OBVIOUS
<1>1. TapsAreTracked
  BY DEF Init, Idle, TapsAreTracked, TogglesAreKept, TapsBlur, PendingTap, ListIsFresh, Tapping,
         EventTypesEnabled
<1>2. ViewsAreTrue
  BY DEF Init, ViewsAreTrue, ReadersAreCurrent, ScreenIsCurrent
<1> QED
  BY <1>1, <1>2, TypeInit DEF IInv

LEMMA StepIInv == IInv /\ [Next]_vars => IInv'
BY TypeStep, TapsStep, ViewsStep DEF IInv

(* The inductive invariant of taps and keyboards.                          *)
THEOREM Inductive == Spec => []IInv
BY InitIInv, StepIInv, PTL DEF Spec

(* Since the last link a type is stored exactly if taps asked for it, but  *)
(* for the types whose own tap overlapped another or was not written, and  *)
(* for those that were stored when a tap could not read the list.          *)
THEOREM TogglesAreNeverLost == Spec => []TogglesAreKept
<1>1. IInv => TogglesAreKept
  BY DEF IInv, TapsAreTracked
<1> QED
  BY <1>1, Inductive, PTL

(* The keyboard tells what ResolveRoutes does while nobody changed the row *)
(* since it was read.                                                      *)
THEOREM ScreenTellsRouting == Spec => []ScreenIsTrue
<1>1. IInv => ScreenIsTrue
  <2> SUFFICES ASSUME IInv, Screen \in current, linked, NEW t \in Types
               PROVE  /\ screen.muted => ~ Routed(t)
                      /\ (~ screen.muted /\ screen.on # {}) => (t \in screen.on <=> Routed(t))
    BY DEF ScreenIsTrue
  <2>1. screen.muted = SubscriptionMuted /\ screen.on = EventTypesEnabled
    BY DEF IInv, ViewsAreTrue, ScreenIsCurrent
  <2> QED
    BY <2>1 DEF Routed
<1> QED
  BY <1>1, Inductive, PTL

-----------------------------------------------------------------------------
(* Setup. *)

(* Whoever has verified a group has done so for good. *)
LEMMA VerifiedStays ==
  ASSUME NEW u, verified \subseteq verified', HasVerified(u)
  PROVE  HasVerified(u)'
BY DEF HasVerified

LEMMA SetupInitIInv == SetupInit => SetupIInv
<1> SUFFICES ASSUME SetupInit PROVE SetupIInv
  OBVIOUS
<1>1. SetupTypeOK
  BY DEF SetupInit, SetupTypeOK
<1>2. UsedOnce /\ VerifiedWork /\ OnlyVerifiedBind
  BY DEF SetupInit, UsedOnce, VerifiedWork, OnlyVerifiedBind, NoCode, AtRest
<1>3. InFlightIsLast /\ LastConnectWins
  BY DEF SetupInit, InFlightIsLast, LastConnectWins, Binding, AtRest
<1> QED
  BY <1>1, <1>2, <1>3 DEF SetupIInv

-----------------------------------------------------------------------------
(* Steps that bind nothing and redeem nothing: the work in flight stays.   *)
LEMMA QuietIInv ==
  ASSUME SetupIInv, SetupTypeOK', UsedOnce', VerifiedWork',
         UNCHANGED <<group, last, overlapped>>, verified \subseteq verified',
         \A h \in Updates : req'[h] = req[h] \/ (req[h].pc # "bind" /\ req'[h].pc # "bind")
  PROVE  SetupIInv'
<1>1. \A u \in Users : Binding(u)' = Binding(u)
  BY DEF Binding
<1>2. OnlyVerifiedBind'
  BY VerifiedStays DEF SetupIInv, OnlyVerifiedBind
<1>3. InFlightIsLast'
  <2> SUFFICES ASSUME NEW u \in Users \ overlapped, NEW h \in Binding(u)
               PROVE  Binding(u) = {h} /\ req'[h].chat = last[u]
    BY <1>1 DEF InFlightIsLast
  <2>1. Binding(u) = {h} /\ req[h].chat = last[u] /\ h \in Updates /\ req[h].pc = "bind"
    BY DEF SetupIInv, InFlightIsLast, Binding
  <2> QED
    BY <2>1
<1>4. LastConnectWins'
  BY <1>1 DEF SetupIInv, LastConnectWins
<1> QED
  BY <1>2, <1>3, <1>4 DEF SetupIInv

LEMMA VerifyIInv ==
  ASSUME SetupIInv, NEW h \in Updates, NEW u \in Users, NEW g \in Groups, VerifySetup(h, u, g)
  PROVE  SetupIInv'
<1> DEFINE x == [pc |-> "issue", user |-> u]
<1>1. x \in Issuing /\ x.pc = "issue" /\ x.user = u
  BY DEF Issuing
<1>2. /\ req[h].pc = "idle" /\ req' = [req EXCEPT ![h] = x]
      /\ verified' = verified \cup {<<u, g>>}
      /\ UNCHANGED <<code, group, draws, uses, last, overlapped>>
  BY DEF VerifySetup
<1> HIDE DEF x
<1>3. SetupTypeOK'
  BY <1>1, <1>2 DEF SetupIInv, SetupTypeOK
<1>4. HasVerified(u)' /\ verified \subseteq verified'
  BY <1>2 DEF HasVerified
<1>5. VerifiedWork'
  BY <1>1, <1>2, <1>4, VerifiedStays DEF SetupIInv, SetupTypeOK, VerifiedWork
<1>6. \A k \in Updates : req'[k] = req[k] \/ (req[k].pc # "bind" /\ req'[k].pc # "bind")
  BY <1>1, <1>2 DEF SetupIInv, SetupTypeOK
<1>7. UsedOnce'
  BY <1>2 DEF SetupIInv, UsedOnce
<1> QED
  BY <1>2, <1>3, <1>4, <1>5, <1>6, <1>7, QuietIInv

LEMMA CreateIInv ==
  ASSUME SetupIInv, NEW h \in Updates, NEW c \in Codes, CreateConnectCode(h, c)
  PROVE  SetupIInv'
<1>1. PICK u \in Users : u = req[h].user
  BY DEF CreateConnectCode, SetupIInv, SetupTypeOK, AtRest, Issuing, Connecting
<1> DEFINE x == [state |-> "fresh", user |-> u, expired |-> FALSE]
<1>2. x \in IssuedCode /\ x.state = "fresh" /\ x.user = u
  BY DEF IssuedCode
<1>3. /\ req[h].pc = "issue" /\ code' = [code EXCEPT ![c] = x]
      /\ uses' = [uses EXCEPT ![c] = 0]
      /\ draws' = draws + 1
      /\ req' = [req EXCEPT ![h] = AtRest]
      /\ UNCHANGED <<group, verified, last, overlapped>>
  BY <1>1 DEF CreateConnectCode
<1> HIDE DEF x
<1>4. SetupTypeOK'
  BY <1>2, <1>3 DEF SetupIInv, SetupTypeOK
<1>5. UsedOnce'
  BY <1>2, <1>3 DEF SetupIInv, SetupTypeOK, UsedOnce
<1>6. VerifiedWork'
  <2>1. HasVerified(u)
    BY <1>1, <1>3 DEF SetupIInv, VerifiedWork
  <2>2. \A v : HasVerified(v)' <=> HasVerified(v)
    BY <1>3 DEF HasVerified
  <2>3. ASSUME NEW d \in Codes, code'[d].state # "none" PROVE HasVerified(code'[d].user)
    BY <1>2, <1>3, <2>1, <2>3 DEF SetupIInv, SetupTypeOK, VerifiedWork
  <2>4. ASSUME NEW k \in Updates, req'[k].pc # "idle" PROVE HasVerified(req'[k].user)
    BY <1>3, <2>4 DEF SetupIInv, SetupTypeOK, VerifiedWork, AtRest
  <2> QED
    BY <2>2, <2>3, <2>4 DEF VerifiedWork
<1>7. \A k \in Updates : req'[k] = req[k] \/ (req[k].pc # "bind" /\ req'[k].pc # "bind")
  BY <1>3 DEF SetupIInv, SetupTypeOK, AtRest
<1> QED
  BY <1>3, <1>4, <1>5, <1>6, <1>7, QuietIInv

LEMMA CreateFailsIInv ==
  ASSUME SetupIInv, NEW h \in Updates, CreateFails(h)
  PROVE  SetupIInv'
<1>1. /\ req[h].pc = "issue" /\ req' = [req EXCEPT ![h] = AtRest]
      /\ UNCHANGED <<code, group, draws, uses, verified, last, overlapped>>
  BY DEF CreateFails
<1>2. SetupTypeOK' /\ UsedOnce'
  BY <1>1 DEF SetupIInv, SetupTypeOK, UsedOnce
<1>3. VerifiedWork'
  BY <1>1 DEF SetupIInv, SetupTypeOK, VerifiedWork, HasVerified, AtRest
<1>4. \A k \in Updates : req'[k] = req[k] \/ (req[k].pc # "bind" /\ req'[k].pc # "bind")
  BY <1>1 DEF SetupIInv, SetupTypeOK, AtRest
<1> QED
  BY <1>1, <1>2, <1>3, <1>4, QuietIInv

LEMMA ExpireIInv ==
  ASSUME SetupIInv, NEW c \in Codes, Expire(c)
  PROVE  SetupIInv'
<1>1. PICK x : x = [code[c] EXCEPT !.expired = TRUE]
  OBVIOUS
<1>2. x \in IssuedCode /\ x.state = code[c].state /\ x.user = code[c].user
  <2>1. code[c] \in IssuedCode
    BY DEF Expire, SetupIInv, SetupTypeOK, NoCode
  <2> QED
    BY <1>1, <2>1 DEF IssuedCode
<1>3. /\ code' = [code EXCEPT ![c] = x] /\ code[c].state = "fresh"
      /\ UNCHANGED <<group, req, draws, uses, verified, last, overlapped>>
  BY <1>1 DEF Expire
<1>4. SetupTypeOK'
  BY <1>2, <1>3 DEF SetupIInv, SetupTypeOK
<1>5. UsedOnce' /\ VerifiedWork'
  BY <1>2, <1>3 DEF SetupIInv, SetupTypeOK, UsedOnce, VerifiedWork, HasVerified
<1> QED
  BY <1>3, <1>4, <1>5, QuietIInv

-----------------------------------------------------------------------------
(* What is known of a goroutine that is about to bind.                     *)
LEMMA ConnectingType ==
  ASSUME SetupTypeOK, NEW h \in Updates, req[h].pc = "bind"
  PROVE  req[h].user \in Users /\ req[h].chat \in Groups
BY DEF SetupTypeOK, AtRest, Issuing, Connecting

(* A redemption either starts alone, and is the last, or blurs its user.   *)
LEMMA ConsumeIInv ==
  ASSUME SetupIInv, NEW h \in Updates, NEW u \in Users, NEW g \in Groups, NEW c \in Codes,
         ConsumeConnectCode(h, u, g, c)
  PROVE  SetupIInv'
<1>1. PICK y : y = [code[c] EXCEPT !.state = "used"]
  OBVIOUS
<1> DEFINE x == [pc |-> "bind", user |-> u, chat |-> g]
<1>2. x \in Connecting /\ x.pc = "bind" /\ x.user = u /\ x.chat = g
  BY DEF Connecting
<1>3. y \in IssuedCode /\ y.state = "used" /\ y.user = u /\ code[c].state = "fresh"
      /\ code[c].user = u
  BY <1>1 DEF ConsumeConnectCode, Consumable, SetupIInv, SetupTypeOK, NoCode, IssuedCode
<1>4. /\ req[h].pc = "idle" /\ req' = [req EXCEPT ![h] = x]
      /\ code' = [code EXCEPT ![c] = y]
      /\ uses' = [uses EXCEPT ![c] = @ + 1]
      /\ last' = [last EXCEPT ![u] = g]
      /\ overlapped' = IF Binding(u) = {} THEN overlapped \ {u} ELSE overlapped \cup {u}
      /\ UNCHANGED <<group, draws, verified>>
  BY <1>1 DEF ConsumeConnectCode, Used
<1> HIDE DEF x
<1>5. SetupTypeOK'
  BY <1>2, <1>3, <1>4 DEF SetupIInv, SetupTypeOK
<1>6. UsedOnce'
  BY <1>3, <1>4 DEF SetupIInv, SetupTypeOK, UsedOnce
<1>7. VerifiedWork' /\ OnlyVerifiedBind'
  <2>1. HasVerified(u) /\ \A v : HasVerified(v)' <=> HasVerified(v)
    BY <1>3, <1>4 DEF SetupIInv, VerifiedWork, HasVerified
  <2> QED
    BY <1>2, <1>3, <1>4, <2>1 DEF SetupIInv, SetupTypeOK, VerifiedWork, OnlyVerifiedBind
<1>8. /\ Binding(u)' = Binding(u) \cup {h}
      /\ \A v \in Users \ {u} : Binding(v)' = Binding(v)
  BY <1>2, <1>4 DEF SetupIInv, SetupTypeOK, Binding
<1>9. InFlightIsLast'
  <2>1. ASSUME NEW v \in Users \ overlapped', v # u, NEW k \in Binding(v)
        PROVE  Binding(v) = {k} /\ req'[k].chat = last'[v]
    <3>1. v \in Users \ overlapped /\ last'[v] = last[v]
      BY <1>4, <2>1 DEF SetupIInv, SetupTypeOK
    <3>2. k \in Updates /\ k # h /\ req'[k] = req[k]
      BY <1>4 DEF Binding, SetupIInv, SetupTypeOK
    <3> QED
      BY <3>1, <3>2 DEF SetupIInv, InFlightIsLast
  <2>2. ASSUME u \notin overlapped'
        PROVE  Binding(u)' = {h} /\ req'[h].chat = last'[u]
    BY <1>2, <1>4, <1>8, <2>2 DEF SetupIInv, SetupTypeOK
  <2> QED
    BY <1>8, <2>1, <2>2 DEF InFlightIsLast
<1>10. LastConnectWins'
  BY <1>4, <1>8 DEF SetupIInv, SetupTypeOK, LastConnectWins
<1> QED
  BY <1>5, <1>6, <1>7, <1>9, <1>10 DEF SetupIInv

(* One goroutine less is binding. *)
LEMMA FinishIInv ==
  ASSUME SetupIInv, NEW h \in Updates, SetDeliveryMode(h) \/ SaveFails(h)
  PROVE  SetupIInv'
<1>1. PICK u \in Users, g \in Groups : u = req[h].user /\ g = req[h].chat
  BY ConnectingType DEF SetupIInv, SetDeliveryMode, SaveFails
<1>2. /\ req[h].pc = "bind" /\ req' = [req EXCEPT ![h] = AtRest]
      /\ UNCHANGED <<code, draws, uses, verified, last>>
      /\ \/ group' = [group EXCEPT ![u] = g] /\ overlapped' = overlapped
         \/ group' = group /\ overlapped' = overlapped \cup {u}
  BY <1>1 DEF SetDeliveryMode, SaveFails, Bound
<1>3. SetupTypeOK' /\ UsedOnce'
  BY <1>1, <1>2 DEF SetupIInv, SetupTypeOK, UsedOnce
<1>4. \A v : HasVerified(v)' <=> HasVerified(v)
  BY <1>2 DEF HasVerified
<1>5. VerifiedWork'
  BY <1>2, <1>4 DEF SetupIInv, SetupTypeOK, VerifiedWork, AtRest
<1>6. OnlyVerifiedBind'
  <2>1. HasVerified(u)
    BY <1>1, <1>2 DEF SetupIInv, VerifiedWork
  <2> QED
    BY <1>2, <1>4, <2>1 DEF SetupIInv, SetupTypeOK, OnlyVerifiedBind
<1>7. /\ h \in Binding(u) /\ Binding(u)' = Binding(u) \ {h}
      /\ \A v \in Users \ {u} : Binding(v)' = Binding(v)
  BY <1>1, <1>2 DEF SetupIInv, SetupTypeOK, Binding, AtRest
<1>8. u \notin overlapped => Binding(u) = {h} /\ g = last[u]
  BY <1>1, <1>7 DEF SetupIInv, InFlightIsLast
<1>9. InFlightIsLast'
  <2>1. ASSUME NEW v \in Users \ overlapped', v # u, NEW k \in Binding(v)
        PROVE  Binding(v) = {k} /\ req'[k].chat = last'[v]
    <3>1. v \in Users \ overlapped /\ last'[v] = last[v]
      BY <1>2, <2>1
    <3>2. k \in Updates /\ k # h /\ req'[k] = req[k]
      BY <1>1, <1>2, <2>1 DEF Binding, SetupIInv, SetupTypeOK
    <3> QED
      BY <3>1, <3>2 DEF SetupIInv, InFlightIsLast
  <2>2. u \notin overlapped' => Binding(u)' = {}
    BY <1>2, <1>7, <1>8
  <2> QED
    BY <1>7, <2>1, <2>2 DEF InFlightIsLast
<1>10. LastConnectWins'
  <2>1. ASSUME u \notin overlapped' PROVE group'[u] = last'[u]
    BY <1>2, <1>8, <2>1 DEF SetupIInv, SetupTypeOK
  <2>2. ASSUME NEW v \in Users \ {u}, v \notin overlapped', Binding(v) = {}
        PROVE  group'[v] = last'[v]
    BY <1>2, <2>2 DEF SetupIInv, SetupTypeOK, LastConnectWins
  <2> QED
    BY <1>7, <2>1, <2>2 DEF LastConnectWins
<1> QED
  BY <1>3, <1>5, <1>6, <1>9, <1>10 DEF SetupIInv

LEMMA SetupCrashIInv == SetupIInv /\ SetupCrash => SetupIInv'
<1> SUFFICES ASSUME SetupIInv, SetupCrash PROVE SetupIInv'
  OBVIOUS
<1>1. /\ req' = [h \in Updates |-> AtRest]
      /\ overlapped' = overlapped \cup {u \in Users : Binding(u) # {}}
      /\ UNCHANGED <<code, group, draws, uses, verified, last>>
  BY DEF SetupCrash
<1>2. SetupTypeOK' /\ UsedOnce'
  BY <1>1 DEF SetupIInv, SetupTypeOK, UsedOnce
<1>3. VerifiedWork' /\ OnlyVerifiedBind'
  BY <1>1 DEF SetupIInv, VerifiedWork, OnlyVerifiedBind, HasVerified, AtRest
<1>4. \A u \in Users : Binding(u)' = {}
  BY <1>1 DEF Binding, AtRest
<1>5. InFlightIsLast'
  BY <1>4 DEF InFlightIsLast
<1>6. LastConnectWins'
  BY <1>1, <1>4 DEF SetupIInv, LastConnectWins
<1> QED
  BY <1>2, <1>3, <1>5, <1>6 DEF SetupIInv

LEMMA SetupStepIInv == SetupIInv /\ [SetupNext]_setupVars => SetupIInv'
<1> SUFFICES ASSUME SetupIInv, [SetupNext]_setupVars PROVE SetupIInv'
  OBVIOUS
<1>1. CASE UNCHANGED setupVars
  <2>1. \A h \in Updates : req'[h] = req[h]
    BY <1>1 DEF setupVars
  <2>2. SetupTypeOK' /\ UsedOnce'
    BY <1>1 DEF setupVars, SetupIInv, SetupTypeOK, UsedOnce
  <2>3. VerifiedWork'
    BY <1>1 DEF setupVars, SetupIInv, VerifiedWork, HasVerified
  <2> QED
    BY <1>1, <2>1, <2>2, <2>3, QuietIInv DEF setupVars
<1>2. CASE SetupNext
  BY <1>2, VerifyIInv, CreateIInv, CreateFailsIInv, ExpireIInv, ConsumeIInv, FinishIInv,
     SetupCrashIInv DEF SetupNext
<1> QED
  BY <1>1, <1>2

(* The inductive invariant of connect codes and bindings.                  *)
THEOREM SetupInductive == SetupSpec => []SetupIInv
BY SetupInitIInv, SetupStepIInv, PTL DEF SetupSpec

(* Nobody binds a group who never passed verification.                     *)
THEOREM OnlyVerifiedUsersBind == SetupSpec => []OnlyVerifiedBind
<1>1. SetupIInv => OnlyVerifiedBind
  BY DEF SetupIInv
<1> QED
  BY <1>1, SetupInductive, PTL

(* The group connected last is the one bound, but for overlaps and         *)
(* failures.                                                               *)
THEOREM LastGroupIsBound == SetupSpec => []LastConnectWins
<1>1. SetupIInv => LastConnectWins
  BY DEF SetupIInv
<1> QED
  BY <1>1, SetupInductive, PTL
=============================================================================
