--------------------------------- MODULE Menu ---------------------------------
(***************************************************************************)
(* The /menu keyboard of one user and one service (menu/menu_kb.go), the   *)
(* subscriptions row it edits (store/subscriptions.go) and the filter of   *)
(* ResolveRoutes that reads the row.                                       *)
(*                                                                         *)
(* Every update is handled in a goroutine of its own.  A tap on a type     *)
(* reads the list, changes it in memory and writes it back, and then reads *)
(* the row again, column by column, to draw the keyboard; taps, redemptions*)
(* of codes and the operator act between any two of those statements.      *)
(*                                                                         *)
(* event_types is a set here: the code appends a type only if the list it  *)
(* read does not contain it, and nothing looks at the order.               *)
(***************************************************************************)
CONSTANTS Types,    \* the service's types in the catalog: the buttons
          Handlers, \* goroutines that handle an update
          NoRow,    \* no subscriptions row
          NoScreen, \* no level-2 keyboard was ever shown
          Screen    \* the keyboard last shown, as a member of current

ASSUME ScreenAssumption == Screen \notin Handlers
ASSUME RowAssumption == NoRow \notin [muted : BOOLEAN, types : SUBSET Types]

VARIABLES row,     \* the subscriptions row
          linked,  \* an identity of the service is the user's and active
          listed,  \* a level-1 keyboard with the service's button was shown
          handler, \* what each handler is doing
          screen,  \* the level-2 keyboard shown last
          want,    \* those stored at the last link, and then what taps ask for
          blurred, \* the types a tap since then may have left otherwise
          current  \* who read the row, and all of it after its last change

vars == <<row, linked, listed, handler, screen, want, blurred, current>>

Idle == [pc |-> "idle"]
Tapping(h) == handler[h].pc \in {"read", "write"}
InFlight == {handler[h].typ : h \in {g \in Handlers : Tapping(g)}}

Init ==
  /\ row = NoRow /\ linked = FALSE /\ listed = FALSE
  /\ handler = [h \in Handlers |-> Idle]
  /\ screen = NoScreen
  /\ want = {} /\ blurred = {} /\ current = {}

-----------------------------------------------------------------------------
(* The row: what the two SELECTs return, and what the writers make of it.  *)

SubscriptionMuted == row # NoRow /\ row.muted
EventTypesEnabled == IF row = NoRow THEN {} ELSE row.types

(* Mutant: the query does not ask for the mute flag. *)
RoutedMuted(t) == linked /\ (EventTypesEnabled = {} \/ t \in EventTypesEnabled)

(* ResolveRoutes delivers an event of type t to the user. *)
Routed(t) ==
  /\ linked
  /\ ~ SubscriptionMuted
  /\ EventTypesEnabled = {} \/ t \in EventTypesEnabled

(* Mutant: the mute flag is written with a row of its own. *)
SetMutedAnew == IF row = NoRow THEN NoRow ELSE [muted |-> TRUE, types |-> {}]

(* Both UPDATEs change nothing if there is no row. *)
SetMuted == IF row = NoRow THEN NoRow ELSE [row EXCEPT !.muted = TRUE]

SetEventTypes(types) == IF row = NoRow THEN NoRow ELSE [row EXCEPT !.types = types]

NewRow == [muted |-> FALSE, types |-> {}]

(* INSERT ... ON CONFLICT DO UPDATE SET muted=0: event_types are kept. *)
Subscribe == IF row = NoRow THEN NewRow ELSE [row EXCEPT !.muted = FALSE]

(* The row is written: whoever read it before, and the keyboard, are old. *)
Write(new, readers) ==
  /\ row' = new
  /\ current' = IF new = row THEN current \cup readers ELSE readers

-----------------------------------------------------------------------------
(* Other writers. *)

(* LinkIdentity commits.  The observer takes what is stored now for what   *)
(* is wanted, whatever a new link makes of it; taps under way stay blurred.*)
LinkIdentity ==
  /\ linked' = TRUE
  /\ Write(Subscribe, {})
  /\ want' = EventTypesEnabled'
  /\ blurred' = IF InFlight = {} THEN {} ELSE blurred \cup InFlight
  /\ UNCHANGED <<listed, handler, screen>>

(* AdminLink's first statement. *)
AdminLinkOwner ==
  /\ linked' = TRUE
  /\ UNCHANGED <<row, listed, handler, screen, want, blurred, current>>

(* Its second statement: ON CONFLICT DO NOTHING. *)
AdminLinkSub ==
  /\ row = NoRow
  /\ Write(NewRow, {})
  /\ UNCHANGED <<linked, listed, handler, screen, want, blurred>>

AdminUnlink ==
  /\ linked' = FALSE
  /\ UNCHANGED <<row, listed, handler, screen, want, blurred, current>>

-----------------------------------------------------------------------------
(* Updates.  Telegram keeps every keyboard: a button once shown stays.     *)

(* /menu and Back: the services of the active links, each with a button.   *)
(* Nothing depends on the mute icon, so the reads and the call are one.    *)
MenuLevel1 ==
  /\ linked
  /\ listed' = TRUE
  /\ UNCHANGED <<row, linked, handler, screen, want, blurred, current>>

Goto(h, state) == handler' = [handler EXCEPT ![h] = state]

(* The service's button: menuLevel2 begins. *)
TapService(h) ==
  /\ listed /\ handler[h] = Idle
  /\ Goto(h, [pc |-> "muted"])
  /\ current' = current \cup {h}
  /\ UNCHANGED <<row, linked, listed, screen, want, blurred>>

(* A type's button; the type is wanted if it was not, and the other way.   *)
TapType(h, t) ==
  /\ screen # NoScreen /\ handler[h] = Idle
  /\ Goto(h, [pc |-> "read", typ |-> t])
  /\ want' = IF t \in want THEN want \ {t} ELSE want \cup {t}
  /\ blurred' = IF InFlight = {} THEN blurred ELSE blurred \cup InFlight \cup {t}
  /\ UNCHANGED <<row, linked, listed, screen, current>>

ReadEnabled(h) ==
  /\ handler[h].pc = "read"
  /\ Goto(h, [pc |-> "write", typ |-> handler[h].typ, cur |-> EventTypesEnabled])
  /\ UNCHANGED <<row, linked, listed, screen, want, blurred, current>>

(* The error is discarded, and the list is nil: what is written next holds *)
(* the tapped type and none of those stored now.                           *)
ReadEnabledFails(h) ==
  /\ handler[h].pc = "read"
  /\ Goto(h, [pc |-> "write", typ |-> handler[h].typ, cur |-> {}])
  /\ blurred' = blurred \cup EventTypesEnabled
  /\ UNCHANGED <<row, linked, listed, screen, want, current>>

(* removeStr or append. *)
Toggled(cur, t) == IF t \in cur THEN cur \ {t} ELSE cur \cup {t}

WriteTypes(h) ==
  LET t == handler[h].typ IN
  /\ handler[h].pc = "write"
  /\ Write(SetEventTypes(Toggled(handler[h].cur, t)), {h})
  /\ blurred' = IF row = NoRow THEN blurred \cup {t} ELSE blurred
  /\ Goto(h, [pc |-> "muted"])
  /\ UNCHANGED <<linked, listed, screen, want>>

(* The error is discarded and the keyboard drawn all the same. *)
WriteTypesFails(h) ==
  /\ handler[h].pc = "write"
  /\ blurred' = blurred \cup {handler[h].typ}
  /\ current' = current \cup {h}
  /\ Goto(h, [pc |-> "muted"])
  /\ UNCHANGED <<row, linked, listed, screen, want>>

(* The last button, whatever it reads. *)
TapMute(h) ==
  /\ screen # NoScreen /\ handler[h] = Idle
  /\ Write(SetMuted, {h})
  /\ Goto(h, [pc |-> "muted"])
  /\ UNCHANGED <<linked, listed, screen, want, blurred>>

(* The error is discarded. *)
TapMuteFails(h) ==
  /\ screen # NoScreen /\ handler[h] = Idle
  /\ current' = current \cup {h}
  /\ Goto(h, [pc |-> "muted"])
  /\ UNCHANGED <<row, linked, listed, screen, want, blurred>>

-----------------------------------------------------------------------------
(* menuLevel2: two SELECTs and the call. *)

ReadMuted(h) ==
  /\ handler[h].pc = "muted"
  /\ Goto(h, [pc |-> "types", muted |-> SubscriptionMuted])
  /\ UNCHANGED <<row, linked, listed, screen, want, blurred, current>>

ReadTypes(h) ==
  /\ handler[h].pc = "types"
  /\ Goto(h, [pc |-> "send", muted |-> handler[h].muted, on |-> EventTypesEnabled])
  /\ UNCHANGED <<row, linked, listed, screen, want, blurred, current>>

(* The query fails and its error is discarded: not muted, no types. *)
ReadMutedFails(h) ==
  /\ handler[h].pc = "muted"
  /\ Goto(h, [pc |-> "types", muted |-> FALSE])
  /\ current' = current \ {h}
  /\ UNCHANGED <<row, linked, listed, screen, want, blurred>>

ReadTypesFails(h) ==
  /\ handler[h].pc = "types"
  /\ Goto(h, [pc |-> "send", muted |-> handler[h].muted, on |-> {}])
  /\ current' = current \ {h}
  /\ UNCHANGED <<row, linked, listed, screen, want, blurred>>

(* SendKeyboard: a new message, below the older keyboards. *)
SendKeyboard(h) ==
  /\ handler[h].pc = "send"
  /\ screen' = [muted |-> handler[h].muted, on |-> handler[h].on]
  /\ current' = IF h \in current THEN (current \ {h}) \cup {Screen}
                ELSE current \ {Screen}
  /\ Goto(h, Idle)
  /\ UNCHANGED <<row, linked, listed, want, blurred>>

(* Telegram refuses, or the process dies before the call. *)
KeyboardLost(h) ==
  /\ handler[h].pc \in {"muted", "types", "send"}
  /\ current' = current \ {h}
  /\ Goto(h, Idle)
  /\ UNCHANGED <<row, linked, listed, screen, want, blurred>>

(* The process dies: a tap that was not written never is. *)
Crash ==
  /\ handler' = [h \in Handlers |-> Idle]
  /\ blurred' = blurred \cup InFlight
  /\ current' = current \cap {Screen}
  /\ UNCHANGED <<row, linked, listed, screen, want>>

Draw(h) ==
  \/ ReadMuted(h) \/ ReadMutedFails(h) \/ ReadTypes(h) \/ ReadTypesFails(h)
  \/ SendKeyboard(h) \/ KeyboardLost(h)

HandlerStep(h) ==
  \/ TapService(h) \/ TapMute(h) \/ TapMuteFails(h) \/ \E t \in Types : TapType(h, t)
  \/ ReadEnabled(h) \/ ReadEnabledFails(h) \/ WriteTypes(h) \/ WriteTypesFails(h)
  \/ Draw(h)

Next ==
  \/ LinkIdentity \/ AdminLinkOwner \/ AdminLinkSub \/ AdminUnlink \/ MenuLevel1
  \/ \E h \in Handlers : HandlerStep(h)
  \/ Crash

Spec == Init /\ [][Next]_vars

-----------------------------------------------------------------------------
(* Properties. *)

Row == [muted : BOOLEAN, types : SUBSET Types]
HandlerState ==
  [pc : {"idle", "muted"}] \cup [pc : {"read"}, typ : Types]
  \cup [pc : {"write"}, typ : Types, cur : SUBSET Types]
  \cup [pc : {"types"}, muted : BOOLEAN]
  \cup [pc : {"send"}, muted : BOOLEAN, on : SUBSET Types]

(* The variables have their types. *)
TypeOK ==
  /\ row \in Row \cup {NoRow}
  /\ linked \in BOOLEAN /\ listed \in BOOLEAN
  /\ handler \in [Handlers -> HandlerState]
  /\ screen \in [muted : BOOLEAN, on : SUBSET Types] \cup {NoScreen}
  /\ want \subseteq Types /\ blurred \subseteq Types
  /\ current \subseteq Handlers \cup {Screen}

(* Since the last link, a type is in the stored list exactly if taps asked *)
(* for it: other taps, even failed or overlapping ones, mutes and the      *)
(* operator neither enable nor disable it.  Excepted are the types whose   *)
(* own tap overlapped another, met no row or was not written, and those    *)
(* stored when a tap could not read the list: such a tap wipes them all.   *)
TogglesAreKept ==
  \A t \in Types \ (blurred \cup InFlight) : t \in EventTypesEnabled <=> t \in want

(* While nothing changed the row since a keyboard was drawn, the keyboard  *)
(* tells what ResolveRoutes does: Unmute means that nothing is delivered,  *)
(* and otherwise, once a type is chosen, the ticked types and no other are.*)
ScreenIsTrue ==
  (Screen \in current /\ linked) =>
    \A t \in Types :
      /\ screen.muted => ~ Routed(t)
      /\ (~ screen.muted /\ screen.on # {}) => (t \in screen.on <=> Routed(t))

(* The inductive invariant.  Taps in flight together blur each other, so a *)
(* list that is about to be written is stale only in blurred types, and    *)
(* the row misses exactly the tap in flight; who counts as current has     *)
(* read what the row says.                                                 *)
TapsBlur ==
  \A g, h \in Handlers : g # h /\ Tapping(g) /\ Tapping(h) => handler[g].typ \in blurred

PendingTap ==
  \A h \in Handlers : Tapping(h) /\ handler[h].typ \notin blurred =>
    (handler[h].typ \in EventTypesEnabled <=> handler[h].typ \notin want)

ListIsFresh ==
  \A h \in Handlers : handler[h].pc = "write" =>
    \A t \in Types \ blurred : t \in handler[h].cur <=> t \in EventTypesEnabled

ReadersAreCurrent ==
  \A h \in Handlers \cap current :
    /\ handler[h].pc \in {"muted", "types", "send"}
    /\ handler[h].pc # "muted" => handler[h].muted = SubscriptionMuted
    /\ handler[h].pc = "send" => handler[h].on = EventTypesEnabled

ScreenIsCurrent ==
  Screen \in current => screen = [muted |-> SubscriptionMuted, on |-> EventTypesEnabled]

TapsAreTracked == TogglesAreKept /\ TapsBlur /\ PendingTap /\ ListIsFresh
ViewsAreTrue == ReadersAreCurrent /\ ScreenIsCurrent

IInv == TypeOK /\ TapsAreTracked /\ ViewsAreTrue

(* Not a property of this code (README.md, section 5): a tap changes no    *)
(* type but its own.  It does after a read that failed or is old.          *)
TapsChangeOneType ==
  [][\A h \in Handlers : WriteTypes(h) =>
       \A t \in Types \ {handler[h].typ} : (t \in EventTypesEnabled)' = (t \in EventTypesEnabled)]_vars

(* Not a property of this code (README.md, section 5): the ticks tell what *)
(* is delivered also while no type is chosen.                              *)
IconsTellRouting ==
  (Screen \in current /\ linked /\ ~ screen.muted) =>
    \A t \in Types : t \in screen.on <=> Routed(t)

(* Not a property of this code (README.md, section 5): a tap on the button *)
(* that reads Unmute unmutes.                                              *)
UnmuteUnmutes ==
  [][\A h \in Handlers :
       TapMute(h) /\ Screen \in current /\ screen.muted => ~ SubscriptionMuted']_vars
=============================================================================
