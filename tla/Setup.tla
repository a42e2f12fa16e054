-------------------------------- MODULE Setup --------------------------------
(***************************************************************************)
(* The connect code between /setup and /connect (menu/setup.go,            *)
(* store/codes.go): /setup's button verifies the group it was pressed in   *)
(* and issues a code, and /connect redeems the code and binds the group it *)
(* was sent from.                                                          *)
(*                                                                         *)
(* The bot runs each update in a goroutine of its own. Verification reads  *)
(* only Telegram, so its three calls are one action; what it found may     *)
(* have changed by the next. ClearUserTopics, after the binding, touches   *)
(* only the topics: see Destination. A transaction here begins with its    *)
(* UPDATE, which SQLite serialises with every other writer: one action.    *)
(*                                                                         *)
(* The names Menu has too begin with Setup here, so that MenuProofs can    *)
(* extend both modules of package menu.                                    *)
(***************************************************************************)
EXTENDS Integers

CONSTANTS Users,
          Groups,    \* chats /connect is accepted from
          DM,        \* delivery_mode is 'dm'
          Codes,     \* the 6-digit codes; newCode may draw one twice
          Updates,   \* update goroutines
          MaxDraws   \* bound: codes issued

ASSUME GroupAssumption == DM \notin Groups
ASSUME UserAssumption == Users # {}
ASSUME DrawAssumption == MaxDraws \in Nat

VARIABLES code,       \* connect_codes
          group,      \* users.delivery_mode and group_chat_id
          req,        \* what each goroutine is doing
          draws,      \* codes issued so far
          uses,       \* redemptions of each code since it was issued last
          verified,   \* users and groups that passed verifySetup
          last,       \* the group of each user's last redemption
          overlapped  \* users whose last redemption met another, or was cut short

setupVars == <<code, group, req, draws, uses, verified, last, overlapped>>

NoCode == [state |-> "none"]
AtRest == [pc |-> "idle"]

SetupInit ==
  /\ code = [c \in Codes |-> NoCode]
  /\ group = [u \in Users |-> DM]
  /\ req = [h \in Updates |-> AtRest]
  /\ draws = 0
  /\ uses = [c \in Codes |-> 0]
  /\ verified = {}
  /\ last = [u \in Users |-> DM]
  /\ overlapped = {}

(* Goroutines that redeemed a code of u and have not bound its group yet. *)
Binding(u) == {h \in Updates : req[h].pc = "bind" /\ req[h].user = u}

-----------------------------------------------------------------------------
(* The button of /setup. *)

(* A forum whose topics the bot manages and whose admin pressed. *)
VerifySetup(h, u, g) ==
  /\ req[h].pc = "idle"
  /\ req' = [req EXCEPT ![h] = [pc |-> "issue", user |-> u]]
  /\ verified' = verified \cup {<<u, g>>}
  /\ UNCHANGED <<code, group, draws, uses, last, overlapped>>

(* INSERT OR REPLACE: the row may be another user's, used or not. *)
CreateConnectCode(h, c) ==
  /\ req[h].pc = "issue"
  /\ draws < MaxDraws
  /\ code' = [code EXCEPT ![c] = [state |-> "fresh", user |-> req[h].user, expired |-> FALSE]]
  /\ uses' = [uses EXCEPT ![c] = 0]
  /\ draws' = draws + 1
  /\ req' = [req EXCEPT ![h] = AtRest]
  /\ UNCHANGED <<group, verified, last, overlapped>>

(* "Internal error - try again." *)
CreateFails(h) ==
  /\ req[h].pc = "issue"
  /\ req' = [req EXCEPT ![h] = AtRest]
  /\ UNCHANGED <<code, group, draws, uses, verified, last, overlapped>>

(* expires_at passes. *)
Expire(c) ==
  /\ code[c].state = "fresh"
  /\ ~ code[c].expired
  /\ code' = [code EXCEPT ![c].expired = TRUE]
  /\ UNCHANGED <<group, req, draws, uses, verified, last, overlapped>>

-----------------------------------------------------------------------------
(* /connect. *)

(* Mutant: the UPDATE does not ask for user_id. *)
ConsumableByAnyone(c, u) == code[c].state = "fresh" /\ ~ code[c].expired

(* The WHERE of ConsumeConnectCode's UPDATE. *)
Consumable(c, u) == code[c].state = "fresh" /\ ~ code[c].expired /\ code[c].user = u

Used(c) == [code EXCEPT ![c].state = "used"]

(* ConsumeConnectCode commits; an UPDATE of no row only sends an answer. *)
ConsumeConnectCode(h, u, g, c) ==
  /\ req[h].pc = "idle"
  /\ Consumable(c, u)
  /\ code' = Used(c)
  /\ uses' = [uses EXCEPT ![c] = @ + 1]
  /\ req' = [req EXCEPT ![h] = [pc |-> "bind", user |-> u, chat |-> g]]
  /\ last' = [last EXCEPT ![u] = g]
  /\ overlapped' = IF Binding(u) = {} THEN overlapped \ {u} ELSE overlapped \cup {u}
  /\ UNCHANGED <<group, draws, verified>>

(* Mutant: only the first /connect of a user is stored. *)
BoundOnce(u, g) == [group EXCEPT ![u] = IF @ = DM THEN g ELSE @]

Bound(u, g) == [group EXCEPT ![u] = g]

SetDeliveryMode(h) ==
  /\ req[h].pc = "bind"
  /\ group' = Bound(req[h].user, req[h].chat)
  /\ req' = [req EXCEPT ![h] = AtRest]
  /\ UNCHANGED <<code, draws, uses, verified, last, overlapped>>

(* "Setup failed to save.": the code stays used. *)
SaveFails(h) ==
  /\ req[h].pc = "bind"
  /\ req' = [req EXCEPT ![h] = AtRest]
  /\ overlapped' = overlapped \cup {req[h].user}
  /\ UNCHANGED <<code, group, draws, uses, verified, last>>

(* The process dies with its goroutines. *)
SetupCrash ==
  /\ req' = [h \in Updates |-> AtRest]
  /\ overlapped' = overlapped \cup {u \in Users : Binding(u) # {}}
  /\ UNCHANGED <<code, group, draws, uses, verified, last>>

SetupNext ==
  \/ \E h \in Updates, u \in Users, g \in Groups : VerifySetup(h, u, g)
  \/ \E h \in Updates, c \in Codes : CreateConnectCode(h, c)
  \/ \E h \in Updates : CreateFails(h) \/ SetDeliveryMode(h) \/ SaveFails(h)
  \/ \E c \in Codes : Expire(c)
  \/ \E h \in Updates, u \in Users, g \in Groups, c \in Codes :
       ConsumeConnectCode(h, u, g, c)
  \/ SetupCrash

SetupSpec == SetupInit /\ [][SetupNext]_setupVars
-----------------------------------------------------------------------------
IssuedCode == [state : {"fresh", "used"}, user : Users, expired : BOOLEAN]
Issuing == [pc : {"issue"}, user : Users]
Connecting == [pc : {"bind"}, user : Users, chat : Groups]

(* Every variable has its type. *)
SetupTypeOK ==
  /\ code \in [Codes -> {NoCode} \cup IssuedCode]
  /\ group \in [Users -> Groups \cup {DM}]
  /\ req \in [Updates -> {AtRest} \cup Issuing \cup Connecting]
  /\ draws \in Nat
  /\ uses \in [Codes -> Nat]
  /\ verified \in SUBSET (Users \X Groups)
  /\ last \in [Users -> Groups \cup {DM}]
  /\ overlapped \in SUBSET Users

(* A code is redeemed once each time it is issued, also when a draw        *)
(* replaces a row that is somebody's, or that is being bound.              *)
UsedOnce == \A c \in Codes : uses[c] = IF code[c].state = "used" THEN 1 ELSE 0

HasVerified(u) == \E g \in Groups : <<u, g>> \in verified

(* Nobody binds a group who never passed verification himself, whoever     *)
(* draws, replaces or learns whose code: not every group bound was         *)
(* verified, but every user who binds one did verify some.                 *)
OnlyVerifiedBind == \A u \in Users : group[u] # DM => HasVerified(u)

(* Events go to the group that was connected last, unless two /connects of *)
(* the user overlapped, or saving the last one failed or was cut short.    *)
LastConnectWins ==
  \A u \in Users : u \notin overlapped /\ Binding(u) = {} => group[u] = last[u]

(* The inductive invariant: what is in flight was verified, and a single   *)
(* redemption in flight is the last one.                                   *)
VerifiedWork ==
  /\ \A c \in Codes : code[c].state # "none" => HasVerified(code[c].user)
  /\ \A h \in Updates : req[h].pc # "idle" => HasVerified(req[h].user)

InFlightIsLast ==
  \A u \in Users \ overlapped : \A h \in Binding(u) : Binding(u) = {h} /\ req[h].chat = last[u]

SetupIInv ==
  /\ SetupTypeOK
  /\ UsedOnce
  /\ VerifiedWork
  /\ OnlyVerifiedBind
  /\ InFlightIsLast
  /\ LastConnectWins

(* README, "The gate checks: ... the chat is a forum; the bot is an admin  *)
(* ...; you are an admin of that group": of the group that gets bound.     *)
BoundIsVerified == \A u \in Users : group[u] # DM => <<u, group[u]>> \in verified
=============================================================================
