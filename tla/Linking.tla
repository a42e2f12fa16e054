------------------------------- MODULE Linking -------------------------------
(***************************************************************************)
(* Who owns a service's user_ref: link codes (store/codes.go), their       *)
(* redemption by POST /v1/link (ingest.handleLink, store/identity.go), the *)
(* operator's link and unlink (store/admin.go) and the identity the first  *)
(* /start claims (store/users.go).                                         *)
(*                                                                         *)
(* handleLink looks the code up first and redeems it in a transaction of   *)
(* its own, so other handlers, the clock and the operator act in between.  *)
(* LinkIdentity begins with a write, so SQLite serialises it against every *)
(* other writer: one action. A rolled back transaction changes nothing.    *)
(***************************************************************************)
EXTENDS Integers

CONSTANTS Services, Refs, Users,
          Codes,       \* the 6-digit codes; newCode may draw one twice
          Requests,    \* HTTP handler goroutines inside handleLink
          NoUser,      \* no service_users row
          AutoService, \* 'govpn'
          AutoRef      \* 'admin'

ASSUME NoUserAssumption == NoUser \notin Users
ASSUME AutoAssumption == AutoService \in Services /\ AutoRef \in Refs
ASSUME PopulationAssumption == Users # {} /\ Codes # {}

Identities == Services \X Refs
GovpnAdmin == <<AutoService, AutoRef>>

VARIABLES code,     \* link_codes
          owner,    \* service_users: user_id and status of each identity
          sub,      \* subscriptions: no row, or whether it is muted
          req,      \* what each handler is doing
          granting, \* AdminLink calls between their two statements
          halved,   \* observer: AdminLink calls without their second statement
          links     \* successful redemptions of each code

vars == <<code, owner, sub, req, granting, halved, links>>

NoCode == [state |-> "none"]
Unowned == [user |-> NoUser, status |-> "active"]
Idle == [pc |-> "idle"]

Init ==
  /\ code = [c \in Codes |-> NoCode]
  /\ owner = [i \in Identities |-> Unowned]
  /\ sub = [p \in Users \X Services |-> "none"]
  /\ req = [q \in Requests |-> Idle]
  /\ granting = {}
  /\ halved = {}
  /\ links = [c \in Codes |-> 0]

-----------------------------------------------------------------------------
(* Link codes. *)

(* CreateLinkCode: a plain INSERT, which fails if the code was ever drawn. *)
CreateLinkCode(c, s, u) ==
  /\ code[c] = NoCode
  /\ code' = [code EXCEPT ![c] = [state |-> "fresh", service |-> s, user |-> u,
                                  expired |-> FALSE]]
  /\ UNCHANGED <<owner, sub, req, granting, halved, links>>

(* expires_at passes. *)
Expire(c) ==
  /\ code[c].state = "fresh"
  /\ ~ code[c].expired
  /\ code' = [code EXCEPT ![c].expired = TRUE]
  /\ UNCHANGED <<owner, sub, req, granting, halved, links>>

(* UserIDForLinkCode knows the code, and it is neither used nor expired. *)
LookupOk(c) == code[c].state = "fresh" /\ ~ code[c].expired

(* Mutant: the UPDATE does not ask for used_at IS NULL. *)
ConsumableTwice(c, u) ==
  code[c].state \in {"fresh", "used"} /\ ~ code[c].expired /\ code[c].user = u

(* The WHERE of LinkIdentity's UPDATE. *)
Consumable(c, u) == code[c].state = "fresh" /\ ~ code[c].expired /\ code[c].user = u

-----------------------------------------------------------------------------
(* POST /v1/link from the service s. *)

(* UserIDForLinkCode; otherwise the handler answers code_invalid. *)
Lookup(q, s, r, c) ==
  /\ req[q].pc = "idle"
  /\ LookupOk(c)
  /\ req' = [req EXCEPT ![q] = [pc |-> "link", id |-> <<s, r>>, code |-> c,
                                user |-> code[c].user]]
  /\ UNCHANGED <<code, owner, sub, granting, halved, links>>

(* No row, or a row of the same user; status is not looked at. *)
FreeFor(i, u) == owner[i].user \in {NoUser, u}

Redeemable(q) == Consumable(req[q].code, req[q].user) /\ FreeFor(req[q].id, req[q].user)

(* code_invalid, or already_linked: rolled back, so the code stays fresh. *)
LinkRefused(q) ==
  /\ req[q].pc = "link"
  /\ ~ Redeemable(q)
  /\ req' = [req EXCEPT ![q] = Idle]
  /\ UNCHANGED <<code, owner, sub, granting, halved, links>>

(* Any other error, of a busy database or an ended request: rolled back. *)
LinkFails(q) ==
  /\ req[q].pc = "link"
  /\ req' = [req EXCEPT ![q] = Idle]
  /\ UNCHANGED <<code, owner, sub, granting, halved, links>>

(* Mutant: the subscription is left to somebody else. *)
NoSubscription(u, s) == sub

(* INSERT ... ON CONFLICT DO UPDATE SET muted=0. *)
Subscribed(u, s) == [sub EXCEPT ![<<u, s>>] = "on"]

Used(c) == [code EXCEPT ![c].state = "used"]

(* Mutant: the row moves to the user, as AdminLink does it. *)
Rebound(i, u) == [user |-> u, status |-> "active"]

(* INSERT ... ON CONFLICT DO UPDATE SET status='active': the user stays. *)
Bound(i, u) ==
  [user |-> IF owner[i].user = NoUser THEN u ELSE owner[i].user, status |-> "active"]

Commit(q) ==
  LET i == req[q].id
      u == req[q].user
      c == req[q].code
  IN /\ code' = Used(c)
     /\ owner' = [owner EXCEPT ![i] = Bound(i, u)]
     /\ sub' = Subscribed(u, i[1])
     /\ links' = [links EXCEPT ![c] = @ + 1]
     /\ req' = [req EXCEPT ![q] = Idle]
     /\ UNCHANGED <<granting, halved>>

(* LinkIdentity commits. *)
LinkIdentity(q) ==
  /\ req[q].pc = "link"
  /\ Redeemable(q)
  /\ Commit(q)

(* It commits for an identity of somebody else: the SELECT of the owner    *)
(* failed, which is taken for an identity without a row.                   *)
LinkUnseen(q) ==
  /\ req[q].pc = "link"
  /\ Consumable(req[q].code, req[q].user)
  /\ ~ FreeFor(req[q].id, req[q].user)
  /\ Commit(q)

-----------------------------------------------------------------------------
(* The operator and /start. *)

(* AdminLink, its first statement: the row moves to the user, whoever had it. *)
AdminLinkOwner(i, u) ==
  /\ owner' = [owner EXCEPT ![i] = [user |-> u, status |-> "active"]]
  /\ granting' = granting \cup {<<u, i[1]>>}
  /\ UNCHANGED <<code, sub, req, halved, links>>

(* Its second statement: ON CONFLICT DO NOTHING. *)
AdminLinkSub(u, s) ==
  /\ <<u, s>> \in granting
  /\ granting' = granting \ {<<u, s>>}
  /\ sub' = IF sub[<<u, s>>] = "none" THEN [sub EXCEPT ![<<u, s>>] = "on"] ELSE sub
  /\ UNCHANGED <<code, owner, req, halved, links>>

(* It fails, or the process dies before it. *)
AdminLinkSubFails(u, s) ==
  /\ <<u, s>> \in granting
  /\ granting' = granting \ {<<u, s>>}
  /\ halved' = halved \cup {<<u, s>>}
  /\ UNCHANGED <<code, owner, sub, req, links>>

(* The row stays, and with it the claim on the user_ref. *)
AdminUnlink(i) ==
  /\ owner[i].user # NoUser
  /\ owner' = [owner EXCEPT ![i].status = "unlinked"]
  /\ UNCHANGED <<code, sub, req, granting, halved, links>>

(* /start: INSERT OR IGNORE, and no subscription. *)
ClaimGovpnAdmin(u) ==
  /\ owner[GovpnAdmin].user = NoUser
  /\ owner' = [owner EXCEPT ![GovpnAdmin] = [user |-> u, status |-> "active"]]
  /\ UNCHANGED <<code, sub, req, granting, halved, links>>

(* /menu: the UPDATE changes no row when there is none. *)
SetMuted(u, s) ==
  /\ sub[<<u, s>>] = "on"
  /\ sub' = [sub EXCEPT ![<<u, s>>] = "muted"]
  /\ UNCHANGED <<code, owner, req, granting, halved, links>>

Next == \/ \E c \in Codes, s \in Services, u \in Users : CreateLinkCode(c, s, u)
        \/ \E c \in Codes : Expire(c)
        \/ \E q \in Requests, s \in Services, r \in Refs, c \in Codes : Lookup(q, s, r, c)
        \/ \E q \in Requests : LinkRefused(q) \/ LinkFails(q) \/ LinkIdentity(q) \/ LinkUnseen(q)
        \/ \E i \in Identities, u \in Users : AdminLinkOwner(i, u)
        \/ \E u \in Users, s \in Services : AdminLinkSub(u, s) \/ AdminLinkSubFails(u, s)
        \/ \E i \in Identities : AdminUnlink(i)
        \/ \E u \in Users : ClaimGovpnAdmin(u)
        \/ \E u \in Users, s \in Services : SetMuted(u, s)

Spec == Init /\ [][Next]_vars
-----------------------------------------------------------------------------
IssuedCode == [state : {"fresh", "used"}, service : Services, user : Users,
               expired : BOOLEAN]
Redeeming == [pc : {"link"}, id : Identities, code : Codes, user : Users]

(* Every variable has its type. *)
TypeOK ==
  /\ code \in [Codes -> {NoCode} \cup IssuedCode]
  /\ owner \in [Identities -> [user : Users \cup {NoUser}, status : {"active", "unlinked"}]]
  /\ sub \in [Users \X Services -> {"none", "on", "muted"}]
  /\ req \in [Requests -> {Idle} \cup Redeeming]
  /\ granting \in SUBSET (Users \X Services)
  /\ halved \in SUBSET (Users \X Services)
  /\ links \in [Codes -> Nat]

(* A code links one identity at most, whatever handlers redeem it at the   *)
(* same time, and a refused or rolled back redemption does not burn it.    *)
UsedOnce ==
  \A c \in Codes : links[c] = IF code[c].state = "used" THEN 1 ELSE 0

(* A code that expired between the lookup and the transaction is not       *)
(* redeemed.                                                               *)
ExpiredStaysUnused ==
  [][\A c \in Codes : code[c].state = "fresh" /\ code[c].expired => code'[c] = code[c]]_vars

(* Only the operator takes an identity away from its user: neither a code  *)
(* nor the first /start does, whichever comes first, even when the owner   *)
(* could not be read.                                                      *)
NoTakeover ==
  [][(\E i \in Identities : owner[i].user \notin {NoUser, owner'[i].user})
       => \E i \in Identities, u \in Users : AdminLinkOwner(i, u)]_vars

(* The owner of an identity has a subscription row, without which the      *)
(* mute button does nothing, by whichever of codes and operator the        *)
(* identity came and however often it moved. The code does not promise it  *)
(* of what /start claims, nor of an AdminLink whose second statement is    *)
(* still to come or failed or never ran: that one has no row until         *)
(* somebody links anew.                                                    *)
OwnersSubscribe ==
  \A i \in Identities \ {GovpnAdmin} : owner[i].user # NoUser =>
    \/ sub[<<owner[i].user, i[1]>>] # "none"
    \/ <<owner[i].user, i[1]>> \in granting \cup halved

(* A handler works for the user the code was issued to. *)
RequestsAreHonest ==
  \A q \in Requests : req[q].pc = "link" =>
    code[req[q].code].state # "none" /\ code[req[q].code].user = req[q].user

IInv == TypeOK /\ UsedOnce /\ OwnersSubscribe /\ RequestsAreHonest

(* SPEC, security 5: "link codes are only redeemable by the owning         *)
(* service" (E-13, LINK-1). Neither the lookup nor the UPDATE compares it. *)
OwningService ==
  [][\A q \in Requests : LinkIdentity(q) => code[req[q].code].service = req[q].id[1]]_vars

(* README: "Every linked service also gets a subscriptions row". *)
EveryLinkSubscribes ==
  \A i \in Identities : owner[i].user # NoUser =>
    \/ sub[<<owner[i].user, i[1]>>] # "none"
    \/ <<owner[i].user, i[1]>> \in granting
=============================================================================
