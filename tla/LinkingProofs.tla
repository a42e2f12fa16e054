---------------------------- MODULE LinkingProofs ----------------------------
(* Proofs about Linking for every set of services, identities, users,      *)
(* codes and handlers.                                                     *)
EXTENDS Linking, TLAPS

LEMMA InitIInv == Init => IInv
<1> SUFFICES ASSUME Init PROVE IInv
  OBVIOUS
<1>1. TypeOK
  BY DEF Init, TypeOK, Unowned, Identities
<1>2. UsedOnce
  BY DEF Init, UsedOnce, NoCode
<1>3. OwnersSubscribe /\ RequestsAreHonest
  BY DEF Init, OwnersSubscribe, RequestsAreHonest, Unowned, Idle
<1> QED
  BY <1>1, <1>2, <1>3 DEF IInv

(* What is known of a handler that is about to redeem.                     *)
LEMMA RedeemingType ==
  ASSUME TypeOK, NEW q \in Requests, req[q].pc = "link"
  PROVE  /\ req[q].id \in Identities /\ req[q].id[1] \in Services
         /\ req[q].code \in Codes /\ req[q].user \in Users
BY DEF TypeOK, Idle, Redeeming, Identities

LEMMA CodeIInv ==
  ASSUME IInv, NEW c \in Codes,
         (\E s \in Services, u \in Users : CreateLinkCode(c, s, u)) \/ Expire(c)
  PROVE  IInv'
<1>1. /\ UNCHANGED <<owner, sub, req, granting, halved, links>>
      /\ \E x \in IssuedCode : /\ code' = [code EXCEPT ![c] = x]
                               /\ x.state = "fresh"
                               /\ code[c].state # "used"
                               /\ (code[c].state # "none" => x.user = code[c].user)
  <2>1. CASE \E s \in Services, u \in Users : CreateLinkCode(c, s, u)
    <3>1. PICK s \in Services, u \in Users : CreateLinkCode(c, s, u)
      BY <2>1
    <3> DEFINE x == [state |-> "fresh", service |-> s, user |-> u, expired |-> FALSE]
    <3>2. x \in IssuedCode /\ x.state = "fresh"
      BY DEF IssuedCode
    <3>3. code' = [code EXCEPT ![c] = x] /\ code[c].state = "none"
      BY <3>1 DEF CreateLinkCode, NoCode
    <3> HIDE DEF x
    <3> QED
      BY <3>1, <3>2, <3>3 DEF CreateLinkCode
  <2>2. CASE Expire(c)
    <3> DEFINE x == [code[c] EXCEPT !.expired = TRUE]
    <3>1. code[c] \in IssuedCode /\ code[c].state = "fresh"
      BY <2>2 DEF Expire, IInv, TypeOK, NoCode
    <3>2. x \in IssuedCode /\ x.state = "fresh" /\ x.user = code[c].user
      BY <3>1 DEF IssuedCode
    <3>3. code' = [code EXCEPT ![c] = x]
      BY <2>2 DEF Expire
    <3> HIDE DEF x
    <3> QED
      BY <2>2, <3>1, <3>2, <3>3 DEF Expire
  <2> QED
    BY <2>1, <2>2
<1>2. TypeOK'
  BY <1>1 DEF IInv, TypeOK
<1>3. UsedOnce'
  BY <1>1 DEF IInv, TypeOK, UsedOnce
<1>4. RequestsAreHonest'
  <2> SUFFICES ASSUME NEW q \in Requests, req[q].pc = "link"
               PROVE  code'[req[q].code].state # "none" /\ code'[req[q].code].user = req[q].user
    BY <1>1 DEF RequestsAreHonest
  <2>1. req[q].code \in Codes /\ code[req[q].code].state # "none"
        /\ code[req[q].code].user = req[q].user
    BY RedeemingType DEF IInv, RequestsAreHonest
  <2> QED
    BY <1>1, <2>1 DEF IInv, TypeOK
<1> QED
  BY <1>1, <1>2, <1>3, <1>4 DEF IInv, OwnersSubscribe

LEMMA LookupIInv ==
  ASSUME IInv, NEW q \in Requests, NEW s \in Services, NEW r \in Refs, NEW c \in Codes,
         Lookup(q, s, r, c)
  PROVE  IInv'
<1> DEFINE x == [pc |-> "link", id |-> <<s, r>>, code |-> c, user |-> code[c].user]
<1>1. code[c] \in IssuedCode
  BY DEF Lookup, LookupOk, IInv, TypeOK, NoCode
<1>2. x \in Redeeming /\ x.code = c /\ x.user = code[c].user
  BY <1>1 DEF IssuedCode, Redeeming, Identities
<1>3. req' = [req EXCEPT ![q] = x] /\ UNCHANGED <<code, owner, sub, granting, halved, links>>
      /\ code[c].state = "fresh"
  BY DEF Lookup, LookupOk
<1> HIDE DEF x
<1>4. TypeOK'
  BY <1>2, <1>3 DEF IInv, TypeOK
<1>5. RequestsAreHonest'
  BY <1>2, <1>3 DEF IInv, TypeOK, RequestsAreHonest
<1> QED
  BY <1>3, <1>4, <1>5 DEF IInv, UsedOnce, OwnersSubscribe

LEMMA RefusedIInv ==
  ASSUME IInv, NEW q \in Requests, LinkRefused(q) \/ LinkFails(q)
  PROVE  IInv'
<1>1. req' = [req EXCEPT ![q] = Idle] /\ UNCHANGED <<code, owner, sub, granting, halved, links>>
  BY DEF LinkRefused, LinkFails
<1>2. TypeOK'
  BY <1>1 DEF IInv, TypeOK
<1>3. RequestsAreHonest'
  BY <1>1 DEF IInv, TypeOK, RequestsAreHonest, Idle
<1> QED
  BY <1>1, <1>2, <1>3 DEF IInv, UsedOnce, OwnersSubscribe

LEMMA LinkIInv ==
  ASSUME IInv, NEW q \in Requests, LinkIdentity(q) \/ LinkUnseen(q)
  PROVE  IInv'
<1>1. PICK i \in Identities, u \in Users, c \in Codes :
        i = req[q].id /\ u = req[q].user /\ c = req[q].code
  BY RedeemingType DEF IInv, LinkIdentity, LinkUnseen
<1>2. i[1] \in Services /\ code[c].state = "fresh"
  BY <1>1 DEF LinkIdentity, LinkUnseen, Redeemable, Consumable, Identities
<1>3. PICK x : x = [code[c] EXCEPT !.state = "used"]
  OBVIOUS
<1>4. x \in IssuedCode /\ x.state = "used" /\ x.user = code[c].user
  <2>1. code[c] \in IssuedCode
    BY <1>1, <1>2 DEF IInv, TypeOK, NoCode
  <2> QED
    BY <2>1, <1>3 DEF IssuedCode
<1>5. /\ code' = [code EXCEPT ![c] = x]
      /\ owner' = [owner EXCEPT ![i] = Bound(i, u)]
      /\ sub' = [sub EXCEPT ![<<u, i[1]>>] = "on"]
      /\ links' = [links EXCEPT ![c] = @ + 1]
      /\ req' = [req EXCEPT ![q] = Idle]
      /\ granting' = granting /\ halved' = halved
  BY <1>1, <1>3 DEF LinkIdentity, LinkUnseen, Commit, Used, Subscribed
<1>b. /\ Bound(i, u) \in [user : Users \cup {NoUser}, status : {"active", "unlinked"}]
      /\ Bound(i, u).user = IF owner[i].user = NoUser THEN u ELSE owner[i].user
  BY DEF Bound, IInv, TypeOK
<1>6. TypeOK'
  BY <1>1, <1>2, <1>4, <1>5, <1>b DEF IInv, TypeOK
<1>7. UsedOnce'
  BY <1>1, <1>2, <1>4, <1>5 DEF IInv, TypeOK, UsedOnce
<1>8. OwnersSubscribe'
  <2> SUFFICES ASSUME NEW j \in Identities \ {GovpnAdmin}, owner'[j].user # NoUser
               PROVE  \/ sub'[<<owner'[j].user, j[1]>>] # "none"
                      \/ <<owner'[j].user, j[1]>> \in granting' \cup halved'
    BY DEF OwnersSubscribe
  <2>1. \A p \in Users \X Services : sub[p] # "none" => sub'[p] # "none"
    BY <1>5 DEF IInv, TypeOK
  <2>2. sub'[<<u, i[1]>>] # "none"
    BY <1>2, <1>5 DEF IInv, TypeOK
  <2>3. \/ owner'[j].user = owner[j].user
        \/ j = i /\ owner'[j].user = u
    BY <1>5, <1>b DEF IInv, TypeOK
  <2>4. CASE owner'[j].user = owner[j].user
    <3>1. owner[j].user \in Users /\ j[1] \in Services
      BY <2>4 DEF IInv, TypeOK, Identities
    <3>2. \/ sub[<<owner[j].user, j[1]>>] # "none"
          \/ <<owner[j].user, j[1]>> \in granting \cup halved
      BY <2>4 DEF IInv, OwnersSubscribe
    <3>3. <<owner[j].user, j[1]>> \in Users \X Services
      BY <3>1
    <3> QED
      BY <1>5, <2>1, <2>4, <3>2, <3>3
  <2>5. CASE j = i /\ owner'[j].user = u
    BY <2>2, <2>5
  <2> QED
    BY <2>3, <2>4, <2>5
<1>9. RequestsAreHonest'
  <2> SUFFICES ASSUME NEW r \in Requests, req'[r].pc = "link"
               PROVE  code'[req'[r].code].state # "none" /\ code'[req'[r].code].user = req'[r].user
    BY DEF RequestsAreHonest
  <2>1. req'[r] = req[r]
    BY <1>5 DEF IInv, TypeOK, Idle
  <2>2. req[r].code \in Codes /\ code[req[r].code].state # "none"
        /\ code[req[r].code].user = req[r].user
    BY <2>1, RedeemingType DEF IInv, RequestsAreHonest
  <2> QED
    BY <1>4, <1>5, <2>1, <2>2 DEF IInv, TypeOK
<1> QED
  BY <1>6, <1>7, <1>8, <1>9 DEF IInv

LEMMA OperatorIInv ==
  ASSUME IInv,
         \/ \E i \in Identities, u \in Users : AdminLinkOwner(i, u)
         \/ \E i \in Identities : AdminUnlink(i)
         \/ \E u \in Users : ClaimGovpnAdmin(u)
  PROVE  IInv'
<1>1. UNCHANGED <<code, sub, req, links>> /\ halved' = halved
  BY DEF AdminLinkOwner, AdminUnlink, ClaimGovpnAdmin
<1>2. CASE \E i \in Identities, u \in Users : AdminLinkOwner(i, u)
  <2>1. PICK i \in Identities, u \in Users : AdminLinkOwner(i, u)
    BY <1>2
  <2>2. i[1] \in Services
    BY DEF Identities
  <2>3. TypeOK' /\ OwnersSubscribe'
    BY <2>1, <2>2 DEF AdminLinkOwner, IInv, TypeOK, OwnersSubscribe
  <2> QED
    BY <1>1, <2>3 DEF IInv, UsedOnce, RequestsAreHonest
<1>3. CASE \E i \in Identities : AdminUnlink(i)
  <2>1. PICK i \in Identities : AdminUnlink(i)
    BY <1>3
  <2>2. TypeOK' /\ \A j \in Identities : owner'[j].user = owner[j].user
    BY <2>1 DEF AdminUnlink, IInv, TypeOK
  <2> QED
    BY <1>1, <2>1, <2>2 DEF AdminUnlink, IInv, UsedOnce, OwnersSubscribe, RequestsAreHonest
<1>4. CASE \E u \in Users : ClaimGovpnAdmin(u)
  <2>1. PICK u \in Users : ClaimGovpnAdmin(u)
    BY <1>4
  <2>2. GovpnAdmin \in Identities
    BY AutoAssumption DEF GovpnAdmin, Identities
  <2>3. TypeOK' /\ OwnersSubscribe'
    BY <2>1, <2>2 DEF ClaimGovpnAdmin, IInv, TypeOK, OwnersSubscribe
  <2> QED
    BY <1>1, <2>3 DEF IInv, UsedOnce, RequestsAreHonest
<1> QED
  BY <1>2, <1>3, <1>4

LEMMA SubscriptionIInv ==
  ASSUME IInv, NEW u \in Users, NEW s \in Services,
         AdminLinkSub(u, s) \/ AdminLinkSubFails(u, s) \/ SetMuted(u, s)
  PROVE  IInv'
<1>1. /\ UNCHANGED <<code, owner, req, links>>
      /\ granting' \in SUBSET granting /\ halved \in SUBSET halved'
      /\ halved' \in SUBSET (Users \X Services)
      /\ \A v \in Users, t \in Services :
           /\ sub[<<v, t>>] # "none" => sub'[<<v, t>>] # "none"
           /\ <<v, t>> \in granting =>
                <<v, t>> \in granting' \cup halved' \/ sub'[<<v, t>>] # "none"
  BY DEF AdminLinkSub, AdminLinkSubFails, SetMuted, IInv, TypeOK
<1>2. TypeOK'
  BY <1>1 DEF AdminLinkSub, AdminLinkSubFails, SetMuted, IInv, TypeOK
<1>3. OwnersSubscribe'
  <2> SUFFICES ASSUME NEW i \in Identities \ {GovpnAdmin}, owner'[i].user # NoUser
               PROVE  \/ sub'[<<owner'[i].user, i[1]>>] # "none"
                      \/ <<owner'[i].user, i[1]>> \in granting' \cup halved'
    BY DEF OwnersSubscribe
  <2>1. PICK v \in Users, t \in Services : v = owner[i].user /\ t = i[1]
    BY <1>1 DEF IInv, TypeOK, Identities
  <2>2. sub[<<v, t>>] # "none" \/ <<v, t>> \in granting \cup halved
    BY <1>1, <2>1 DEF IInv, OwnersSubscribe
  <2>3. sub'[<<v, t>>] # "none" \/ <<v, t>> \in granting' \cup halved'
    BY <1>1, <2>2
  <2> QED
    BY <1>1, <2>1, <2>3
<1> QED
  BY <1>1, <1>2, <1>3 DEF IInv, UsedOnce, RequestsAreHonest

LEMMA StepIInv == IInv /\ [Next]_vars => IInv'
<1> SUFFICES ASSUME IInv, [Next]_vars PROVE IInv'
  OBVIOUS
<1>1. CASE UNCHANGED vars
  BY <1>1 DEF vars, IInv, TypeOK, UsedOnce, OwnersSubscribe, RequestsAreHonest
<1>2. CASE Next
  BY <1>2, CodeIInv, LookupIInv, RefusedIInv, LinkIInv, OperatorIInv, SubscriptionIInv DEF Next
<1> QED
  BY <1>1, <1>2

-----------------------------------------------------------------------------
(* IInv is inductive, so it holds in every reachable state.                *)
THEOREM Inductive == Spec => []IInv
BY InitIInv, StepIInv, PTL DEF Spec

(* The variables keep their types.                                         *)
THEOREM TypeCorrect == Spec => []TypeOK
<1>1. IInv => TypeOK
  BY DEF IInv
<1> QED
  BY <1>1, Inductive, PTL

(* A code links at most once, and is used exactly if it linked.            *)
THEOREM CodesLinkOnce == Spec => []UsedOnce
<1>1. IInv => UsedOnce
  BY DEF IInv
<1> QED
  BY <1>1, Inductive, PTL

(* Whoever owns an identity can mute it, but for the one /start claims and *)
(* those of an AdminLink whose second statement has not run or never will. *)
THEOREM OwnersHaveRows == Spec => []OwnersSubscribe
<1>1. IInv => OwnersSubscribe
  BY DEF IInv
<1> QED
  BY <1>1, Inductive, PTL

(* No code and no /start takes an identity from its user.                  *)
THEOREM IdentitiesStay == Spec => NoTakeover
<1>1. ASSUME IInv, [Next]_vars, NEW i \in Identities, owner[i].user \notin {NoUser, owner'[i].user}
      PROVE  \E j \in Identities, u \in Users : AdminLinkOwner(j, u)
  <2> USE <1>1
  <2>1. ASSUME NEW q \in Requests, LinkIdentity(q) \/ LinkUnseen(q)
        PROVE  owner'[i].user = owner[i].user \/ owner[i].user = NoUser
    BY <2>1 DEF LinkIdentity, LinkUnseen, Commit, Bound, IInv, TypeOK
  <2>2. ASSUME NEW j \in Identities, AdminUnlink(j)
        PROVE  owner'[i].user = owner[i].user
    BY <2>2 DEF AdminUnlink, IInv, TypeOK
  <2>3. ASSUME NEW u \in Users, ClaimGovpnAdmin(u)
        PROVE  owner'[i].user = owner[i].user \/ owner[i].user = NoUser
    BY <2>3 DEF ClaimGovpnAdmin, IInv, TypeOK
  <2>4. CASE owner' = owner
    BY <2>4
  <2> QED
    BY <2>1, <2>2, <2>3, <2>4 DEF Next, vars, CreateLinkCode, Expire, Lookup, LinkRefused, LinkFails,
         AdminLinkSub, AdminLinkSubFails, SetMuted
<1>2. IInv /\ [Next]_vars =>
        [(\E i \in Identities : owner[i].user \notin {NoUser, owner'[i].user})
           => \E i \in Identities, u \in Users : AdminLinkOwner(i, u)]_vars
  BY <1>1
<1> QED
  BY <1>2, Inductive, PTL DEF Spec, NoTakeover

(* A code that expired is never redeemed, whenever it was looked up.       *)
THEOREM ExpiryIsFinal == Spec => ExpiredStaysUnused
<1>1. ASSUME IInv, [Next]_vars, NEW c \in Codes, code[c].state = "fresh", code[c].expired
      PROVE  code'[c] = code[c]
  <2> USE <1>1
  <2>1. ASSUME NEW q \in Requests, LinkIdentity(q) \/ LinkUnseen(q)
        PROVE  code'[c] = code[c]
    <3>1. req[q].code # c
      BY <2>1 DEF LinkIdentity, LinkUnseen, Redeemable, Consumable
    <3> QED
      BY <2>1, <3>1 DEF LinkIdentity, LinkUnseen, Commit, Used, IInv, TypeOK
  <2>2. ASSUME NEW d \in Codes, NEW s \in Services, NEW u \in Users, CreateLinkCode(d, s, u)
        PROVE  code'[c] = code[c]
    BY <2>2 DEF CreateLinkCode, NoCode, IInv, TypeOK
  <2>3. ASSUME NEW d \in Codes, Expire(d)
        PROVE  code'[c] = code[c]
    <3>1. c # d
      BY <2>3 DEF Expire
    <3> QED
      BY <2>3, <3>1 DEF Expire, IInv, TypeOK
  <2>4. CASE code' = code
    BY <2>4
  <2> QED
    BY <2>1, <2>2, <2>3, <2>4 DEF Next, vars, Lookup, LinkRefused, LinkFails, AdminLinkOwner, AdminLinkSub,
         AdminLinkSubFails,
         AdminUnlink, ClaimGovpnAdmin, SetMuted
<1>2. IInv /\ [Next]_vars =>
        [\A c \in Codes : code[c].state = "fresh" /\ code[c].expired => code'[c] = code[c]]_vars
  BY <1>1
<1> QED
  BY <1>2, Inductive, PTL DEF Spec, ExpiredStaysUnused
=============================================================================
