---------------------------- MODULE AdmissionProofs ----------------------------
(* Proofs about Admission for every set of services, handlers, types and    *)
(* catalogs: who is let in, who is refused, and that no signal is lost.      *)
EXTENDS Admission, TLAPS

-----------------------------------------------------------------------------
(* Facts, in the state the observer looks at, and the observer.            *)

LEMMA FactsType ==
  ASSUME NEW k \in Handlers
  PROVE  Facts(req[k])' \subseteq Services \cup {NoService}
BY DEF Facts, Owners

(* What Observe notes. *)
LEMMA Observed ==
  ASSUME NEW F, Observe(F), TypeOK
  PROVE  /\ seen' \in [Handlers -> SUBSET (Services \cup {NoService, "failed"})]
         /\ FactsAreSeen'
         /\ \A k \in Handlers : req'[k].pc # "idle" => seen[k] \subseteq seen'[k]
         /\ \A k \in F \cap Handlers : req'[k].pc # "idle" => "failed" \in seen'[k]
<1>1. \A k \in Handlers : Facts(req[k])' \subseteq Services \cup {NoService}
  BY FactsType
<1>2. \A k \in Handlers : seen[k] \in SUBSET (Services \cup {NoService, "failed"})
  BY DEF TypeOK
<1>3. \A k \in Handlers : req'[k].pc = "idle" => Facts(req[k])' = {}
  BY DEF Facts
<1>4. \A k \in Handlers :
        seen'[k] = IF req'[k].pc = "idle" THEN {}
                   ELSE seen[k] \cup Facts(req[k])' \cup {"failed" : g \in F \cap {k}}
  BY DEF Observe
<1>5. seen' \in [Handlers -> SUBSET (Services \cup {NoService, "failed"})]
  <2>1. DOMAIN seen' = Handlers /\ seen' = [k \in Handlers |-> seen'[k]]
    BY DEF Observe
  <2>2. \A k \in Handlers : {"failed" : g \in F \cap {k}} \subseteq {"failed"}
    OBVIOUS
  <2>3. \A k \in Handlers :
          seen'[k] \subseteq Services \cup {NoService, "failed"}
    <3> SUFFICES ASSUME NEW k \in Handlers
                 PROVE  seen'[k] \subseteq Services \cup {NoService, "failed"}
      OBVIOUS
    <3>1. seen[k] \subseteq Services \cup {NoService, "failed"}
      BY <1>2
    <3>2. seen'[k] \subseteq seen[k] \cup Facts(req[k])' \cup {"failed" : g \in F \cap {k}}
      BY <1>4
    <3> QED
      BY <1>1, <2>2, <3>1, <3>2
  <2> QED
    BY <2>1, <2>3
<1>6. FactsAreSeen'
  BY <1>3, <1>4 DEF FactsAreSeen
<1> QED
  BY <1>4, <1>5, <1>6

(* Requests of other handlers than h, and of all while only others act.    *)
LEMMA OthersKeep ==
  ASSUME IInv, NEW k \in Handlers, req'[k] = req[k],
         req[k].pc # "idle" => seen[k] \subseteq seen'[k]
  PROVE  /\ LetIn(k)'
         /\ req'[k].pc \in {"unauthorized", "service_unknown"} =>
              seen'[k] \cap {NoService, "failed"} # {}
<1>1. LetIn(k)
  BY DEF IInv
<1>2. LetIn(k)'
  BY <1>1 DEF LetIn
<1>3. req'[k].pc \in {"unauthorized", "service_unknown"} =>
        seen'[k] \cap {NoService, "failed"} # {}
  BY DEF IInv, RefusedForCause
<1> QED
  BY <1>2, <1>3

(* Steps of a handler: its request becomes x, and what x needs was seen.   *)
LEMMA HandlerIInv ==
  ASSUME IInv, NEW h \in Handlers, NEW x \in Request, NEW F, Observe(F),
         req' = [req EXCEPT ![h] = x], UNCHANGED <<registry, catalog>>,
         x.pc # "idle" => x.tok =< made,
         x.pc = "enabled" => \A s \in Services : current[s] = x.tok => s = x.svc,
         x.pc \in {"enabled", "body", "has", "limit", "type", "known",
                   "accepted", "dropped", "rate_limited"} => x.svc \in seen[h] \cup Facts(x),
         x.pc \in {"unauthorized", "service_unknown"} =>
           NoService \in seen[h] \cup Facts(x) \/ "failed" \in seen[h] \/ h \in F
  PROVE  IInv'
<1>1. /\ req' \in [Handlers -> Request] /\ snapshot' \in Catalogs /\ TypeOK
      /\ req'[h] = x /\ \A k \in Handlers \ {h} : req'[k] = req[k]
  BY DEF IInv, TypeOK, catalog
<1>2. /\ seen' \in [Handlers -> SUBSET (Services \cup {NoService, "failed"})]
      /\ FactsAreSeen'
      /\ \A k \in Handlers : req'[k].pc # "idle" => seen[k] \subseteq seen'[k]
      /\ \A k \in F \cap Handlers : req'[k].pc # "idle" => "failed" \in seen'[k]
  BY <1>1, Observed
<1>3. TypeOK'
  BY <1>1, <1>2 DEF TypeOK, registry, catalog
<1>4. TokensAreCurrent'
  BY <1>1 DEF IInv, TokensAreCurrent, Registered, registry
<1>5. TokenStaysOwned'
  BY <1>1 DEF IInv, TokenStaysOwned, registry
<1>6. Facts(req[h])' = Facts(x)
  BY <1>1 DEF Facts, Owners, Entitled, Enabled, Registered, registry, catalog
<1>7. x.pc # "idle" => seen[h] \cup Facts(x) \subseteq seen'[h]
  BY <1>1, <1>2, <1>6 DEF FactsAreSeen
<1>8. LetIn(h)'
  BY <1>1, <1>7 DEF LetIn
<1>9. x.pc \in {"unauthorized", "service_unknown"} =>
        seen'[h] \cap {NoService, "failed"} # {}
  BY <1>1, <1>2, <1>7
<1>11. \A k \in Handlers \ {h} :
         /\ LetIn(k)'
         /\ req'[k].pc \in {"unauthorized", "service_unknown"} =>
              seen'[k] \cap {NoService, "failed"} # {}
  BY <1>1, <1>2, OthersKeep
<1>12. RefusedForCause'
  BY <1>1, <1>9, <1>11 DEF RefusedForCause
<1>14. \A k \in Handlers : LetIn(k)'
  BY <1>8, <1>11
<1> QED
  BY <1>2, <1>3, <1>4, <1>5, <1>12, <1>14 DEF IInv

(* Steps of anybody else: the requests stay, and see more. *)
LEMMA WorldIInv ==
  ASSUME IInv, UNCHANGED req, TypeOK', FactsAreSeen', TokensAreCurrent', TokenStaysOwned',
         \A k \in Handlers : req[k].pc # "idle" => seen[k] \subseteq seen'[k]
  PROVE  IInv'
<1>1. \A k \in Handlers :
        /\ LetIn(k)'
        /\ req'[k].pc \in {"unauthorized", "service_unknown"} =>
             seen'[k] \cap {NoService, "failed"} # {}
  BY OthersKeep
<1>2. RefusedForCause'
  BY <1>1 DEF RefusedForCause
<1> QED
  BY <1>1, <1>2 DEF IInv

-----------------------------------------------------------------------------
(* The steps of a handler. *)

LEMMA PostIInv ==
  ASSUME IInv, NEW h \in Handlers, Post(h)
  PROVE  IInv'
<1>1. PICK ep \in {"events", "link"}, tok \in 0 .. made :
        req' = [req EXCEPT ![h] = [pc |-> "token", ep |-> ep, tok |-> tok]]
  BY DEF Post
<1> DEFINE x == [pc |-> "token", ep |-> ep, tok |-> tok]
<1>2. x \in Request
  <2>1. tok \in 0 .. MaxTokens /\ tok =< made
    BY MaxTokensAssumption DEF IInv, TypeOK
  <2> QED
    BY <2>1 DEF Request
<1>3. x.pc = "token" /\ x.tok =< made
  BY DEF IInv, TypeOK
<1>4. req' = [req EXCEPT ![h] = x] /\ UNCHANGED <<registry, catalog>> /\ Observe({})
  BY <1>1 DEF Post
<1> HIDE DEF x
<1> QED
  BY <1>2, <1>3, <1>4, HandlerIInv

(* Whose token it is, and that nobody else has it. *)
LEMMA VerifyTokenIInv ==
  ASSUME IInv, NEW h \in Handlers, VerifyToken(h)
  PROVE  IInv'
<1>1. PICK s \in Services :
        /\ Matches(s, req[h].tok)
        /\ req' = [req EXCEPT ![h] = [pc |-> "enabled", ep |-> @.ep, tok |-> @.tok, svc |-> s]]
  BY DEF VerifyToken
<1> DEFINE x == [pc |-> "enabled", ep |-> req[h].ep, tok |-> req[h].tok, svc |-> s]
<1>2. /\ req[h].pc = "token" /\ req[h].ep \in {"events", "link"}
      /\ req[h].tok \in 0 .. MaxTokens /\ req[h].tok =< made
  BY DEF VerifyToken, IInv, TypeOK, TokensAreCurrent, Request
<1>3. x \in Request
  BY <1>2 DEF Request
<1>4. /\ x.pc = "enabled" /\ x.tok = req[h].tok /\ x.svc = s
  OBVIOUS
<1>5. req' = [req EXCEPT ![h] = x] /\ UNCHANGED <<registry, catalog>> /\ Observe({})
  BY <1>1 DEF VerifyToken, IInv, TypeOK
<1> HIDE DEF x
<1>6. Enabled(s) /\ current[s] = x.tok /\ x.tok # 0
  <2>1. Registered(s) /\ rows[s].token = x.tok
    BY <1>1, <1>4 DEF Matches, Enabled
  <2>2. rows[s].token \in 1 .. MaxTokens
    BY <2>1 DEF Registered, IInv, TypeOK
  <2> QED
    BY <1>1, <2>1, <2>2 DEF Matches, IInv, TokensAreCurrent
<1>7. \A t \in Services : current[t] = x.tok => t = s
  BY <1>6 DEF IInv, TokensAreCurrent
<1>8. s \in Facts(x)
  BY <1>4, <1>6 DEF Facts, Owners, Entitled
<1> QED
  BY <1>2, <1>3, <1>4, <1>5, <1>7, <1>8, HandlerIInv

(* Steps that only move on: what x needs is asked of the old request.      *)
LEMMA StepRequest ==
  ASSUME IInv, NEW h \in Handlers, NEW pc, NEW F, Step(h, pc, F),
         [req[h] EXCEPT !.pc = pc] \in Request, req[h].pc # "idle",
         pc \notin {"idle", "enabled"},
         pc \in {"body", "has", "limit", "type", "known", "accepted", "dropped",
                "rate_limited"} => req[h].svc \in seen[h],
         pc \in {"unauthorized", "service_unknown"} =>
           NoService \in seen[h] \/ "failed" \in seen[h] \/ h \in F
  PROVE  IInv'
<1>1. PICK x \in Request : x = [req[h] EXCEPT !.pc = pc]
  OBVIOUS
<1>2. req[h] \in Request /\ req[h].tok =< made
  BY DEF IInv, TypeOK, TokensAreCurrent
<1>3. x.pc = pc /\ x.tok = req[h].tok /\ x.ep = req[h].ep
  BY <1>1, <1>2 DEF Request
<1>4. pc \in {"body", "has", "limit", "type", "known", "accepted", "dropped",
              "rate_limited"} => x.svc = req[h].svc
  BY <1>1, <1>2 DEF Request
<1>5. req' = [req EXCEPT ![h] = x] /\ UNCHANGED <<registry, catalog>> /\ Observe(F)
  BY <1>1 DEF Step, IInv, TypeOK
<1> QED
  BY <1>2, <1>3, <1>4, <1>5, HandlerIInv

(* A refused token: it was nobody's while it was looked for, or the query  *)
(* failed.                                                                 *)
LEMMA RefusedIInv ==
  ASSUME IInv, NEW h \in Handlers,
         TooLarge(h) \/ NoTokenMatches(h) \/ VerifyTokenFails(h)
  PROVE  IInv'
<1>1. req[h] \in Request /\ req[h].pc = "token"
  BY DEF IInv, TypeOK, TooLarge, NoTokenMatches, VerifyTokenFails
<1>2. /\ [req[h] EXCEPT !.pc = "too_large"] \in Request
      /\ [req[h] EXCEPT !.pc = "unauthorized"] \in Request
  BY <1>1 DEF Request
<1>3. CASE TooLarge(h)
  BY <1>1, <1>2, <1>3, StepRequest DEF TooLarge
<1>4. CASE NoTokenMatches(h)
  <2>1. \A s \in Services : ~ Entitled(s, req[h].tok)
    <3> SUFFICES ASSUME NEW s \in Services, Entitled(s, req[h].tok) PROVE FALSE
      OBVIOUS
    <3>1. Matches(s, req[h].tok)
      BY DEF Entitled, Enabled, Matches, IInv, TokensAreCurrent
    <3> QED
      BY <1>4, <3>1 DEF NoTokenMatches
  <2>2. Owners(req[h].tok) = {}
    BY <2>1 DEF Owners
  <2>3. NoService \in seen[h]
    BY <1>1, <2>2 DEF Facts, IInv, FactsAreSeen
  <2> QED
    BY <1>1, <1>2, <1>4, <2>3, StepRequest DEF NoTokenMatches
<1>5. CASE VerifyTokenFails(h)
  BY <1>1, <1>2, <1>5, StepRequest DEF VerifyTokenFails
<1> QED
  BY <1>3, <1>4, <1>5

(* The second query. *)
LEMMA ServiceEnabledIInv ==
  ASSUME IInv, NEW h \in Handlers, ServiceEnabled(h) \/ ServiceEnabledFails(h)
  PROVE  IInv'
<1>1. req[h] \in Request /\ req[h].pc = "enabled"
  BY DEF IInv, TypeOK, ServiceEnabled, ServiceEnabledFails
<1>2. /\ [req[h] EXCEPT !.pc = "body"] \in Request
      /\ [req[h] EXCEPT !.pc = "service_unknown"] \in Request
      /\ req[h].svc \in Services
  BY <1>1 DEF Request
<1>3. CASE ServiceEnabled(h) /\ Enabled(req[h].svc)
  <2>1. req[h].svc \in seen[h]
    BY <1>1 DEF IInv, LetIn
  <2> QED
    BY <1>1, <1>2, <1>3, <2>1, StepRequest DEF ServiceEnabled
<1>4. CASE ServiceEnabled(h) /\ ~ Enabled(req[h].svc)
  <2>1. Owners(req[h].tok) = {}
    BY <1>1, <1>4 DEF Owners, Entitled, IInv, TokenStaysOwned
  <2>2. NoService \in seen[h]
    BY <1>1, <2>1 DEF Facts, IInv, FactsAreSeen
  <2> QED
    BY <1>1, <1>2, <1>4, <2>2, StepRequest DEF ServiceEnabled
<1>5. CASE ServiceEnabledFails(h)
  BY <1>1, <1>2, <1>5, StepRequest DEF ServiceEnabledFails
<1> QED
  BY <1>3, <1>4, <1>5

LEMMA BodyIInv ==
  ASSUME IInv, NEW h \in Handlers, Malformed(h) \/ Mismatch(h)
  PROVE  IInv'
<1>1. req[h] \in Request /\ req[h].pc = "body"
  BY DEF IInv, TypeOK, Malformed, Mismatch
<1>2. /\ [req[h] EXCEPT !.pc = "schema"] \in Request
      /\ [req[h] EXCEPT !.pc = "code_mismatch"] \in Request
  BY <1>1 DEF Request
<1>3. PICK pc \in {"schema", "code_mismatch"} : Step(h, pc, {})
  BY DEF Malformed, Mismatch
<1> QED
  BY <1>1, <1>2, <1>3, StepRequest

LEMMA ValidatedIInv ==
  ASSUME IInv, NEW h \in Handlers, Validated(h)
  PROVE  IInv'
<1>1. req[h] \in Request /\ req[h].pc = "body" /\ req[h].svc \in seen[h]
  BY DEF IInv, TypeOK, LetIn, Validated
<1>2. /\ req[h].tok \in 0 .. MaxTokens /\ req[h].tok =< made /\ req[h].svc \in Services
      /\ UNCHANGED <<registry, catalog>> /\ Observe({})
  BY <1>1 DEF Request, IInv, TokensAreCurrent, Validated
<1>3. CASE req[h].ep = "link" /\ req' = [req EXCEPT ![h].pc = "has"]
  <2>1. PICK x \in Request : x = [req[h] EXCEPT !.pc = "has"]
    BY <1>1, <1>3 DEF Request
  <2>2. x.pc = "has" /\ x.tok = req[h].tok /\ x.svc = req[h].svc
    BY <1>1, <2>1 DEF Request
  <2>3. req' = [req EXCEPT ![h] = x]
    BY <1>3, <2>1 DEF IInv, TypeOK
  <2> QED
    BY <1>1, <1>2, <2>2, <2>3, HandlerIInv
<1>4. CASE /\ req[h].ep = "events"
           /\ \E t \in Types :
                req' = [req EXCEPT ![h] = [pc |-> "limit", ep |-> @.ep, tok |-> @.tok,
                                           svc |-> @.svc, type |-> t]]
  <2>1. PICK t \in Types :
          req' = [req EXCEPT ![h] = [pc |-> "limit", ep |-> @.ep, tok |-> @.tok,
                                     svc |-> @.svc, type |-> t]]
    BY <1>4
  <2> DEFINE x == [pc |-> "limit", ep |-> req[h].ep, tok |-> req[h].tok,
                   svc |-> req[h].svc, type |-> t]
  <2>2. x \in Request
    BY <1>2, <1>4 DEF Request
  <2>3. x.pc = "limit" /\ x.tok = req[h].tok /\ x.svc = req[h].svc
    OBVIOUS
  <2>4. req' = [req EXCEPT ![h] = x]
    BY <2>1 DEF IInv, TypeOK
  <2> HIDE DEF x
  <2> QED
    BY <1>1, <1>2, <2>2, <2>3, <2>4, HandlerIInv
<1> QED
  BY <1>3, <1>4 DEF Validated

(* The limiter, the drop rule, and the look-up that only counts. *)
LEMMA JudgeIInv ==
  ASSUME IInv, NEW h \in Handlers, RateLimit(h) \/ TypeFlag(h) \/ IsKnown(h)
  PROVE  IInv'
<1>1. /\ req[h] \in Request /\ req[h].pc \in {"limit", "type", "known"}
      /\ req[h].svc \in seen[h]
  BY DEF IInv, TypeOK, LetIn, RateLimit, TypeFlag, IsKnown
<1>2. \A pc \in {"limit", "type", "known", "accepted", "dropped", "rate_limited"} :
        [req[h] EXCEPT !.pc = pc] \in Request
  BY <1>1 DEF Request
<1>3. PICK pc \in {"type", "known", "accepted", "dropped", "rate_limited"} : Step(h, pc, {})
  BY DEF RateLimit, TypeFlag, IsKnown
<1> QED
  BY <1>1, <1>2, <1>3, StepRequest

LEMMA HasServiceIInv ==
  ASSUME IInv, NEW h \in Handlers, HasService(h) \/ HasServiceFails(h)
  PROVE  IInv'
<1>1. /\ req[h] \in Request /\ req[h].pc = "has" /\ req[h].svc \in seen[h]
  BY DEF IInv, TypeOK, LetIn, HasService, HasServiceFails
<1>2. /\ [req[h] EXCEPT !.pc = "accepted"] \in Request
      /\ [req[h] EXCEPT !.pc = "service_unknown"] \in Request
      /\ req[h].ep = "link"
  BY <1>1 DEF Request
<1>3. CASE HasService(h)
  BY <1>1, <1>2, <1>3, StepRequest DEF HasService
<1>4. CASE HasServiceFails(h)
  BY <1>1, <1>2, <1>4, StepRequest DEF HasServiceFails
<1> QED
  BY <1>3, <1>4

LEMMA ReturnIInv ==
  ASSUME IInv, NEW h \in Handlers, Return(h)
  PROVE  IInv'
<1>1. PICK x \in Request : x = Idle
  BY DEF Idle, Request
<1>2. /\ x.pc = "idle" /\ req' = [req EXCEPT ![h] = x]
      /\ UNCHANGED <<registry, catalog>> /\ Observe({})
  BY <1>1 DEF Return, Idle
<1> QED
  BY <1>2, HandlerIInv

-----------------------------------------------------------------------------
(* The command line: a new token is greater than every one in use.         *)

LEMMA TokenIInv ==
  ASSUME IInv, NEW s \in Services, CreateService(s) \/ RotateServiceToken(s)
  PROVE  IInv'
<1>1. /\ made \in Nat /\ made' = made + 1 /\ made' \in 1 .. MaxTokens
      /\ unprinted' = unprinted \cup {[svc |-> s, tok |-> made']}
      /\ UNCHANGED <<told, catalog, req>> /\ Observe({})
  BY MaxTokensAssumption
  DEF CreateService, RotateServiceToken, StoreToken, IInv, TypeOK
<1>c. /\ rows'[s] # NoService => current'[s] = made'
      /\ current' = current \/ current' = [current EXCEPT ![s] = made']
  BY DEF CreateService, RotateServiceToken, SetToken, StoreToken, Registered, IInv, TypeOK
<1>2. \/ rows' = [rows EXCEPT ![s] = [token |-> made', enabled |-> TRUE]]
      \/ rows[s] # NoService /\ rows' = [rows EXCEPT ![s].token = made']
      \/ rows[s] = NoService /\ rows' = rows
  BY DEF CreateService, RotateServiceToken, SetToken, Registered
<1>3. /\ rows \in [Services -> [token : 1 .. MaxTokens, enabled : BOOLEAN] \cup {NoService}]
      /\ current \in [Services -> 0 .. MaxTokens]
  BY DEF IInv, TypeOK
<1>4. /\ rows' \in [Services -> [token : 1 .. MaxTokens, enabled : BOOLEAN] \cup {NoService}]
      /\ rows'[s] # NoService => rows'[s].token = made'
      /\ \A t \in Services \ {s} : rows'[t] = rows[t]
  <2>1. rows[s] # NoService => rows[s] \in [token : 1 .. MaxTokens, enabled : BOOLEAN]
    BY <1>3
  <2>2. PICK r : /\ rows' = [rows EXCEPT ![s] = r]
                 /\ \/ r = [token |-> made', enabled |-> TRUE]
                    \/ rows[s] # NoService /\ r = [rows[s] EXCEPT !.token = made']
                    \/ rows[s] = NoService /\ r = NoService
    <3>1. CASE rows' = [rows EXCEPT ![s] = [token |-> made', enabled |-> TRUE]]
      BY <3>1
    <3>2. CASE rows[s] # NoService /\ rows' = [rows EXCEPT ![s].token = made']
      BY <3>2
    <3>3. CASE rows[s] = NoService /\ rows' = rows
      <4>1. rows' = [rows EXCEPT ![s] = NoService]
        BY <1>3, <3>3
      <4> QED
        BY <3>3, <4>1
    <3> QED
      BY <1>2, <3>1, <3>2, <3>3
  <2>3. r \in [token : 1 .. MaxTokens, enabled : BOOLEAN] \cup {NoService}
    <3>1. CASE r = [token |-> made', enabled |-> TRUE]
      BY <1>1, <3>1
    <3>2. CASE rows[s] # NoService /\ r = [rows[s] EXCEPT !.token = made']
      <4>1. r.token = made' /\ r.enabled = rows[s].enabled
        BY <2>1, <3>2
      <4> QED
        BY <1>1, <2>1, <3>2, <4>1
    <3> QED
      BY <2>2, <3>1, <3>2
  <2>4. r # NoService => r.token = made'
    BY <1>1, <2>1, <2>2
  <2> QED
    BY <1>3, <2>2, <2>3, <2>4
<1>5. TokensAreCurrent'
  <2>1. \A t \in Services : Registered(t)' => rows'[t].token = current'[t]
    BY <1>1, <1>3, <1>4, <1>c DEF Registered, IInv, TokensAreCurrent
  <2>2. \A t \in Services : current'[t] =< made'
    BY <1>1, <1>3, <1>c DEF IInv, TokensAreCurrent
  <2>3. \A t, u \in Services : current'[t] = current'[u] /\ current'[t] # 0 => t = u
    BY <1>1, <1>3, <1>c DEF IInv, TokensAreCurrent
  <2>4. \A h \in Handlers : req'[h].pc # "idle" => req'[h].tok =< made'
    <3> SUFFICES ASSUME NEW h \in Handlers, req[h].pc # "idle"
                 PROVE  req[h].tok =< made'
      BY <1>1
    <3>1. req[h].tok \in 0 .. MaxTokens /\ req[h].tok =< made
      BY DEF IInv, TypeOK, TokensAreCurrent, Request
    <3> QED
      BY <1>1, <3>1
  <2> QED
    BY <2>1, <2>2, <2>3, <2>4 DEF TokensAreCurrent
<1>6. TokenStaysOwned'
  <2> SUFFICES ASSUME NEW h \in Handlers, req[h].pc = "enabled",
                      NEW t \in Services, current'[t] = req[h].tok
               PROVE  t = req[h].svc
    BY <1>1 DEF TokenStaysOwned
  <2>1. req[h].tok \in 0 .. MaxTokens /\ req[h].tok =< made
    BY DEF IInv, TypeOK, TokensAreCurrent, Request
  <2> QED
    BY <1>1, <1>3, <1>c, <2>1 DEF IInv, TokenStaysOwned
<1>7. TypeOK /\ req' \in [Handlers -> Request] /\ snapshot' \in Catalogs
  BY <1>1 DEF IInv, TypeOK, catalog
<1>8. /\ FactsAreSeen' /\ \A k \in Handlers : req[k].pc # "idle" => seen[k] \subseteq seen'[k]
      /\ seen' \in [Handlers -> SUBSET (Services \cup {NoService, "failed"})]
  BY <1>1, <1>7, Observed
<1>9. TypeOK'
  <2>1. current' \in [Services -> 0 .. MaxTokens]
    BY <1>1, <1>3, <1>c, MaxTokensAssumption
  <2>2. /\ made' \in 0 .. MaxTokens
        /\ unprinted' \subseteq [svc : Services, tok : 1 .. MaxTokens]
    <3>1. [svc |-> s, tok |-> made'] \in [svc : Services, tok : 1 .. MaxTokens]
      BY <1>1
    <3>2. unprinted \subseteq [svc : Services, tok : 1 .. MaxTokens]
      BY DEF IInv, TypeOK
    <3> QED
      BY <1>1, <3>1, <3>2, MaxTokensAssumption
  <2> QED
    BY <1>1, <1>4, <1>7, <1>8, <2>1, <2>2 DEF TypeOK, catalog
<1> QED
  BY <1>1, <1>5, <1>6, <1>8, <1>9, WorldIInv

LEMMA PrintIInv ==
  ASSUME IInv, NEW c \in unprinted, PrintToken(c)
  PROVE  IInv'
<1>1. /\ unprinted' = unprinted \ {c} /\ told' = [told EXCEPT ![c.svc] = c.tok]
      /\ UNCHANGED <<rows, made, current, catalog, req>> /\ Observe({})
  BY DEF PrintToken
<1>2. /\ unprinted' \subseteq [svc : Services, tok : 1 .. MaxTokens]
      /\ told' \in [Services -> 0 .. MaxTokens]
  <2>1. c \in [svc : Services, tok : 1 .. MaxTokens]
    BY DEF IInv, TypeOK
  <2>2. c.tok \in 0 .. MaxTokens
    BY <2>1, MaxTokensAssumption
  <2> QED
    BY <1>1, <2>2 DEF IInv, TypeOK
<1>3. TypeOK /\ req' \in [Handlers -> Request]
  BY <1>1 DEF IInv, TypeOK
<1>4. /\ FactsAreSeen' /\ \A k \in Handlers : req[k].pc # "idle" => seen[k] \subseteq seen'[k]
      /\ seen' \in [Handlers -> SUBSET (Services \cup {NoService, "failed"})]
  BY <1>1, <1>3, Observed
<1>5. TypeOK'
  BY <1>1, <1>2, <1>3, <1>4 DEF TypeOK, catalog
<1>6. TokensAreCurrent' /\ TokenStaysOwned'
  BY <1>1 DEF IInv, TokensAreCurrent, TokenStaysOwned, Registered
<1> QED
  BY <1>1, <1>4, <1>5, <1>6, WorldIInv

LEMMA EnableIInv ==
  ASSUME IInv, NEW s \in Services, EnableDisable(s)
  PROVE  IInv'
<1>1. PICK e \in BOOLEAN : rows' = SetEnabled(s, e)
  BY DEF EnableDisable
<1>2. UNCHANGED <<made, unprinted, told, current, catalog, req>> /\ Observe({})
  BY DEF EnableDisable
<1>3. rows \in [Services -> [token : 1 .. MaxTokens, enabled : BOOLEAN] \cup {NoService}]
  BY DEF IInv, TypeOK
<1>4. /\ rows' \in [Services -> [token : 1 .. MaxTokens, enabled : BOOLEAN] \cup {NoService}]
      /\ \A t \in Services : rows'[t] # NoService =>
           rows[t] # NoService /\ rows'[t].token = rows[t].token
  <2>1. CASE rows[s] = NoService
    BY <1>1, <1>3, <2>1 DEF SetEnabled, Registered
  <2>2. CASE rows[s] # NoService
    <3>1. PICK r : r = [rows[s] EXCEPT !.enabled = e]
      OBVIOUS
    <3>2. /\ r \in [token : 1 .. MaxTokens, enabled : BOOLEAN] /\ r.token = rows[s].token
      BY <1>3, <2>2, <3>1
    <3>3. rows' = [rows EXCEPT ![s] = r]
      BY <1>1, <1>3, <2>2, <3>1 DEF SetEnabled, Registered
    <3> QED
      BY <1>3, <2>2, <3>2, <3>3
  <2> QED
    BY <2>1, <2>2
<1>5. TokensAreCurrent' /\ TokenStaysOwned'
  BY <1>2, <1>4 DEF IInv, TokensAreCurrent, TokenStaysOwned, Registered
<1>6. TypeOK /\ req' \in [Handlers -> Request] /\ snapshot' \in Catalogs
  BY <1>2 DEF IInv, TypeOK, catalog
<1>7. /\ FactsAreSeen' /\ \A k \in Handlers : req[k].pc # "idle" => seen[k] \subseteq seen'[k]
      /\ seen' \in [Handlers -> SUBSET (Services \cup {NoService, "failed"})]
  BY <1>2, <1>6, Observed
<1>8. TypeOK'
  BY <1>2, <1>4, <1>6, <1>7 DEF TypeOK, catalog
<1> QED
  BY <1>2, <1>5, <1>7, <1>8, WorldIInv

-----------------------------------------------------------------------------
(* The catalog, and everything together. *)

LEMMA ReloadIInv ==
  ASSUME IInv, EditFile \/ Sighup \/ TakeSighup \/ ReadFile
  PROVE  IInv'
<1>1. UNCHANGED <<registry, snapshot, req, seen>>
  BY DEF EditFile, Sighup, TakeSighup, ReadFile
<1>2. /\ file' \in Catalogs \cup {Broken} /\ hup' \in BOOLEAN /\ asked' \in BOOLEAN
      /\ reloader' \in [pc : {"idle", "load"}]
                          \cup [pc : {"swap"}, cat : Catalogs \cup {Broken}]
  <2>1. /\ file \in Catalogs \cup {Broken} /\ hup \in BOOLEAN /\ asked \in BOOLEAN
        /\ reloader \in [pc : {"idle", "load"}] \cup [pc : {"swap"}, cat : Catalogs \cup {Broken}]
    BY DEF IInv, TypeOK
  <2>2. CASE EditFile
    BY <2>1, <2>2 DEF EditFile
  <2>3. CASE Sighup
    BY <2>1, <2>3 DEF Sighup, Notify
  <2>4. CASE TakeSighup
    BY <2>1, <2>4 DEF TakeSighup
  <2>5. CASE ReadFile
    BY <2>1, <2>5 DEF ReadFile
  <2> QED
    BY <2>2, <2>3, <2>4, <2>5
<1>3. TypeOK'
  BY <1>1, <1>2 DEF IInv, TypeOK, registry
<1>4. TokensAreCurrent' /\ TokenStaysOwned'
  BY <1>1 DEF IInv, TokensAreCurrent, TokenStaysOwned, Registered, registry
<1>5. FactsAreSeen'
  BY <1>1 DEF IInv, FactsAreSeen, Facts, Owners, Entitled, Enabled, Registered, registry
<1> QED
  BY <1>1, <1>3, <1>4, <1>5, WorldIInv

LEMMA SwapIInv == ASSUME IInv, Swap PROVE IInv'
<1>1. /\ reloader.pc = "swap" /\ snapshot' = Loaded(reloader.cat)
      /\ reloader' = [pc |-> "idle"] /\ UNCHANGED <<registry, file, hup, asked, req>>
      /\ Observe({})
  BY DEF Swap
<1>2. reloader.cat \in Catalogs \cup {Broken}
  BY <1>1 DEF IInv, TypeOK
<1>3. TypeOK /\ req' \in [Handlers -> Request] /\ snapshot' \in Catalogs
  BY <1>1, <1>2 DEF IInv, TypeOK, Loaded
<1>4. /\ FactsAreSeen' /\ \A k \in Handlers : req[k].pc # "idle" => seen[k] \subseteq seen'[k]
      /\ seen' \in [Handlers -> SUBSET (Services \cup {NoService, "failed"})]
  BY <1>1, <1>3, Observed
<1>5. TypeOK'
  BY <1>1, <1>3, <1>4 DEF TypeOK, registry
<1>6. TokensAreCurrent' /\ TokenStaysOwned'
  BY <1>1 DEF IInv, TokensAreCurrent, TokenStaysOwned, Registered, registry
<1> QED
  BY <1>1, <1>4, <1>5, <1>6, WorldIInv

(* A state without requests. *)
LEMMA QuietIInv ==
  ASSUME TypeOK, \A h \in Handlers : req[h] = Idle,
         \A s \in Services : Registered(s) => rows[s].token = current[s],
         \A s \in Services : current[s] =< made,
         \A s, t \in Services : current[s] = current[t] /\ current[s] # 0 => s = t
  PROVE  IInv
<1>1. \A h \in Handlers : req[h].pc = "idle"
  BY DEF Idle
<1>2. FactsAreSeen
  BY <1>1 DEF FactsAreSeen, Facts
<1> QED
  BY <1>1, <1>2 DEF IInv, TokensAreCurrent, TokenStaysOwned, LetIn,
                    RefusedForCause

LEMMA InitIInv == Init => IInv
<1> SUFFICES ASSUME Init PROVE IInv
  OBVIOUS
<1>1. TypeOK
  <2>1. rows \in [Services -> [token : 1 .. MaxTokens, enabled : BOOLEAN] \cup {NoService}]
    BY DEF Init
  <2>2. /\ made \in 0 .. MaxTokens /\ unprinted \subseteq [svc : Services, tok : 1 .. MaxTokens]
        /\ told \in [Services -> 0 .. MaxTokens] /\ current \in [Services -> 0 .. MaxTokens]
    BY MaxTokensAssumption DEF Init
  <2>3. /\ file \in Catalogs \cup {Broken} /\ snapshot \in Catalogs
        /\ hup \in BOOLEAN /\ asked \in BOOLEAN /\ reloader \in [pc : {"idle", "load"}]
    BY CatalogsAssumption DEF Init
  <2>4. req \in [Handlers -> Request]
    BY DEF Init, Idle, Request
  <2>5. seen \in [Handlers -> SUBSET (Services \cup {NoService, "failed"})]
    BY DEF Init
  <2> QED
    BY <2>1, <2>2, <2>3, <2>4, <2>5 DEF TypeOK
<1>2. /\ \A s \in Services : ~ Registered(s) /\ current[s] = 0
      /\ made = 0 /\ \A h \in Handlers : req[h] = Idle
  BY DEF Init, Registered
<1> QED
  BY <1>1, <1>2, QuietIInv

LEMMA RestartIInv == ASSUME IInv, Restart PROVE IInv'
<1>1. /\ req' = [h \in Handlers |-> Idle] /\ UNCHANGED <<registry, file>>
      /\ snapshot' = IF file = Broken THEN Empty ELSE file
      /\ hup' = FALSE /\ reloader' = [pc |-> "idle"] /\ asked' = FALSE /\ Observe({})
  BY DEF Restart
<1>2. TypeOK /\ req' \in [Handlers -> Request] /\ snapshot' \in Catalogs
  BY <1>1, CatalogsAssumption DEF IInv, TypeOK, Idle, Request
<1>3. /\ FactsAreSeen'
      /\ seen' \in [Handlers -> SUBSET (Services \cup {NoService, "failed"})]
  BY <1>1, <1>2, Observed
<1>4. TypeOK'
  BY <1>1, <1>2, <1>3 DEF TypeOK, registry
<1>5. \A h \in Handlers : req'[h].pc = "idle"
  BY <1>1 DEF Idle
<1>6. TokensAreCurrent' /\ TokenStaysOwned'
  BY <1>1, <1>5 DEF IInv, TokensAreCurrent, TokenStaysOwned, Registered, registry
<1> QED
  BY <1>3, <1>4, <1>5, <1>6 DEF IInv, LetIn, RefusedForCause

LEMMA StutterIInv == ASSUME IInv, UNCHANGED vars PROVE IInv'
<1>1. UNCHANGED <<registry, catalog, req, seen>>
  BY DEF vars, registry, catalog
<1>2. TypeOK'
  BY <1>1 DEF IInv, TypeOK, registry, catalog
<1>3. TokensAreCurrent' /\ TokenStaysOwned'
  BY <1>1 DEF IInv, TokensAreCurrent, TokenStaysOwned, Registered, registry
<1>4. FactsAreSeen'
  BY <1>1 DEF IInv, FactsAreSeen, Facts, Owners, Entitled, Enabled, Registered,
              registry, catalog
<1> QED
  BY <1>1, <1>2, <1>3, <1>4, WorldIInv

LEMMA StepIInv == IInv /\ [Next]_vars => IInv'
<1> SUFFICES ASSUME IInv, [Next]_vars PROVE IInv'
  OBVIOUS
<1>1. CASE UNCHANGED vars
  BY <1>1, StutterIInv
<1>2. CASE \E s \in Services : CreateService(s) \/ RotateServiceToken(s) \/ EnableDisable(s)
  BY <1>2, TokenIInv, EnableIInv
<1>p. CASE \E c \in unprinted : PrintToken(c)
  BY <1>p, PrintIInv
<1>3. CASE EditFile \/ Sighup \/ Reload \/ Restart
  BY <1>3, ReloadIInv, SwapIInv, RestartIInv DEF Reload
<1>4. CASE \E h \in Handlers : HandlerStep(h)
  BY <1>4, PostIInv, VerifyTokenIInv, RefusedIInv, ServiceEnabledIInv, BodyIInv, ValidatedIInv,
     JudgeIInv, HasServiceIInv, ReturnIInv DEF HandlerStep
<1> QED
  BY <1>1, <1>2, <1>3, <1>4, <1>p DEF Next

-----------------------------------------------------------------------------
(* The inductive invariant of admission. *)
THEOREM Inductive == Spec => []IInv
BY InitIInv, StepIInv, PTL DEF Spec

(* The variables of Admission have their types. *)
THEOREM TypeCorrect == Spec => []TypeOK
<1>1. IInv => TypeOK
  BY DEF IInv
<1> QED
  BY <1>1, Inductive, PTL

(* Whoever is let through had the current token of an enabled service while *)
(* the request was looked at, whatever the command line did meanwhile.     *)
THEOREM OnlyEntitledAreLetIn == Spec => []AcceptedIsEntitled
<1>1. IInv => AcceptedIsEntitled
  BY DEF IInv, LetIn, AcceptedIsEntitled
<1> QED
  BY <1>1, Inductive, PTL

(* Whoever had it all the time is refused only because a query failed.     *)
THEOREM RefusalsHaveCause == Spec => []RefusedForCause
<1>1. IInv => RefusedForCause
  BY DEF IInv
<1> QED
  BY <1>1, Inductive, PTL

(* No request touches the file, the snapshot or the signals. *)
LEMMA HandlersKeepCatalog ==
  ASSUME NEW h \in Handlers, HandlerStep(h) PROVE UNCHANGED catalog
<1>1. CASE Post(h) \/ VerifyToken(h) \/ Validated(h) \/ Return(h)
  BY <1>1 DEF Post, VerifyToken, Validated, Return
<1>2. CASE TooLarge(h) \/ NoTokenMatches(h) \/ VerifyTokenFails(h) \/ Malformed(h) \/ Mismatch(h)
  BY <1>2 DEF TooLarge, NoTokenMatches, VerifyTokenFails, Malformed, Mismatch, Step
<1>3. CASE ServiceEnabled(h) \/ ServiceEnabledFails(h) \/ HasService(h) \/ HasServiceFails(h)
  BY <1>3 DEF ServiceEnabled, ServiceEnabledFails, HasService, HasServiceFails, Step
<1>4. CASE RateLimit(h) \/ TypeFlag(h) \/ IsKnown(h)
  BY <1>4 DEF RateLimit, TypeFlag, IsKnown, Step
<1> QED
  BY <1>1, <1>2, <1>3, <1>4 DEF HandlerStep

(* The last signal is never lost among those that merge and the reloads    *)
(* that overlap edits: a stale reload is never the last one.               *)
THEOREM SignalsAreKept == Spec => []SignalIsKept
<1>1. Init => SignalIsKept
  BY DEF Init, SignalIsKept
<1>2. ASSUME SignalIsKept, [Next]_vars PROVE SignalIsKept'
  <2>1. CASE UNCHANGED catalog
    BY <1>2, <2>1 DEF SignalIsKept, catalog
  <2>2. CASE EditFile \/ Restart
    BY <2>2 DEF EditFile, Restart, SignalIsKept
  <2>3. CASE Sighup
    BY <2>3 DEF Sighup, Notify, SignalIsKept
  <2>4. CASE TakeSighup \/ ReadFile
    <3>1. CASE TakeSighup
      <4>1. reloader'.pc = "load"
        BY <3>1 DEF TakeSighup
      <4> QED
        BY <4>1 DEF SignalIsKept
    <3>2. CASE ReadFile
      <4>1. file' = file /\ reloader'.pc = "swap" /\ reloader'.cat = file
        BY <3>2 DEF ReadFile
      <4> QED
        BY <4>1 DEF SignalIsKept
    <3> QED
      BY <2>4, <3>1, <3>2
  <2>5. CASE Swap
    BY <1>2, <2>5 DEF Swap, Loaded, SignalIsKept
  <2>6. CASE \E s \in Services : CreateService(s) \/ RotateServiceToken(s) \/ EnableDisable(s)
    <3>1. UNCHANGED catalog
      BY <2>6 DEF CreateService, RotateServiceToken, EnableDisable, StoreToken
    <3> QED
      BY <2>1, <3>1
  <2>8. CASE \E c \in unprinted : PrintToken(c)
    BY <2>1, <2>8 DEF PrintToken
  <2>7. CASE \E h \in Handlers : HandlerStep(h)
    BY <2>1, <2>7, HandlersKeepCatalog
  <2> QED
    BY <1>2, <2>1, <2>2, <2>3, <2>4, <2>5, <2>6, <2>7, <2>8 DEF Next, Reload, vars, catalog
<1> QED
  BY <1>1, <1>2, PTL DEF Spec
=============================================================================
