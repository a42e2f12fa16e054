------------------------------- MODULE Admission -------------------------------
(***************************************************************************)
(* What a request goes through before its handler does anything: the size, *)
(* the token (ingest.authService over store/services.go), the envelope,    *)
(* the limiter and the drop rule of the catalog (catalog/catalog.go).      *)
(*                                                                         *)
(* Three others change what the request is judged by, between any two of   *)
(* its steps: the operator's command line, which is another process on the *)
(* same database, the operator's editor, which writes the catalog file,    *)
(* and the goroutine that reloads the file after a SIGHUP.                 *)
(*                                                                         *)
(* An accepted event goes on in module Ingest, a link in module Linking.   *)
(***************************************************************************)
EXTENDS Naturals

CONSTANTS Services,
          Handlers,  \* HTTP handler goroutines
          Types,     \* event types
          JobProgress,
          Catalogs,  \* valid contents of the catalog file
          Broken,    \* a file that is missing, or does not parse or validate
          Empty,     \* the catalog without services
          NoService, \* no row; nobody's token
          MaxTokens  \* a bound on create and rotate

ASSUME TypesAssumption == JobProgress \in Types
(* What a catalog says of each type of each service: nothing, or its drop flag. *)
ASSUME CatalogsAssumption ==
  /\ Catalogs \subseteq [Services \X Types -> {"absent", "keep", "drop"}]
  /\ Empty = [p \in Services \X Types |-> "absent"] /\ Empty \in Catalogs
  /\ Broken \notin Catalogs
ASSUME NoServiceAssumption == NoService \notin Services
ASSUME MaxTokensAssumption == MaxTokens \in Nat

VARIABLES rows,     \* the services table: token and enabled
          made,     \* how many tokens the command line made; they are random, so distinct
          unprinted,\* commands that stored their token and have not printed it
          told,     \* the token last printed for each service, 0 for none
          current,  \* observer: the token last stored for each service, 0 for none
          file,     \* the catalog file
          snapshot, \* Lookup.cat
          hup,      \* a SIGHUP is in the channel, whose capacity is 1
          reloader, \* the goroutine that drains it: idle, or what Load read
          asked,    \* observer: SIGHUP was sent and the file not edited since
          req,      \* what each handler is doing
          seen      \* observer: what held at some moment of the request

vars == <<rows, made, unprinted, told, current, file, snapshot, hup, reloader, asked, req, seen>>
registry == <<rows, made, unprinted, told, current>>
catalog == <<file, snapshot, hup, reloader, asked>>

Idle == [pc |-> "idle"]

Init ==
  /\ rows = [s \in Services |-> NoService] /\ made = 0 /\ unprinted = {}
  /\ told = [s \in Services |-> 0] /\ current = told
  /\ file \in Catalogs \cup {Broken}
  /\ snapshot = IF file = Broken THEN Empty ELSE file
  /\ hup = FALSE /\ reloader = [pc |-> "idle"] /\ asked = FALSE
  /\ req = [h \in Handlers |-> Idle] /\ seen = [h \in Handlers |-> {}]

-----------------------------------------------------------------------------
(* What a request is judged by, as the operator sees it, and the observer. *)

Answers == {"too_large", "unauthorized", "service_unknown", "schema", "code_mismatch",
            "rate_limited", "dropped", "accepted"}

Registered(s) == rows[s] # NoService
Enabled(s) == Registered(s) /\ rows[s].enabled

(* The last create or rotate of the service stored this token, and it is   *)
(* enabled.                                                                *)
Entitled(s, tok) == Enabled(s) /\ current[s] = tok

Owners(tok) == {s \in Services : Entitled(s, tok)}

(* What holds now that a request is judged by until it is let in: whose    *)
(* token it has.                                                           *)
Facts(r) ==
  IF r.pc \notin {"token", "enabled"} THEN {}
  ELSE IF Owners(r.tok) = {} THEN {NoService} ELSE Owners(r.tok)

(* Part of every action: these facts are noted, and whose query failed.    *)
Observe(failed) ==
  seen' = [h \in Handlers |->
             IF req'[h].pc = "idle" THEN {}
             ELSE seen[h] \cup Facts(req[h])' \cup {"failed" : g \in failed \cap {h}}]

-----------------------------------------------------------------------------
(* The command line, a process for each command, so that several may be   *)
(* under way.  Each stores with one statement; one that fails exits 1 and  *)
(* changes nothing.  create and rotate print the token afterwards.         *)

(* A token made and stored, and to be printed; the observer is told when   *)
(* the statement changed a row.                                            *)
StoreToken(s, stored) ==
  /\ made < MaxTokens
  /\ made' = made + 1
  /\ unprinted' = unprinted \cup {[svc |-> s, tok |-> made']}
  /\ current' = IF stored THEN [current EXCEPT ![s] = made'] ELSE current
  /\ UNCHANGED <<told, catalog, req>>

(* A plain INSERT: a second create of an id fails. *)
CreateService(s) ==
  /\ ~ Registered(s)
  /\ StoreToken(s, TRUE)
  /\ rows' = [rows EXCEPT ![s] = [token |-> made', enabled |-> TRUE]]
  /\ Observe({})

(* Mutant: the token is stored without hashing it, so nothing matches it.  *)
SetRaw(s, tok) == IF Registered(s) THEN [rows EXCEPT ![s].token = 0] ELSE rows

(* The UPDATEs change nothing when the id is unknown, and do not say so. *)
SetToken(s, tok) == IF Registered(s) THEN [rows EXCEPT ![s].token = tok] ELSE rows
SetEnabled(s, e) == IF Registered(s) THEN [rows EXCEPT ![s].enabled = e] ELSE rows

RotateServiceToken(s) ==
  /\ StoreToken(s, Registered(s))
  /\ rows' = SetToken(s, made')
  /\ Observe({})

(* The command's last step.  Nothing makes it happen: the process may die  *)
(* before it, or another command of the service store and print meanwhile. *)
PrintToken(c) ==
  /\ unprinted' = unprinted \ {c}
  /\ told' = [told EXCEPT ![c.svc] = c.tok]
  /\ UNCHANGED <<rows, made, current, catalog, req>>
  /\ Observe({})

EnableDisable(s) ==
  /\ \E e \in BOOLEAN : rows' = SetEnabled(s, e)
  /\ UNCHANGED <<made, unprinted, told, current, catalog, req>>
  /\ Observe({})

-----------------------------------------------------------------------------
(* The catalog. *)

EditFile ==
  /\ file' \in (Catalogs \cup {Broken}) \ {file}
  /\ asked' = FALSE
  /\ UNCHANGED <<registry, snapshot, hup, reloader, req, seen>>

(* Mutant: an unbuffered channel; the signal is lost while nobody waits. *)
NotifyUnbuffered == reloader.pc = "idle"

(* signal.Notify never blocks: a signal that finds one buffered merges.    *)
Notify == TRUE

Sighup ==
  /\ hup' = (hup \/ Notify)
  /\ asked' = TRUE
  /\ UNCHANGED <<registry, file, snapshot, reloader, req, seen>>

TakeSighup ==
  /\ hup /\ reloader.pc = "idle"
  /\ hup' = FALSE
  /\ reloader' = [pc |-> "load"]
  /\ UNCHANGED <<registry, file, snapshot, asked, req, seen>>

(* Load: os.ReadFile; Unmarshal and Validate see what it read. *)
ReadFile ==
  /\ reloader.pc = "load"
  /\ reloader' = [pc |-> "swap", cat |-> file]
  /\ UNCHANGED <<registry, file, snapshot, hup, asked, req, seen>>

Loaded(cat) == IF cat = Broken THEN snapshot ELSE cat

(* Reload swaps under the mutex, or returns the error and keeps the old. *)
Swap ==
  /\ reloader.pc = "swap"
  /\ snapshot' = Loaded(reloader.cat)
  /\ reloader' = [pc |-> "idle"]
  /\ UNCHANGED <<registry, file, hup, asked, req>>
  /\ Observe({})

(* The process dies and starts again: what cannot be loaded is empty. *)
Restart ==
  /\ snapshot' = IF file = Broken THEN Empty ELSE file
  /\ hup' = FALSE /\ reloader' = [pc |-> "idle"] /\ asked' = FALSE
  /\ req' = [h \in Handlers |-> Idle]
  /\ UNCHANGED <<registry, file>>
  /\ Observe({})

-----------------------------------------------------------------------------
(* POST /v1/events and /v1/link.  The body is an input that nothing reads  *)
(* before Validate, so it is chosen there.                                 *)

(* Token 0 is one that was never made, or none; nobody has one that was    *)
(* not printed.                                                            *)
Post(h) ==
  /\ req[h] = Idle
  /\ \E ep \in {"events", "link"}, tok \in (0 .. made) \ {c.tok : c \in unprinted} :
       req' = [req EXCEPT ![h] = [pc |-> "token", ep |-> ep, tok |-> tok]]
  /\ UNCHANGED <<registry, catalog>>
  /\ Observe({})

Step(h, pc, failed) ==
  /\ req' = [req EXCEPT ![h].pc = pc]
  /\ UNCHANGED <<registry, catalog>>
  /\ Observe(failed)

(* handleEvents looks at the size before the token, handleLink cuts the    *)
(* body off and finds it unreadable after it.                              *)
TooLarge(h) == req[h].pc = "token" /\ req[h].ep = "events" /\ Step(h, "too_large", {})

(* Mutant: the query does not ask for enabled=1. *)
MatchesDisabled(s, tok) == Registered(s) /\ rows[s].token = tok

(* The WHERE of VerifyToken. *)
Matches(s, tok) == Enabled(s) /\ rows[s].token = tok

VerifyToken(h) ==
  /\ req[h].pc = "token"
  /\ \E s \in Services :
       /\ Matches(s, req[h].tok)
       /\ req' = [req EXCEPT ![h] = [pc |-> "enabled", ep |-> @.ep, tok |-> @.tok, svc |-> s]]
  /\ UNCHANGED <<registry, catalog>>
  /\ Observe({})

NoTokenMatches(h) ==
  /\ req[h].pc = "token"
  /\ ~ \E s \in Services : Matches(s, req[h].tok)
  /\ Step(h, "unauthorized", {})

(* The query fails: answered like a wrong token. *)
VerifyTokenFails(h) ==
  req[h].pc = "token" /\ Step(h, "unauthorized", {h})

(* A query of its own. *)
ServiceEnabled(h) ==
  /\ req[h].pc = "enabled"
  /\ Step(h, IF Enabled(req[h].svc) THEN "body" ELSE "service_unknown", {})

ServiceEnabledFails(h) == req[h].pc = "enabled" /\ Step(h, "service_unknown", {h})

(* validateEnvelope or the checks of handleLink fail. *)
Malformed(h) == req[h].pc = "body" /\ Step(h, "schema", {})

(* The body names another service than the token's. *)
Mismatch(h) ==
  req[h].pc = "body" /\ Step(h, IF req[h].ep = "events" THEN "schema" ELSE "code_mismatch", {})

Validated(h) ==
  /\ req[h].pc = "body"
  /\ \/ /\ req[h].ep = "link"
        /\ req' = [req EXCEPT ![h].pc = "has"]
     \/ /\ req[h].ep = "events"
        /\ \E t \in Types :
             req' = [req EXCEPT ![h] = [pc |-> "limit", ep |-> @.ep, tok |-> @.tok,
                                        svc |-> @.svc, type |-> t]]
  /\ UNCHANGED <<registry, catalog>>
  /\ Observe({})

(* AllowForService (module Limiter). *)
RateLimit(h) ==
  req[h].pc = "limit" /\ \E pc \in {"rate_limited", "type"} : Step(h, pc, {})

(* known && et.Drop || (!known && type == "job_progress"). *)
DropRule(s, t) ==
  \/ snapshot[<<s, t>>] = "drop"
  \/ snapshot[<<s, t>>] = "absent" /\ t = JobProgress

(* The first Get. *)
TypeFlag(h) ==
  /\ req[h].pc = "type"
  /\ Step(h, IF DropRule(req[h].svc, req[h].type) THEN "dropped" ELSE "known", {})

(* The second Get, which only counts and logs; the event goes on to Ingest. *)
IsKnown(h) == req[h].pc = "known" /\ Step(h, "accepted", {})

(* handleLink asks once more; the link goes on to Linking.  No row is ever *)
(* deleted, so only an error answers service_unknown.                      *)
HasService(h) == req[h].pc = "has" /\ Registered(req[h].svc) /\ Step(h, "accepted", {})
HasServiceFails(h) == req[h].pc = "has" /\ Step(h, "service_unknown", {h})

(* The handler returns. *)
Return(h) ==
  /\ req[h].pc \in Answers
  /\ req' = [req EXCEPT ![h] = Idle]
  /\ UNCHANGED <<registry, catalog>>
  /\ Observe({})

-----------------------------------------------------------------------------
HandlerStep(h) ==
  \/ Post(h) \/ TooLarge(h) \/ VerifyToken(h) \/ NoTokenMatches(h) \/ VerifyTokenFails(h)
  \/ ServiceEnabled(h) \/ ServiceEnabledFails(h) \/ Malformed(h) \/ Mismatch(h) \/ Validated(h)
  \/ RateLimit(h) \/ TypeFlag(h) \/ IsKnown(h) \/ HasService(h) \/ HasServiceFails(h) \/ Return(h)

Reload == TakeSighup \/ ReadFile \/ Swap

Next ==
  \/ \E s \in Services : CreateService(s) \/ RotateServiceToken(s) \/ EnableDisable(s)
  \/ \E c \in unprinted : PrintToken(c)
  \/ EditFile \/ Sighup \/ Reload \/ Restart
  \/ \E h \in Handlers : HandlerStep(h)

(* The reloading goroutine is scheduled; nobody else has to act. *)
Spec == Init /\ [][Next]_vars /\ WF_vars(Reload)

-----------------------------------------------------------------------------
(* Properties. *)

(* What a handler may be doing; only events have a type, and only a link   *)
(* is asked for its service again.                                         *)
Request ==
  [pc : {"idle"}]
  \cup [pc : {"token", "too_large", "unauthorized"}, ep : {"events", "link"},
        tok : 0 .. MaxTokens]
  \cup [pc : {"enabled", "body", "service_unknown", "schema", "code_mismatch"},
        ep : {"events", "link"}, tok : 0 .. MaxTokens, svc : Services]
  \cup [pc : {"has", "accepted"}, ep : {"link"}, tok : 0 .. MaxTokens, svc : Services]
  \cup [pc : {"limit", "type", "known", "accepted", "dropped", "rate_limited"},
        ep : {"events"}, tok : 0 .. MaxTokens, svc : Services, type : Types]

(* The variables have their types. *)
TypeOK ==
  /\ rows \in [Services -> [token : 1 .. MaxTokens, enabled : BOOLEAN] \cup {NoService}]
  /\ made \in 0 .. MaxTokens /\ unprinted \subseteq [svc : Services, tok : 1 .. MaxTokens]
  /\ told \in [Services -> 0 .. MaxTokens] /\ current \in [Services -> 0 .. MaxTokens]
  /\ file \in Catalogs \cup {Broken} /\ snapshot \in Catalogs
  /\ hup \in BOOLEAN /\ asked \in BOOLEAN
  /\ reloader \in [pc : {"idle", "load"}]
                    \cup [pc : {"swap"}, cat : Catalogs \cup {Broken}]
  /\ req \in [Handlers -> Request]
  /\ seen \in [Handlers -> SUBSET (Services \cup {NoService, "failed"})]

(* A request that is let through had, at some moment of its handling, the  *)
(* token stored last for the enabled service it acts for: a token that     *)
(* was rotated before, or a service disabled before, is never let through, *)
(* however the command line interleaves with the two queries.              *)
AcceptedIsEntitled ==
  \A h \in Handlers :
    req[h].pc \in {"accepted", "dropped", "rate_limited"} => req[h].svc \in seen[h]

(* Nobody is turned away who held the token stored last for an enabled     *)
(* service all the time, unless a query failed.                            *)
RefusedForCause ==
  \A h \in Handlers :
    req[h].pc \in {"unauthorized", "service_unknown"} =>
      seen[h] \cap {NoService, "failed"} # {}

(* A valid file on which SIGHUP was sent comes into force, unless it is    *)
(* edited again or the process restarts: no signal is lost, although those *)
(* that arrive during a reload merge.                                      *)
SighupTakesEffect == (asked /\ file # Broken) ~> (snapshot = file \/ ~ asked)

(* However many signals merge and however old a file the reload under way  *)
(* has read, the last signal is still buffered, or its reload has yet to   *)
(* read, or has read the file as it is; and once all is quiet that file is *)
(* in force, unless it is not valid: a stale reload is never the last.     *)
SignalIsKept ==
  asked =>
    \/ hup \/ reloader.pc = "load"
    \/ reloader.pc = "swap" /\ reloader.cat = file
    \/ reloader.pc = "idle" /\ file \in {snapshot, Broken}

(* What the proofs of AdmissionProofs add: a registered service has the    *)
(* token stored last for it, no two services have the same, and a request  *)
(* has one that was made.                                                  *)
TokensAreCurrent ==
  /\ \A s \in Services : Registered(s) => rows[s].token = current[s]
  /\ \A s \in Services : current[s] =< made
  /\ \A s, t \in Services : current[s] = current[t] /\ current[s] # 0 => s = t
  /\ \A h \in Handlers : req[h].pc # "idle" => req[h].tok =< made

FactsAreSeen == \A h \in Handlers : Facts(req[h]) \subseteq seen[h]

(* Between the two queries nobody else can get the token. *)
TokenStaysOwned ==
  \A h \in Handlers : req[h].pc = "enabled" =>
    \A s \in Services : current[s] = req[h].tok => s = req[h].svc

LetIn(h) ==
  req[h].pc \in {"enabled", "body", "has", "limit", "type", "known",
                 "accepted", "dropped", "rate_limited"} => req[h].svc \in seen[h]

IInv ==
  /\ TypeOK /\ TokensAreCurrent /\ FactsAreSeen /\ TokenStaysOwned
  /\ \A h \in Handlers : LetIn(h)
  /\ RefusedForCause

(* Not a property of this code (README.md, section 5): the token the       *)
(* command line printed last for a service is the service's token.  It is  *)
(* not after a rotate of an unknown id, when a rotate died before it       *)
(* printed, and when two printed in the other order than they stored.      *)
ToldTokenWorks ==
  \A s \in Services : told[s] # 0 => Registered(s) /\ rows[s].token = told[s]

(* Not a property of this code (README.md, section 5): the token of a      *)
(* disabled service is not called wrong.                                   *)
DisabledIsUnknown ==
  \A h \in Handlers :
    (req[h].pc = "unauthorized" /\ "failed" \notin seen[h]) =>
      ~ \E s \in Services : Registered(s) /\ rows[s].token = req[h].tok
=============================================================================
