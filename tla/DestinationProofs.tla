-------------------------- MODULE DestinationProofs --------------------------
(* Proofs about Destination for every set of services, groups, handlers and *)
(* flushes, every number of /connect commands, and every set of faults.    *)
EXTENDS Destination, FiniteSetTheorems, TLAPS

USE DEF Threads, NoThread

Topics == [chat : Chats, thread : Threads, service : Services]

LEMMA RequestExcept ==
  ASSUME NEW r \in Request, NEW pc \in {"idle", "select", "create", "insert"},
         NEW t \in Threads \cup {NoThread}
  PROVE  /\ [r EXCEPT !.pc = pc] \in Request
         /\ [r EXCEPT !.pc = pc].service = r.service /\ [r EXCEPT !.pc = pc].chat = r.chat
         /\ [r EXCEPT !.pc = pc].pc = pc
         /\ [r EXCEPT !.pc = pc, !.thread = t] =
              [pc |-> pc, by |-> r.by, service |-> r.service, chat |-> r.chat, thread |-> t]
<1> DEFINE x == [pc |-> r.pc, by |-> r.by, service |-> r.service, chat |-> r.chat,
                 thread |-> r.thread]
<1>1. r = x
  BY DEF Request
<1>2. [x EXCEPT !.pc = pc] = [pc |-> pc, by |-> r.by, service |-> r.service, chat |-> r.chat,
                              thread |-> r.thread]
  OBVIOUS
<1>3. [x EXCEPT !.pc = pc, !.thread = t] =
        [pc |-> pc, by |-> r.by, service |-> r.service, chat |-> r.chat, thread |-> t]
  <2> DEFINE y == [pc |-> pc, by |-> r.by, service |-> r.service, chat |-> r.chat,
                   thread |-> r.thread]
  <2>1. [y EXCEPT !.thread = t] =
          [pc |-> pc, by |-> r.by, service |-> r.service, chat |-> r.chat, thread |-> t]
    OBVIOUS
  <2>2. [x EXCEPT !.pc = pc, !.thread = t] = [[x EXCEPT !.pc = pc] EXCEPT !.thread = t]
    <3> HIDE DEF x
    <3> QED
      OBVIOUS
  <2> QED
    BY <1>2, <2>1, <2>2
<1>4. /\ r.by \in {"event", "link"} /\ r.service \in Services \cup {NoService}
      /\ r.chat \in Chats \cup {DM} /\ r.thread \in Threads \cup {NoThread}
  BY DEF Request
<1> HIDE DEF x
<1> QED
  BY <1>1, <1>2, <1>3, <1>4 DEF Request

LEMMA InitRouting == Init => Routing
<1> SUFFICES ASSUME Init PROVE Routing
  OBVIOUS
<1> USE DestinationBoundAssumption DEF Init
<1>1. made \in SUBSET Topics /\ IsFiniteSet(made)
  BY FS_EmptySet
<1>2. TypeOK
  <2>1. req \in [Requests -> Request] /\ topic \in [Services -> Threads \cup {NoThread}]
    BY DEF Request, Unused
  <2>2. flush \in [Flushers -> [pc : {"idle", "thread"},
                     service : Services \cup {NoService}, chat : Chats \cup {DM}]]
    BY DEF NotFlushing
  <2>3. disturbed \in BOOLEAN
    BY Zenon
  <2>4. binds \in 0..MaxBinds /\ clearing \in 0..binds
    BY SMT
  <2> QED
    BY <1>1, <2>1, <2>2, <2>3, <2>4 DEF TypeOK, Topics
<1>3. HandlersRemember /\ RowsAreCurrent /\ FlushesHaveGroup
  BY DEF HandlersRemember, RowsAreCurrent, FlushesHaveGroup, Unused, NotFlushing
<1>4. OwnTopic /\ NoGroupYet /\ HandlersAreCurrent
  BY DEF OwnTopic, NoGroupYet, NoRows, HandlersAreCurrent, OldGroup, Unused, NotFlushing
<1> QED
  BY <1>2, <1>3, <1>4 DEF Routing

-----------------------------------------------------------------------------
(* Each action preserves Routing. *)

LEMMA RouteRouting ==
  ASSUME Routing, NEW q \in Requests, NEW s \in Services,
         RouteEvent(q, s) \/ LinkTopic(q, s)
  PROVE  Routing'
<1> USE DEF Routing
<1>1. /\ \/ req' = req
         \/ /\ group # DM
            /\ \E by \in {"event", "link"} :
                 req' = [req EXCEPT ![q] = [pc |-> "select", by |-> by, service |-> s,
                                            chat |-> group, thread |-> NoThread]]
      /\ due' \in SUBSET Services /\ out' = {}
      /\ UNCHANGED <<group, topic, made, lost, flush, clearing, binds, disturbed>>
  BY DEF RouteEvent, LinkTopic, TypeOK
<1>2. group # DM => group \in Chats
  BY DEF TypeOK
<1>3. RowsAreCurrent' /\ FlushesHaveGroup' /\ OwnTopic'
  BY <1>1 DEF RowsAreCurrent, FlushesHaveGroup, OwnTopic
<1>4. ASSUME req' = req
      PROVE  Routing'
  BY <1>1, <1>3, <1>4 DEF TypeOK, HandlersRemember, HandlersAreCurrent, OldGroup, NoGroupYet
<1>5. ASSUME group # DM, NEW by \in {"event", "link"},
             req' = [req EXCEPT ![q] = [pc |-> "select", by |-> by, service |-> s,
                                        chat |-> group, thread |-> NoThread]]
      PROVE  Routing'
  <2>1. PICK x \in Request : /\ req' = [req EXCEPT ![q] = x]
                             /\ x.pc = "select" /\ x.service = s /\ x.chat = group
    <3> DEFINE y == [pc |-> "select", by |-> by, service |-> s, chat |-> group,
                     thread |-> NoThread]
    <3>1. y \in Request
      BY <1>2, <1>5 DEF Request
    <3> QED
      BY <1>5, <3>1
  <2>2. TypeOK'
    BY <1>1, <2>1 DEF TypeOK
  <2>3. HandlersRemember'
    BY <1>1, <1>2, <1>5, <2>1 DEF TypeOK, HandlersRemember
  <2>4. HandlersAreCurrent'
    BY <1>1, <2>1 DEF TypeOK, HandlersAreCurrent, OldGroup
  <2>5. NoGroupYet'
    BY <1>1, <1>5 DEF NoGroupYet
  <2> QED
    BY <1>3, <2>2, <2>3, <2>4, <2>5
<1> QED
  BY <1>1, <1>4, <1>5

LEMMA EnsureRouting ==
  ASSUME Routing, NEW q \in Requests,
         \/ SelectHit(q) \/ SelectMiss(q) \/ SelectFails(q) \/ CreateTopicFails(q)
         \/ InsertTopic(q) \/ InsertFails(q)
  PROVE  Routing'
<1> USE DEF Routing
<1> DEFINE s == req[q].service
<1>1. /\ req[q] \in Request /\ req[q].pc # "idle" /\ s \in Services
      /\ UNCHANGED <<group, made, flush, clearing, binds, disturbed>>
      /\ out' = {}
      /\ lost' \in [Services -> Nat]
  <2>1. /\ req[q] \in Request /\ req[q].pc # "idle" /\ out' = {}
        /\ UNCHANGED <<group, made, flush, clearing, binds, disturbed>>
        /\ lost' = lost \/ lost' = [lost EXCEPT ![s] = @ + 1]
    BY DEF SelectHit, SelectMiss, SelectFails, CreateTopicFails, InsertTopic, InsertFails, Lose,
           TypeOK
  <2>2. s \in Services
    BY <2>1 DEF HandlersRemember
  <2>3. lost \in [Services -> Nat]
    BY DEF TypeOK
  <2> QED
    BY <2>1, <2>2, <2>3
<1>2. /\ \/ req' = [req EXCEPT ![q] = Unused]
         \/ req' = [req EXCEPT ![q] = [@ EXCEPT !.pc = "create"]]
      /\ due' \in SUBSET Services
  BY <1>1 DEF SelectHit, SelectMiss, SelectFails, CreateTopicFails, InsertTopic, InsertFails,
              Finish, TypeOK
<1>a. PICK x : /\ req' = [req EXCEPT ![q] = x]
               /\ x \in Request /\ x.pc # "insert"
               /\ x.pc # "idle" => x.service = s /\ x.chat = req[q].chat
  <2>1. CASE req' = [req EXCEPT ![q] = Unused]
    <3>1. Unused \in Request /\ Unused.pc = "idle"
      BY DEF Unused, Request
    <3> QED
      BY <2>1, <3>1
  <2>2. CASE req' = [req EXCEPT ![q] = [@ EXCEPT !.pc = "create"]]
    <3> DEFINE y == [req[q] EXCEPT !.pc = "create"]
    <3>1. y \in Request /\ y.service = s /\ y.chat = req[q].chat /\ y.pc = "create"
      BY <1>1, RequestExcept
    <3>2. req' = [req EXCEPT ![q] = y]
      BY <2>2
    <3> HIDE DEF y
    <3> QED
      BY <3>1, <3>2
  <2> QED
    BY <1>2, <2>1, <2>2
<1>3. \/ topic' = topic
      \/ req[q].pc = "insert" /\ topic' = [topic EXCEPT ![s] = req[q].thread]
  BY DEF SelectHit, SelectMiss, SelectFails, CreateTopicFails, InsertTopic, InsertFails, InsertRow
<1>4. TypeOK'
  <2>1. req' \in [Requests -> Request]
    BY <1>a DEF TypeOK
  <2>2. topic' \in [Services -> Threads \cup {NoThread}]
    BY <1>1, <1>3 DEF TypeOK, Request
  <2> QED
    BY <2>1, <2>2, <1>1, <1>2 DEF TypeOK
<1>5. HandlersRemember'
  BY <1>1, <1>a DEF TypeOK, HandlersRemember
<1>6. HandlersAreCurrent'
  <2>1. req'[q].pc # "idle" => req'[q].chat = req[q].chat
    BY <1>1, <1>a DEF TypeOK
  <2>2. \A r \in Requests \ {q} : req'[r] = req[r]
    BY <1>a DEF TypeOK
  <2> QED
    BY <1>1, <2>1, <2>2 DEF HandlersAreCurrent, OldGroup
<1>7. RowsAreCurrent'
  <2> SUFFICES ASSUME ~disturbed, NEW r \in Services, topic'[r] # NoThread
               PROVE  Topic(group, topic'[r], r) \in made
    BY <1>1 DEF RowsAreCurrent
  <2>1. CASE topic'[r] = topic[r]
    BY <2>1 DEF RowsAreCurrent
  <2>2. CASE topic'[r] # topic[r]
    <3>1. req[q].pc = "insert" /\ r = s /\ topic'[r] = req[q].thread
      BY <1>1, <1>3, <2>2 DEF TypeOK
    <3>2. Topic(req[q].chat, req[q].thread, s) \in made
      BY <3>1 DEF HandlersRemember
    <3>3. req[q].chat = group
      BY <3>1 DEF HandlersAreCurrent, OldGroup
    <3> QED
      BY <3>1, <3>2, <3>3
  <2> QED
    BY <2>1, <2>2
<1>8. NoGroupYet'
  BY <1>1 DEF NoGroupYet
<1> QED
  BY <1>1, <1>4, <1>5, <1>6, <1>7, <1>8 DEF FlushesHaveGroup, OwnTopic

LEMMA CreateRouting ==
  ASSUME Routing, NEW q \in Requests, NEW n \in Threads,
         CreateTopic(q, n) \/ CreateTopicLost(q, n)
  PROVE  Routing'
<1> USE DEF Routing
<1> DEFINE t == Topic(req[q].chat, n, req[q].service)
<1>1. /\ t \in Topics /\ req[q] \in Request /\ req[q].pc = "create"
      /\ req[q].chat \in Chats
  BY DEF TypeOK, CreateTopic, CreateTopicLost, Made, HandlersRemember, Topics, Topic
<1>2. /\ made' = made \cup {t}
      /\ \/ req' = [req EXCEPT ![q] = [@ EXCEPT !.pc = "insert", !.thread = n]]
         \/ req' = [req EXCEPT ![q] = Unused]
      /\ due' \in SUBSET Services /\ lost' \in [Services -> Nat] /\ out' = {}
      /\ UNCHANGED <<group, topic, flush, clearing, binds, disturbed>>
  BY DEF CreateTopic, CreateTopicLost, Made, Lose, Finish, TypeOK, HandlersRemember
<1>3. n # NoThread
  BY DestinationBoundAssumption
<1>4. PICK x \in Request :
        /\ req' = [req EXCEPT ![q] = x]
        /\ \/ x.pc = "insert" /\ x.service = req[q].service /\ x.chat = req[q].chat /\ x.thread = n
           \/ x.pc = "idle"
  <2>1. CASE req' = [req EXCEPT ![q] = Unused]
    <3>1. Unused \in Request /\ Unused.pc = "idle"
      BY DEF Unused, Request
    <3> QED
      BY <2>1, <3>1
  <2>2. CASE req' = [req EXCEPT ![q] = [@ EXCEPT !.pc = "insert", !.thread = n]]
    <3> DEFINE y == [pc |-> "insert", by |-> req[q].by, service |-> req[q].service,
                     chat |-> req[q].chat, thread |-> n]
    <3>1. req' = [req EXCEPT ![q] = y]
      <4>1. [req[q] EXCEPT !.pc = "insert", !.thread = n] = y
        <5>1. \A r \in Request, k \in Threads \cup {NoThread} :
                [r EXCEPT !.pc = "insert", !.thread = k] =
                  [pc |-> "insert", by |-> r.by, service |-> r.service, chat |-> r.chat,
                   thread |-> k]
          BY RequestExcept
        <5> QED
          BY <1>1, <5>1
      <4> HIDE DEF y
      <4> QED
        BY <2>2, <4>1
    <3>2. y \in Request
      BY <1>1 DEF Request
    <3> QED
      BY <3>1, <3>2
  <2> QED
    BY <1>2, <2>1, <2>2
<1>5. TypeOK'
  <2>1. req' \in [Requests -> Request]
    BY <1>4 DEF TypeOK
  <2>2. made' \in SUBSET Topics
    BY <1>1, <1>2 DEF TypeOK, Topics
  <2>3. IsFiniteSet(made')
    <3> HIDE DEF t
    <3> QED
      BY <1>2, FS_AddElement DEF TypeOK
  <2> QED
    BY <2>1, <2>2, <2>3, <1>2 DEF TypeOK, Topics
<1>6. HandlersRemember'
  <2> SUFFICES ASSUME NEW r \in Requests
               PROVE  /\ req'[r].pc # "idle" => req'[r].service \in Services /\ req'[r].chat \in Chats
                      /\ req'[r].pc = "insert" =>
                           /\ req'[r].thread # NoThread
                           /\ Topic(req'[r].chat, req'[r].thread, req'[r].service) \in made'
    BY DEF HandlersRemember
  <2>1. CASE r = q
    <3>1. req'[r] = x
      BY <2>1, <1>4 DEF TypeOK
    <3> QED
      BY <3>1, <1>1, <1>2, <1>3, <1>4 DEF HandlersRemember
  <2>2. CASE r # q
    <3>1. req'[r] = req[r]
      BY <2>2, <1>4 DEF TypeOK
    <3> QED
      BY <3>1, <1>2 DEF HandlersRemember
  <2> QED
    BY <2>1, <2>2
<1>7. HandlersAreCurrent'
  <2>1. req'[q].pc # "idle" => req'[q].chat = req[q].chat
    BY <1>1, <1>4 DEF TypeOK
  <2>2. \A r \in Requests \ {q} : req'[r] = req[r]
    BY <1>4 DEF TypeOK
  <2> QED
    BY <1>1, <1>2, <2>1, <2>2 DEF HandlersAreCurrent, OldGroup
<1>8. RowsAreCurrent' /\ FlushesHaveGroup' /\ OwnTopic'
  BY <1>2 DEF RowsAreCurrent, FlushesHaveGroup, OwnTopic
<1>9. NoGroupYet'
  BY <1>1, <1>2 DEF NoGroupYet
<1> QED
  BY <1>5, <1>6, <1>7, <1>8, <1>9

(* A /connect of another group disturbs; one of the same group, or the     *)
(* first, leaves every row and handler as current as it was.               *)
LEMMA BindRouting ==
  ASSUME Routing, NEW c \in Chats, SetDeliveryMode(c)
  PROVE  Routing'
<1> USE DEF Routing
<1>1. /\ binds \in Nat /\ clearing \in Nat /\ clearing =< binds /\ binds + 1 =< MaxBinds
      /\ group' = c /\ binds' = binds + 1 /\ clearing' = clearing + 1
      /\ disturbed' = (disturbed \/ group \notin {DM, c}) /\ out' = {}
      /\ UNCHANGED <<topic, made, lost, req, due, flush>>
  BY DestinationBoundAssumption DEF SetDeliveryMode, TypeOK
<1>2. TypeOK'
  BY <1>1, DestinationBoundAssumption DEF TypeOK
<1>3. ~disturbed' => ~disturbed /\ (group = DM \/ group = c)
  BY <1>1
<1>4. RowsAreCurrent'
  <2> SUFFICES ASSUME ~disturbed', NEW s \in Services, topic[s] # NoThread
               PROVE  Topic(c, topic[s], s) \in made
    BY <1>1 DEF RowsAreCurrent
  <2>1. group # DM
    BY DEF NoGroupYet, NoRows
  <2> QED
    BY <1>3, <2>1 DEF RowsAreCurrent
<1>5. HandlersAreCurrent'
  <2> SUFFICES ASSUME ~disturbed', NEW q \in Requests, req[q].pc # "idle"
               PROVE  req[q].chat = c
    BY <1>1 DEF HandlersAreCurrent, OldGroup
  <2>1. group # DM
    BY DEF NoGroupYet
  <2> QED
    BY <1>3, <2>1 DEF HandlersAreCurrent, OldGroup
<1>6. NoGroupYet'
  BY <1>1, ChatAssumption DEF NoGroupYet
<1> QED
  BY <1>1, <1>2, <1>4, <1>5, <1>6 DEF HandlersRemember, FlushesHaveGroup, OwnTopic

LEMMA ClearRouting ==
  ASSUME Routing, ClearUserTopics
  PROVE  Routing'
<1> USE DEF Routing
<1>1. /\ \/ /\ topic' = NoRows
            /\ disturbed' = (disturbed /\ \E q \in Requests : OldGroup(q))
         \/ UNCHANGED <<topic, disturbed>>
      /\ clearing' = clearing - 1 /\ clearing > 0 /\ out' = {}
      /\ UNCHANGED <<group, made, lost, req, due, flush, binds>>
  BY DEF ClearUserTopics
<1>2. TypeOK'
  <2>1. topic' \in [Services -> Threads \cup {NoThread}] /\ disturbed' \in BOOLEAN
    BY <1>1 DEF TypeOK, NoRows
  <2> QED
    BY <1>1, <2>1, DestinationBoundAssumption DEF TypeOK
<1>3. RowsAreCurrent'
  <2>1. CASE topic' = NoRows
    BY <2>1 DEF RowsAreCurrent, NoRows
  <2>2. CASE UNCHANGED <<topic, disturbed>>
    BY <1>1, <2>2 DEF RowsAreCurrent
  <2> QED
    BY <1>1, <2>1, <2>2
<1>4. HandlersAreCurrent'
  <2>1. \A q \in Requests : OldGroup(q)' <=> OldGroup(q)
    BY <1>1 DEF OldGroup
  <2>2. CASE disturbed' = (disturbed /\ \E q \in Requests : OldGroup(q))
    BY <2>1, <2>2 DEF HandlersAreCurrent
  <2>3. CASE disturbed' = disturbed
    BY <2>1, <2>3 DEF HandlersAreCurrent
  <2> QED
    BY <1>1, <2>2, <2>3
<1>5. NoGroupYet'
  BY <1>1 DEF NoGroupYet
<1> QED
  BY <1>1, <1>2, <1>3, <1>4, <1>5 DEF HandlersRemember, FlushesHaveGroup, OwnTopic

LEMMA FlushRouting ==
  ASSUME Routing, NEW f \in Flushers,
         (\E s \in Services : FlushGetUser(f, s)) \/ FlushGetThread(f)
  PROVE  Routing'
<1> USE DEF Routing
<1>1. ASSUME NEW s \in Services, FlushGetUser(f, s)
      PROVE  Routing'
  <2>1. /\ \/ out' = {Message(s, DM, NoThread)} /\ flush' = flush
           \/ /\ group # DM /\ out' = {}
              /\ flush' = [flush EXCEPT ![f] = [pc |-> "thread", service |-> s, chat |-> group]]
        /\ due' = due \ {s}
        /\ UNCHANGED <<group, topic, made, lost, req, clearing, binds, disturbed>>
    BY <1>1 DEF FlushGetUser
  <2>2. group # DM => group \in Chats
    BY DEF TypeOK
  <2>3. TypeOK'
    <3>1. out' \in SUBSET [service : Services, chat : Chats \cup {DM},
                           thread : Threads \cup {NoThread}, calm : BOOLEAN]
      <4>1. Message(s, DM, NoThread) \in [service : Services, chat : Chats \cup {DM},
                                          thread : Threads \cup {NoThread}, calm : BOOLEAN]
        <5>1. (~disturbed /\ DM = group) \in BOOLEAN
          OBVIOUS
        <5> QED
          BY <5>1 DEF Message
      <4> QED
        BY <2>1, <4>1
    <3>2. flush' \in [Flushers -> [pc : {"idle", "thread"},
                       service : Services \cup {NoService}, chat : Chats \cup {DM}]]
      BY <2>1, <2>2 DEF TypeOK
    <3> QED
      BY <2>1, <3>1, <3>2 DEF TypeOK
  <2>4. FlushesHaveGroup'
    BY <2>1, <2>2 DEF TypeOK, FlushesHaveGroup
  <2>5. OwnTopic'
    BY <2>1 DEF OwnTopic, Message
  <2> QED
    BY <2>1, <2>3, <2>4, <2>5 DEF HandlersRemember, HandlersAreCurrent, OldGroup, RowsAreCurrent,
                                 NoGroupYet
<1>2. CASE FlushGetThread(f)
  <2> DEFINE x == flush[f].service
             c == flush[f].chat
  <2>1. /\ x \in Services /\ c \in Chats /\ topic[x] \in Threads \cup {NoThread}
    BY <1>2 DEF FlushGetThread, TypeOK, FlushesHaveGroup
  <2>2. PICK t \in {topic[x], NoThread} : out' = {Message(x, c, t)}
    BY <1>2 DEF FlushGetThread, GetTopicThread
  <2>3. /\ flush' = [flush EXCEPT ![f] = NotFlushing]
        /\ UNCHANGED <<group, topic, made, lost, req, due, clearing, binds, disturbed>>
    BY <1>2 DEF FlushGetThread
  <2>4. TypeOK'
    <3>1. Message(x, c, t) \in [service : Services, chat : Chats \cup {DM},
                                thread : Threads \cup {NoThread}, calm : BOOLEAN]
      BY <2>1, <2>2 DEF Message, TypeOK
    <3>2. flush' \in [Flushers -> [pc : {"idle", "thread"},
                       service : Services \cup {NoService}, chat : Chats \cup {DM}]]
      BY <2>3 DEF TypeOK, NotFlushing
    <3> HIDE DEF x, c
    <3> QED
      BY <2>2, <2>3, <3>1, <3>2 DEF TypeOK
  <2>5. OwnTopic'
    <3> SUFFICES ASSUME t # NoThread
                 PROVE  /\ c # DM
                        /\ (~disturbed /\ c = group) => Topic(c, t, x) \in made
      <4>1. Message(x, c, t).service = x /\ Message(x, c, t).chat = c
            /\ Message(x, c, t).thread = t
        BY DEF Message
      <4>2. Message(x, c, t).calm => ~disturbed /\ c = group
        BY DEF Message
      <4> HIDE DEF x, c
      <4> QED
        BY <2>2, <2>3, <4>1, <4>2 DEF OwnTopic
    <3> QED
      BY <2>1, <2>2, ChatAssumption DEF RowsAreCurrent
  <2>6. FlushesHaveGroup'
    BY <2>3 DEF TypeOK, FlushesHaveGroup, NotFlushing
  <2> QED
    BY <2>3, <2>4, <2>5, <2>6 DEF HandlersRemember, HandlersAreCurrent, OldGroup, RowsAreCurrent,
                                 NoGroupYet
<1> QED
  BY <1>1, <1>2

LEMMA StepRouting == Routing /\ [Next]_vars => Routing'
<1> SUFFICES ASSUME Routing, [Next]_vars PROVE Routing'
  OBVIOUS
<1>1. CASE UNCHANGED vars
  BY <1>1 DEF vars, Routing, TypeOK, HandlersRemember, HandlersAreCurrent, OldGroup,
     RowsAreCurrent, FlushesHaveGroup, OwnTopic, NoGroupYet
<1>2. CASE Next
  BY <1>2, RouteRouting, EnsureRouting, CreateRouting, BindRouting, ClearRouting, FlushRouting
     DEF Next, EnsureTopic
<1> QED
  BY <1>1, <1>2
-----------------------------------------------------------------------------
(* The number of topics. *)

LEMMA Counts ==
  ASSUME TypeOK, NEW s
  PROVE  /\ IsFiniteSet(Creations(s)) /\ Cardinality(Creations(s)) \in Nat
         /\ IsFiniteSet(At("insert", s)) /\ Cardinality(At("insert", s)) \in Nat
         /\ IsFiniteSet(At("create", s)) /\ Cardinality(At("create", s)) \in Nat
         /\ Cardinality(Requests) \in Nat
         /\ Cardinality(At("insert", s)) + Cardinality(At("create", s)) =< Cardinality(Requests)
         /\ Cleared \in Nat
         /\ s \in Services => lost[s] \in Nat
<1>1. IsFiniteSet(Creations(s))
  BY FS_Subset DEF TypeOK, Creations
<1>2. IsFiniteSet(At("insert", s)) /\ IsFiniteSet(At("create", s)) /\ IsFiniteSet(Requests)
  BY RequestAssumption, FS_Subset DEF At
<1>3. /\ At("insert", s) \cap At("create", s) = {}
      /\ At("insert", s) \cup At("create", s) \in SUBSET Requests
  BY DEF At
<1>4. Cardinality(At("insert", s) \cup At("create", s)) =
        Cardinality(At("insert", s)) + Cardinality(At("create", s))
  <2> DEFINE S == At("insert", s)
             T == At("create", s)
  <2>1. IsFiniteSet(S) /\ IsFiniteSet(T) /\ S \cap T = {}
    BY <1>2, <1>3
  <2> HIDE DEF S, T
  <2>2. Cardinality(S \cup T) = Cardinality(S) + Cardinality(T) - Cardinality(S \cap T)
    BY <2>1, FS_Union
  <2>3. Cardinality(S) \in Nat /\ Cardinality(T) \in Nat /\ Cardinality(S \cap T) = 0
    BY <2>1, FS_EmptySet, FS_CardinalityType
  <2>4. Cardinality(S \cup T) = Cardinality(S) + Cardinality(T)
    BY <2>2, <2>3
  <2> QED
    BY <2>4 DEF S, T
<1>5. Cardinality(At("insert", s) \cup At("create", s)) =< Cardinality(Requests)
  BY <1>2, <1>3, FS_Subset
<1>6. Cleared \in Nat
  BY DestinationBoundAssumption DEF TypeOK, Cleared
<1>7. s \in Services => lost[s] \in Nat
  BY DEF TypeOK
<1> QED
  BY <1>1, <1>2, <1>4, <1>5, <1>6, <1>7, FS_CardinalityType

(* A step that creates and stores no topic: handlers may only leave the    *)
(* callback or, while the row is missing, enter it.                        *)
LEMMA IdleCreations ==
  ASSUME TypeOK, CreationsBounded, NEW s \in Services,
         made' = made, topic' = topic, lost' = lost, Cleared' = Cleared,
         At("insert", s)' = At("insert", s),
         \/ At("create", s)' \in SUBSET At("create", s)
         \/ topic[s] = NoThread
  PROVE  Cardinality(Creations(s)') =<
           Cardinality(Requests) * Cleared' + lost'[s] +
             IF topic'[s] = NoThread
               THEN Cardinality(At("insert", s)')
               ELSE Cardinality(Requests) - Cardinality(At("create", s)')
<1> DEFINE K == Cardinality(Requests) * Cleared + lost[s]
           R == Cardinality(Requests)
           N == Cardinality(Creations(s))
           C == Cardinality(At("create", s))
           I == Cardinality(At("insert", s))
<1>1. /\ N \in Nat /\ C \in Nat /\ I \in Nat /\ R \in Nat /\ K \in Int
  BY Counts
<1>2. N =< K + IF topic[s] = NoThread THEN I ELSE R - C
  BY DEF CreationsBounded
<1>3. Creations(s)' = Creations(s)
  BY DEF Creations
<1>4. CASE topic[s] = NoThread
  BY <1>2, <1>3, <1>4
<1>5. CASE topic[s] # NoThread
  <2>1. Cardinality(At("create", s)') =< C /\ Cardinality(At("create", s)') \in Nat
    BY <1>5, Counts, FS_Subset, FS_CardinalityType
  <2>2. N =< K + (R - C)
    BY <1>2, <1>5
  <2>3. N =< K + (R - Cardinality(At("create", s)'))
    <3> HIDE DEF K, R, N, C, I
    <3> QED
      BY <1>1, <2>1, <2>2
  <2> QED
    BY <1>3, <1>5, <2>3
<1> QED
  BY <1>4, <1>5

(* A topic with a new number is one more of its service and none of any    *)
(* other's.                                                                *)
LEMMA MadeCreations ==
  ASSUME NEW q \in Requests, NEW n \in Threads, Made(q, n), NEW x, x = req[q].service
  PROVE  /\ Topic(req[q].chat, n, x) \notin made
         /\ Creations(x)' = Creations(x) \cup {Topic(req[q].chat, n, x)}
         /\ \A s \in Services \ {x} : Creations(s)' = Creations(s)
<1> DEFINE t == Topic(req[q].chat, n, x)
<1>1. t.chat = req[q].chat /\ t.thread = n /\ t.service = x
  BY DEF Topic
<1>2. made' = made \cup {t} /\ n \notin 1..(n - 1)
      /\ {m.thread : m \in {y \in made : y.chat = req[q].chat}} = 1..(n - 1)
  BY DestinationBoundAssumption DEF Made
<1>3. t \notin made
  <2> SUFFICES ASSUME t \in made PROVE FALSE
    OBVIOUS
  <2> HIDE DEF t
  <2>1. t.thread \in {m.thread : m \in {y \in made : y.chat = req[q].chat}}
    BY <1>1
  <2> QED
    BY <1>1, <1>2, <2>1
<1>4. \A s : Creations(s)' = Creations(s) \cup {m \in {t} : m.service = s}
  <2> HIDE DEF t
  <2> QED
    BY <1>2 DEF Creations
<1> QED
  BY <1>1, <1>3, <1>4

LEMMA CreateCreations ==
  ASSUME Routing, CreationsBounded, NEW q \in Requests, NEW n \in Threads, CreateTopic(q, n)
  PROVE  CreationsBounded'
<1>1. PICK x \in Services :
        /\ TypeOK /\ req[q] \in Request /\ req[q].pc = "create" /\ x = req[q].service
  BY DEF Routing, TypeOK, CreateTopic, Made, HandlersRemember
<1> DEFINE t == Topic(req[q].chat, n, x)
<1>2. /\ Made(q, n)
      /\ req' = [req EXCEPT ![q] = [@ EXCEPT !.pc = "insert", !.thread = n]]
      /\ topic' = topic /\ lost' = lost /\ Cleared' = Cleared
  BY DEF CreateTopic, Cleared
<1>3. /\ t \notin made /\ Creations(x)' = Creations(x) \cup {t}
      /\ \A s \in Services \ {x} : Creations(s)' = Creations(s)
  BY <1>1, <1>2, MadeCreations
<1>4. /\ req'[q].pc = "insert" /\ req'[q].service = x
      /\ \A r \in Requests \ {q} : req'[r] = req[r]
  BY <1>1, <1>2 DEF TypeOK, Request
<1> HIDE DEF t
<1> SUFFICES ASSUME NEW s \in Services
             PROVE  Cardinality(Creations(s)') =<
                      Cardinality(Requests) * Cleared' + lost'[s] +
                        IF topic'[s] = NoThread
                          THEN Cardinality(At("insert", s)')
                          ELSE Cardinality(Requests) - Cardinality(At("create", s)')
  BY DEF CreationsBounded
<1>5. CASE s # x
  <2>1. Creations(s)' = Creations(s)
    BY <1>3, <1>5
  <2>2. At("insert", s)' = At("insert", s) /\ At("create", s)' = At("create", s)
    BY <1>1, <1>4, <1>5 DEF At
  <2> QED
    BY <2>1, <2>2, <1>2 DEF CreationsBounded
<1>6. CASE s = x
  <2> DEFINE K == Cardinality(Requests) * Cleared + lost[s]
             R == Cardinality(Requests)
             N == Cardinality(Creations(s))
             C == Cardinality(At("create", s))
             I == Cardinality(At("insert", s))
  <2>1. N \in Nat /\ C \in Nat /\ I \in Nat /\ R \in Nat /\ K \in Int
    BY <1>1, Counts
  <2>2. N =< K + IF topic[s] = NoThread THEN I ELSE R - C
    BY DEF CreationsBounded
  <2>3. Creations(s)' = Creations(s) \cup {t} /\ t \notin Creations(s)
    <3>1. \A m : m \notin made => m \notin Creations(s)
      BY DEF Creations
    <3> QED
      BY <3>1, <1>3, <1>6
  <2>4. At("insert", s)' = At("insert", s) \cup {q} /\ q \notin At("insert", s)
    BY <1>1, <1>4, <1>6 DEF At
  <2>5. At("create", s)' = At("create", s) \ {q} /\ q \in At("create", s)
    BY <1>1, <1>4, <1>6 DEF At
  <2>6. /\ Cardinality(Creations(s)') = N + 1
        /\ Cardinality(At("insert", s)') = I + 1
        /\ Cardinality(At("create", s)') = C - 1
    <3>1. IsFiniteSet(Creations(s)) /\ IsFiniteSet(At("insert", s)) /\ IsFiniteSet(At("create", s))
      BY <1>1, Counts
    <3>2. Cardinality(Creations(s)') = N + 1
      BY <3>1, <2>3, FS_AddElement
    <3>3. Cardinality(At("insert", s)') = I + 1
      BY <3>1, <2>4, FS_AddElement
    <3>4. Cardinality(At("create", s)') = C - 1
      BY <3>1, <2>5, FS_RemoveElement
    <3> QED
      BY <3>2, <3>3, <3>4
  <2>7. N + 1 =< K + IF topic[s] = NoThread THEN I + 1 ELSE R - (C - 1)
    <3> HIDE DEF K, R, N, C, I
    <3> QED
      BY <2>1, <2>2
  <2> QED
    BY <1>2, <2>6, <2>7
<1> QED
  BY <1>5, <1>6

LEMMA LostCreations ==
  ASSUME Routing, CreationsBounded, NEW q \in Requests, NEW n,
         (n \in Threads /\ CreateTopicLost(q, n)) \/ InsertFails(q)
  PROVE  CreationsBounded'
<1>1. PICK x \in Services :
      /\ TypeOK /\ req[q] \in Request /\ x = req[q].service
      /\ req' = [req EXCEPT ![q] = Unused] /\ topic' = topic
      /\ lost' = [lost EXCEPT ![x] = @ + 1] /\ Cleared' = Cleared
  BY DEF Routing, TypeOK, HandlersRemember, CreateTopicLost, InsertFails, Made, Lose, Finish,
     Cleared
<1>2. /\ req'[q].pc = "idle" /\ \A r \in Requests \ {q} : req'[r] = req[r]
      /\ lost'[x] = lost[x] + 1 /\ \A s \in Services \ {x} : lost'[s] = lost[s]
  BY <1>1 DEF TypeOK, Unused
<1> DEFINE t == Topic(req[q].chat, n, x)
<1>3. /\ \/ req[q].pc = "create" /\ Creations(x)' = Creations(x) \cup {t}
         \/ req[q].pc = "insert" /\ Creations(x)' = Creations(x)
      /\ \A s \in Services \ {x} : Creations(s)' = Creations(s)
  <2>1. ASSUME n \in Threads, CreateTopicLost(q, n)
        PROVE  /\ req[q].pc = "create" /\ Creations(x)' = Creations(x) \cup {t}
               /\ \A s \in Services \ {x} : Creations(s)' = Creations(s)
    <3>1. Made(q, n) /\ req[q].pc = "create"
      BY <2>1 DEF CreateTopicLost, Made
    <3> QED
      BY <1>1, <2>1, <3>1, MadeCreations
  <2>2. CASE InsertFails(q)
    BY <2>2 DEF InsertFails, Creations
  <2> QED
    BY <2>1, <2>2
<1> HIDE DEF t
<1> SUFFICES ASSUME NEW s \in Services
             PROVE  Cardinality(Creations(s)') =<
                      Cardinality(Requests) * Cleared' + lost'[s] +
                        IF topic'[s] = NoThread
                          THEN Cardinality(At("insert", s)')
                          ELSE Cardinality(Requests) - Cardinality(At("create", s)')
  BY DEF CreationsBounded
<1>5. CASE s # x
  <2>1. At("insert", s)' = At("insert", s) /\ At("create", s)' = At("create", s)
    BY <1>1, <1>2, <1>5 DEF At
  <2> QED
    BY <2>1, <1>1, <1>2, <1>3, <1>5 DEF CreationsBounded
<1>6. CASE s = x
  <2> DEFINE K == Cardinality(Requests) * Cleared + lost[s]
             R == Cardinality(Requests)
             N == Cardinality(Creations(s))
             C == Cardinality(At("create", s))
             I == Cardinality(At("insert", s))
  <2>1. N \in Nat /\ C \in Nat /\ I \in Nat /\ R \in Nat /\ K \in Int
    BY <1>1, Counts
  <2>2. N =< K + IF topic[s] = NoThread THEN I ELSE R - C
    BY DEF CreationsBounded
  <2>3. /\ IsFiniteSet(Creations(s)) /\ IsFiniteSet(At("insert", s))
        /\ IsFiniteSet(At("create", s))
    BY <1>1, Counts
  <2>4. K + 1 = Cardinality(Requests) * Cleared' + lost'[s]
    <3> DEFINE k == R * Cleared
               l == lost[s]
    <3>1. k \in Int /\ l \in Nat
      BY <1>1, Counts
    <3>2. (k + l) + 1 = k + (l + 1)
      <4> HIDE DEF k, l
      <4> QED
        BY <3>1
    <3> QED
      BY <3>2, <1>1, <1>2, <1>6
  <2>5. CASE req[q].pc = "create"
    <3>1. Cardinality(Creations(s)') =< N + 1 /\ Cardinality(Creations(s)') \in Nat
      <4>1. Creations(s)' = Creations(s) \cup {t}
        BY <1>3, <1>6, <2>5
      <4>2. Cardinality(Creations(s) \cup {t}) \in {N, N + 1}
        BY <2>3, FS_AddElement
      <4> QED
        BY <4>1, <4>2, <2>1
    <3>2. At("insert", s)' = At("insert", s)
      BY <1>1, <1>2, <2>5 DEF At
    <3>3. At("create", s)' = At("create", s) \ {q} /\ q \in At("create", s)
      BY <1>1, <1>2, <1>6, <2>5 DEF At
    <3>4. Cardinality(At("create", s)') = C - 1
      BY <3>3, <2>3, FS_RemoveElement
    <3>5. N + 1 =< (K + 1) + IF topic[s] = NoThread THEN I ELSE R - (C - 1)
      <4> HIDE DEF K, R, N, C, I
      <4> QED
        BY <2>1, <2>2
    <3>6. Cardinality(Creations(s)') =< (K + 1) + IF topic[s] = NoThread THEN I ELSE R - (C - 1)
      <4> HIDE DEF K, R, N, C, I
      <4> QED
        BY <2>1, <3>1, <3>5
    <3> QED
      BY <1>1, <2>4, <3>2, <3>4, <3>6
  <2>6. CASE req[q].pc = "insert"
    <3>1. Creations(s)' = Creations(s) /\ At("create", s)' = At("create", s)
      BY <1>1, <1>2, <1>3, <1>6, <2>6 DEF At
    <3>2. At("insert", s)' = At("insert", s) \ {q} /\ q \in At("insert", s)
      BY <1>1, <1>2, <1>6, <2>6 DEF At
    <3>3. Cardinality(At("insert", s)') = I - 1
      BY <3>2, <2>3, FS_RemoveElement
    <3>4. N =< (K + 1) + IF topic[s] = NoThread THEN I - 1 ELSE R - C
      <4> HIDE DEF K, R, N, C, I
      <4> QED
        BY <2>1, <2>2
    <3> QED
      BY <1>1, <2>4, <3>1, <3>3, <3>4
  <2> QED
    BY <1>3, <2>5, <2>6
<1> QED
  BY <1>5, <1>6

LEMMA InsertCreations ==
  ASSUME Routing, CreationsBounded, NEW q \in Requests, InsertTopic(q)
  PROVE  CreationsBounded'
<1> DEFINE x == req[q].service
<1>1. /\ TypeOK /\ req[q].pc = "insert" /\ x \in Services /\ req[q].thread # NoThread
  BY DEF Routing, InsertTopic, HandlersRemember
<1>2. /\ made' = made /\ lost' = lost /\ Cleared' = Cleared
      /\ req' = [req EXCEPT ![q] = Unused]
      /\ topic' = IF topic[x] = NoThread THEN [topic EXCEPT ![x] = req[q].thread] ELSE topic
  BY DEF InsertTopic, InsertRow, Finish, Cleared
<1>3. req'[q].pc = "idle" /\ \A r \in Requests \ {q} : req'[r] = req[r]
  BY <1>1, <1>2 DEF TypeOK, Unused
<1> SUFFICES ASSUME NEW s \in Services
             PROVE  Cardinality(Creations(s)') =<
                      Cardinality(Requests) * Cleared' + lost'[s] +
                        IF topic'[s] = NoThread
                          THEN Cardinality(At("insert", s)')
                          ELSE Cardinality(Requests) - Cardinality(At("create", s)')
  BY DEF CreationsBounded
<1>4. At("create", s)' = At("create", s) /\ Creations(s)' = Creations(s)
  BY <1>1, <1>2, <1>3 DEF At, Creations
<1>5. CASE s # x
  <2>1. At("insert", s)' = At("insert", s) /\ topic'[s] = topic[s]
    BY <1>1, <1>2, <1>3, <1>5 DEF At, TypeOK
  <2> QED
    BY <2>1, <1>2, <1>4 DEF CreationsBounded
<1>6. CASE s = x
  <2> DEFINE K == Cardinality(Requests) * Cleared + lost[s]
             R == Cardinality(Requests)
             N == Cardinality(Creations(s))
             C == Cardinality(At("create", s))
             I == Cardinality(At("insert", s))
  <2>1. /\ N \in Nat /\ C \in Nat /\ I \in Nat /\ R \in Nat /\ K \in Int
        /\ I + C =< R
    BY <1>1, Counts
  <2>2. N =< K + IF topic[s] = NoThread THEN I ELSE R - C
    BY DEF CreationsBounded
  <2>3. topic'[s] # NoThread
    BY <1>1, <1>2, <1>6 DEF TypeOK
  <2>4. N =< K + (R - C)
    <3> HIDE DEF K, R, N, C, I
    <3> QED
      BY <2>1, <2>2
  <2> QED
    BY <1>2, <1>4, <2>3, <2>4
<1> QED
  BY <1>5, <1>6

LEMMA ClearCreations ==
  ASSUME Routing, CreationsBounded, ClearUserTopics
  PROVE  CreationsBounded'
<1>1. /\ TypeOK /\ made' = made /\ req' = req /\ lost' = lost
      /\ topic' = topic \/ topic' = [s \in Services |-> NoThread]
  BY DEF Routing, ClearUserTopics, NoRows
<1>2. Cleared' = Cleared + 1 /\ Cleared \in Nat
  BY DestinationBoundAssumption DEF Routing, TypeOK, ClearUserTopics, Cleared
<1> SUFFICES ASSUME NEW s \in Services
             PROVE  Cardinality(Creations(s)') =<
                      Cardinality(Requests) * Cleared' + lost'[s] +
                        IF topic'[s] = NoThread
                          THEN Cardinality(At("insert", s)')
                          ELSE Cardinality(Requests) - Cardinality(At("create", s)')
  BY DEF CreationsBounded
<1> DEFINE K == Cardinality(Requests) * Cleared + lost[s]
           R == Cardinality(Requests)
           N == Cardinality(Creations(s))
           C == Cardinality(At("create", s))
           I == Cardinality(At("insert", s))
<1>3. /\ N \in Nat /\ C \in Nat /\ I \in Nat /\ R \in Nat /\ K \in Int
      /\ I + C =< R
  BY <1>1, Counts
<1>4. N =< K + IF topic[s] = NoThread THEN I ELSE R - C
  BY DEF CreationsBounded
<1>5. /\ Creations(s)' = Creations(s) /\ At("insert", s)' = At("insert", s)
      /\ At("create", s)' = At("create", s)
  BY <1>1 DEF Creations, At
<1>6. Cardinality(Requests) * Cleared' + lost'[s] = K + R
  <2> DEFINE c == Cleared
             l == lost[s]
  <2>1. c \in Nat /\ R \in Nat /\ l \in Nat
    BY <1>1, <1>2, <1>3, Counts
  <2>2. R * (c + 1) + l = (R * c + l) + R
    <3> HIDE DEF R, c, l
    <3> QED
      BY <2>1
  <2> QED
    BY <1>1, <1>2, <2>2
<1>7. N =< (K + R) + I /\ N =< (K + R) + (R - C)
  <2> HIDE DEF K, R, N, C, I
  <2> QED
    BY <1>3, <1>4
<1> QED
  BY <1>5, <1>6, <1>7

LEMMA StepCreations == Routing /\ CreationsBounded /\ [Next]_vars => CreationsBounded'
<1> SUFFICES ASSUME Routing, CreationsBounded, [Next]_vars PROVE CreationsBounded'
  OBVIOUS
<1>1. TypeOK
  BY DEF Routing
<1>2. ASSUME made' = made, topic' = topic, lost' = lost, Cleared' = Cleared,
             \A s \in Services : /\ At("insert", s)' = At("insert", s)
                                 /\ \/ At("create", s)' \in SUBSET At("create", s)
                                    \/ topic[s] = NoThread
      PROVE  CreationsBounded'
  BY <1>1, <1>2, IdleCreations DEF CreationsBounded
<1>3. ASSUME made' = made, topic' = topic, lost' = lost, Cleared' = Cleared, req' = req
      PROVE  CreationsBounded'
  BY <1>2, <1>3 DEF At
<1>4. ASSUME NEW q \in Requests, NEW s \in Services, RouteEvent(q, s) \/ LinkTopic(q, s)
      PROVE  CreationsBounded'
  <2>1. /\ req[q].pc = "idle" /\ req'[q].pc \in {"idle", "select"}
        /\ \A r \in Requests \ {q} : req'[r] = req[r]
        /\ made' = made /\ topic' = topic /\ lost' = lost /\ Cleared' = Cleared
    BY <1>4, <1>1 DEF RouteEvent, LinkTopic, TypeOK, Cleared
  <2> QED
    BY <2>1, <1>2 DEF At
<1>5. ASSUME NEW q \in Requests, SelectHit(q) \/ SelectMiss(q) \/ SelectFails(q) \/ CreateTopicFails(q)
      PROVE  CreationsBounded'
  <2>1. /\ made' = made /\ topic' = topic /\ lost' = lost /\ Cleared' = Cleared
        /\ \A r \in Requests \ {q} : req'[r] = req[r]
        /\ req[q].pc \in {"select", "create"}
        /\ \/ req'[q].pc = "idle"
           \/ /\ req'[q].pc = "create" /\ req'[q].service = req[q].service
              /\ topic[req[q].service] = NoThread
    BY <1>5, <1>1 DEF SelectHit, SelectMiss, SelectFails, CreateTopicFails, Finish, Unused, TypeOK, Request, Cleared
  <2> QED
    BY <2>1, <1>2 DEF At
<1>6. ASSUME NEW c \in Chats, SetDeliveryMode(c)
      PROVE  CreationsBounded'
  <2>1. Cleared' = Cleared
    BY <1>6, <1>1 DEF SetDeliveryMode, TypeOK, Cleared
  <2> QED
    BY <2>1, <1>3, <1>6 DEF SetDeliveryMode
<1>7. ASSUME NEW f \in Flushers, NEW s \in Services, FlushGetUser(f, s)
      PROVE  CreationsBounded'
  BY <1>3, <1>7 DEF FlushGetUser, Cleared
<1>8. ASSUME NEW f \in Flushers, FlushGetThread(f)
      PROVE  CreationsBounded'
  BY <1>3, <1>8 DEF FlushGetThread, Cleared
<1>9. CASE UNCHANGED vars
  BY <1>3, <1>9 DEF vars, Cleared
<1> QED
  BY <1>4, <1>5, <1>6, <1>7, <1>8, <1>9, CreateCreations, LostCreations, InsertCreations,
     ClearCreations
     DEF Next, EnsureTopic

LEMMA InitCreations == Init => CreationsBounded
<1> SUFFICES ASSUME Init PROVE CreationsBounded
  OBVIOUS
<1>1. TypeOK /\ made = {} /\ Cleared = 0 /\ topic = [s \in Services |-> NoThread]
  BY InitRouting DEF Routing, Init, Cleared
<1> SUFFICES ASSUME NEW s \in Services
             PROVE  Cardinality(Creations(s)) =<
                      Cardinality(Requests) * Cleared + lost[s] +
                        IF topic[s] = NoThread
                          THEN Cardinality(At("insert", s))
                          ELSE Cardinality(Requests) - Cardinality(At("create", s))
  BY DEF CreationsBounded
<1>2. Creations(s) = {}
  BY <1>1 DEF Creations
<1>3. Cardinality(Creations(s)) = 0
  BY <1>2, FS_EmptySet
<1>4. Cardinality(Requests) * Cleared = 0
  BY <1>1, Counts
<1> QED
  BY <1>1, <1>3, <1>4, Counts

-----------------------------------------------------------------------------
(* IInv is inductive, so it holds in every reachable state.                *)
THEOREM Inductive == Spec => []IInv
<1>1. Init => IInv
  BY InitRouting, InitCreations DEF IInv
<1>2. IInv /\ [Next]_vars => IInv'
  BY StepRouting, StepCreations DEF IInv
<1> QED
  BY <1>1, <1>2, PTL DEF Spec

(* The variables keep their types.                                         *)
THEOREM TypeCorrect == Spec => []TypeOK
<1>1. IInv => TypeOK
  BY DEF IInv, Routing
<1> QED
  BY <1>1, Inductive, PTL

(* No message carries a topic's number into the chat with the bot, and as  *)
(* long as the flush and the rows are of the user's group, none goes to    *)
(* another service's topic, whatever numbers Telegram gives.               *)
THEOREM TopicsAreOwn == Spec => []OwnTopic
<1>1. IInv => OwnTopic
  BY DEF IInv, Routing
<1> QED
  BY <1>1, Inductive, PTL

(* A successful ClearUserTopics with no handler of an earlier group at     *)
(* work makes the rows current, and they stay so until the user moves to   *)
(* another group.                                                          *)
THEOREM RowsStayCurrent == Spec => []RowsAreCurrent
<1>1. IInv => RowsAreCurrent
  BY DEF IInv, Routing
<1> QED
  BY <1>1, Inductive, PTL

(* Two handlers that race to create a topic leave one row, the first.      *)
THEOREM FirstTopicWins == Spec => FirstTopicStays
<1>1. ASSUME IInv, [Next]_vars, NEW s \in Services, topic[s] # NoThread, topic'[s] # topic[s]
      PROVE  topic'[s] = NoThread /\ Cleared' > Cleared
  <2> USE <1>1
  <2>1. CASE ClearUserTopics
    BY <2>1, DestinationBoundAssumption DEF ClearUserTopics, NoRows, IInv, Routing, TypeOK, Cleared
  <2>2. ASSUME NEW q \in Requests, InsertTopic(q)
        PROVE  topic'[s] = topic[s]
    BY <2>2 DEF InsertTopic, InsertRow, IInv, Routing, TypeOK
  <2>3. CASE topic' = topic
    BY <2>3
  <2> QED
    BY <2>1, <2>2, <2>3 DEF Next, vars, EnsureTopic, RouteEvent, LinkTopic, SelectHit, SelectMiss,
         SelectFails,
         CreateTopic, CreateTopicFails, CreateTopicLost, InsertFails, SetDeliveryMode,
         FlushGetUser, FlushGetThread
<1>2. IInv /\ [Next]_vars =>
        [\A s \in Services : topic[s] # NoThread /\ topic'[s] # topic[s] =>
           topic'[s] = NoThread /\ Cleared' > Cleared]_vars
  BY <1>1
<1> QED
  BY <1>2, Inductive, PTL DEF Spec, FirstTopicStays

(* However the handlers race, the bot creates a bounded number of topics.  *)
THEOREM TopicsAreBounded == Spec => []TopicsBounded
<1>1. IInv => TopicsBounded
  <2> SUFFICES ASSUME IInv, NEW s \in Services
               PROVE  Cardinality(Creations(s)) =<
                        Cardinality(Requests) * (Cleared + 1) + lost[s]
    BY DEF TopicsBounded
  <2> DEFINE K == Cardinality(Requests) * Cleared + lost[s]
             R == Cardinality(Requests)
             N == Cardinality(Creations(s))
             C == Cardinality(At("create", s))
             I == Cardinality(At("insert", s))
             c == Cleared
             l == lost[s]
  <2>1. /\ N \in Nat /\ C \in Nat /\ I \in Nat /\ R \in Nat /\ K \in Int
        /\ c \in Nat /\ l \in Nat
        /\ I + C =< R
    BY Counts DEF IInv, Routing
  <2>2. N =< K + IF topic[s] = NoThread THEN I ELSE R - C
    BY DEF IInv, CreationsBounded
  <2>3. R * (c + 1) + l = (R * c + l) + R
    <3> HIDE DEF R, c, l
    <3> QED
      BY <2>1
  <2>4. N =< K + R
    <3> HIDE DEF K, R, N, C, I
    <3> QED
      BY <2>1, <2>2
  <2> QED
    BY <2>3, <2>4
<1> QED
  BY <1>1, Inductive, PTL
=============================================================================
