----------------------------- MODULE Destination -----------------------------
(***************************************************************************)
(* Where a user's messages go: the group of /connect (menu/setup.go), the  *)
(* topic of each service (store/topics.go, called back into Telegram by    *)
(* store/routing.go and ingest.go) and the flush that looks both up again  *)
(* (dispatch/dispatch.go).                                                 *)
(*                                                                         *)
(* None of these holds a lock or a transaction over two statements, so     *)
(* each handler is split at every statement and Telegram call. One user is *)
(* modelled; every query is keyed by the user. Telegram numbers the topics *)
(* ("threads") of each group for itself, so that the number of a topic of  *)
(* one group may be another service's topic in the next.                   *)
(***************************************************************************)
EXTENDS Integers, Sequences, FiniteSets

CONSTANTS Services,
          NoService,   \* what an idle handler works for
          Chats,       \* groups the user runs /connect in
          DM,          \* the chat with the user: delivery_mode is 'dm'
          Requests,    \* HTTP handler goroutines
          Flushers,    \* coalescer goroutines inside Flush
          MaxBinds,    \* bound: /connect commands that pass the code check
          MaxThreads,  \* bound: topics created in one group
          MaxLost,     \* bound: topics of a service that were never stored
          Faults       \* what may fail, a subset of FaultKinds

FaultKinds == {"create",  \* createForumTopic, or its answer
               "insert",  \* the INSERT of EnsureTopic: the client hung up, say
               "clear",   \* the DELETE of ClearUserTopics (logged, ignored)
               "read"}    \* a SELECT of EnsureTopic or of Flush

ASSUME ServiceAssumption == NoService \notin Services
ASSUME ChatAssumption == DM \notin Chats
ASSUME RequestAssumption == IsFiniteSet(Requests)
ASSUME DestinationBoundAssumption == MaxBinds \in Nat /\ MaxThreads \in Nat /\ MaxLost \in Nat
ASSUME DestinationFaultsAssumption == Faults \subseteq FaultKinds

NoThread == 0   \* no row, or message_thread_id 0: the General topic
Threads == 1..MaxThreads

VARIABLES group,     \* users.delivery_mode and group_chat_id
          topic,     \* the group_topics rows
          made,      \* Telegram: the topics, each in its chat under its number
          lost,      \* topics of each service whose creator failed to store them
          req,       \* what each HTTP handler is doing
          due,       \* services with a batch that was not flushed
          flush,     \* what each Flush is doing
          clearing,  \* finishSetup handlers between their two statements
          binds,     \* finishSetup handlers so far
          out,       \* the delivery the last step handed over
          disturbed  \* observer: rows or handlers may be of an earlier group

vars == <<group, topic, made, lost, req, due, flush, clearing, binds, out, disturbed>>

Unused == [pc |-> "idle", by |-> "event", service |-> NoService, chat |-> DM,
           thread |-> NoThread]
NotFlushing == [pc |-> "idle", service |-> NoService, chat |-> DM]

(* Nothing is known of the user but the row /start made. *)
Init ==
  /\ group = DM
  /\ topic = [s \in Services |-> NoThread]
  /\ made = {}
  /\ lost = [s \in Services |-> 0]
  /\ req = [q \in Requests |-> Unused]
  /\ due = {}
  /\ flush = [f \in Flushers |-> NotFlushing]
  /\ clearing = 0
  /\ binds = 0
  /\ out = {}
  /\ disturbed = FALSE

-----------------------------------------------------------------------------
(* HTTP handlers: EnsureTopic and its two callers. *)

(* The handler of an event goes on to the coalescer whatever became of the *)
(* topic; the handler of a link answers.                                   *)
Finish(q) ==
  /\ req' = [req EXCEPT ![q] = Unused]
  /\ due' = IF req[q].by = "event" THEN due \cup {req[q].service} ELSE due

(* ResolveRoutes, its query, for a user the event is routed to; a user in  *)
(* dm mode needs no topic.                                                 *)
RouteEvent(q, s) ==
  /\ req[q].pc = "idle"
  /\ IF group = DM
       THEN /\ due' = due \cup {s}
            /\ UNCHANGED req
       ELSE /\ req' = [req EXCEPT ![q] = [pc |-> "select", by |-> "event", service |-> s,
                                          chat |-> group, thread |-> NoThread]]
            /\ UNCHANGED due
  /\ UNCHANGED <<group, topic, made, lost, flush, clearing, binds, disturbed>>
  /\ out' = {}

(* handleLink's topic step: GetUser. *)
LinkTopic(q, s) ==
  /\ req[q].pc = "idle"
  /\ group # DM
  /\ req' = [req EXCEPT ![q] = [pc |-> "select", by |-> "link", service |-> s,
                                chat |-> group, thread |-> NoThread]]
  /\ UNCHANGED <<group, topic, made, lost, due, flush, clearing, binds, disturbed>>
  /\ out' = {}

(* EnsureTopic: the row is there. *)
SelectHit(q) ==
  /\ req[q].pc = "select"
  /\ topic[req[q].service] # NoThread
  /\ Finish(q)
  /\ UNCHANGED <<group, topic, made, lost, flush, clearing, binds, disturbed>>
  /\ out' = {}

SelectMiss(q) ==
  /\ req[q].pc = "select"
  /\ topic[req[q].service] = NoThread
  /\ req' = [req EXCEPT ![q].pc = "create"]
  /\ UNCHANGED <<group, topic, made, lost, due, flush, clearing, binds, disturbed>>
  /\ out' = {}

SelectFails(q) ==
  /\ "read" \in Faults
  /\ req[q].pc = "select"
  /\ Finish(q)
  /\ UNCHANGED <<group, topic, made, lost, flush, clearing, binds, disturbed>>
  /\ out' = {}

Topic(c, t, s) == [chat |-> c, thread |-> t, service |-> s]

(* createForumTopic, on Telegram's side, in the chat read before: the      *)
(* topic gets the next number of that chat.                                *)
Made(q, t) ==
  /\ req[q].pc = "create"
  /\ {m.thread : m \in {x \in made : x.chat = req[q].chat}} = 1..(t - 1)
  /\ made' = made \cup {Topic(req[q].chat, t, req[q].service)}

Lose(s) ==
  /\ lost[s] < MaxLost
  /\ lost' = [lost EXCEPT ![s] = @ + 1]

(* The creator callback. *)
CreateTopic(q, t) ==
  /\ Made(q, t)
  /\ req' = [req EXCEPT ![q] = [@ EXCEPT !.pc = "insert", !.thread = t]]
  /\ UNCHANGED <<group, topic, lost, due, flush, clearing, binds, disturbed>>
  /\ out' = {}

CreateTopicFails(q) ==
  /\ "create" \in Faults
  /\ req[q].pc = "create"
  /\ Finish(q)
  /\ UNCHANGED <<group, topic, made, lost, flush, clearing, binds, disturbed>>
  /\ out' = {}

(* Telegram made the topic, but its answer did not arrive. *)
CreateTopicLost(q, t) ==
  /\ "create" \in Faults
  /\ Made(q, t)
  /\ Lose(req[q].service)
  /\ Finish(q)
  /\ UNCHANGED <<group, topic, flush, clearing, binds, disturbed>>
  /\ out' = {}

(* Mutant: the row is not stored. *)
ForgetRow(s, thread) == topic

(* ON CONFLICT DO NOTHING. *)
InsertRow(s, thread) ==
  IF topic[s] = NoThread THEN [topic EXCEPT ![s] = thread] ELSE topic

InsertTopic(q) ==
  /\ req[q].pc = "insert"
  /\ topic' = InsertRow(req[q].service, req[q].thread)
  /\ Finish(q)
  /\ UNCHANGED <<group, made, lost, flush, clearing, binds, disturbed>>
  /\ out' = {}

InsertFails(q) ==
  /\ "insert" \in Faults
  /\ req[q].pc = "insert"
  /\ Lose(req[q].service)
  /\ Finish(q)
  /\ UNCHANGED <<group, topic, made, flush, clearing, binds, disturbed>>
  /\ out' = {}

-----------------------------------------------------------------------------
(* /connect: finishSetup, after ConsumeConnectCode. *)

SetDeliveryMode(c) ==
  /\ binds < MaxBinds
  /\ group' = c
  /\ binds' = binds + 1
  /\ clearing' = clearing + 1
  /\ disturbed' = (disturbed \/ group \notin {DM, c})
  /\ UNCHANGED <<topic, made, lost, req, due, flush>>
  /\ out' = {}

(* A handler works for a group that is no longer the user's. *)
OldGroup(q) == req[q].pc # "idle" /\ req[q].chat # group

(* Mutant: no row is deleted. *)
NoRowsButOld == topic

NoRows == [s \in Services |-> NoThread]

ClearUserTopics ==
  /\ clearing > 0
  /\ clearing' = clearing - 1
  /\ \/ /\ topic' = NoRows
        /\ disturbed' = (disturbed /\ \E q \in Requests : OldGroup(q))
     \/ /\ "clear" \in Faults
        /\ UNCHANGED <<topic, disturbed>>
  /\ UNCHANGED <<group, made, lost, req, due, flush, binds>>
  /\ out' = {}

-----------------------------------------------------------------------------
(* Flush. *)

(* Mutant: the topic is looked up without the service. *)
AnyThread(s) == CHOOSE t \in {topic[x] : x \in Services} : \A x \in Services : t >= topic[x]

(* GetTopicThread; a miss is thread 0. *)
GetTopicThread(s) == topic[s]

Message(s, c, t) ==
  [service |-> s, chat |-> c, thread |-> t, calm |-> ~disturbed /\ c = group]

(* GetUser: a user in dm mode gets the batch in the chat with the bot, and *)
(* so does any user whose row could not be read.                           *)
FlushGetUser(f, s) ==
  /\ flush[f].pc = "idle"
  /\ s \in due
  /\ due' = due \ {s}
  /\ \/ /\ group = DM \/ "read" \in Faults
        /\ out' = {Message(s, DM, NoThread)}
        /\ UNCHANGED flush
     \/ /\ group # DM
        /\ flush' = [flush EXCEPT ![f] = [pc |-> "thread", service |-> s, chat |-> group]]
        /\ out' = {}
  /\ UNCHANGED <<group, topic, made, lost, req, clearing, binds, disturbed>>

(* A query that fails gives thread 0 as well, whatever the rows say. *)
FlushGetThread(f) ==
  /\ flush[f].pc = "thread"
  /\ \E t \in {GetTopicThread(flush[f].service)} \cup
              {x \in {NoThread} : "read" \in Faults} :
       out' = {Message(flush[f].service, flush[f].chat, t)}
  /\ flush' = [flush EXCEPT ![f] = NotFlushing]
  /\ UNCHANGED <<group, topic, made, lost, req, due, clearing, binds, disturbed>>

-----------------------------------------------------------------------------
EnsureTopic(q) ==
  \/ SelectHit(q) \/ SelectMiss(q) \/ SelectFails(q)
  \/ \E t \in Threads : CreateTopic(q, t) \/ CreateTopicLost(q, t)
  \/ CreateTopicFails(q) \/ InsertTopic(q) \/ InsertFails(q)

Next == \/ \E q \in Requests, s \in Services : RouteEvent(q, s) \/ LinkTopic(q, s)
        \/ \E q \in Requests : EnsureTopic(q)
        \/ \E c \in Chats : SetDeliveryMode(c)
        \/ ClearUserTopics
        \/ \E f \in Flushers, s \in Services : FlushGetUser(f, s)
        \/ \E f \in Flushers : FlushGetThread(f)

Spec == Init /\ [][Next]_vars
-----------------------------------------------------------------------------
Creations(s) == {m \in made : m.service = s}
At(pc, s) == {q \in Requests : req[q].pc = pc /\ req[q].service = s}

(* ClearUserTopics calls so far. *)
Cleared == binds - clearing

Request == [pc : {"idle", "select", "create", "insert"}, by : {"event", "link"},
            service : Services \cup {NoService}, chat : Chats \cup {DM},
            thread : Threads \cup {NoThread}]

(* Every variable has its type. *)
TypeOK ==
  /\ group \in Chats \cup {DM}
  /\ topic \in [Services -> Threads \cup {NoThread}]
  /\ made \in SUBSET [chat : Chats, thread : Threads, service : Services]
  /\ IsFiniteSet(made)
  /\ lost \in [Services -> Nat]
  /\ req \in [Requests -> Request]
  /\ due \in SUBSET Services
  /\ flush \in [Flushers -> [pc : {"idle", "thread"},
                            service : Services \cup {NoService}, chat : Chats \cup {DM}]]
  /\ binds \in 0..MaxBinds /\ clearing \in 0..binds
  /\ out \in SUBSET [service : Services, chat : Chats \cup {DM},
                     thread : Threads \cup {NoThread}, calm : BOOLEAN]
  /\ disturbed \in BOOLEAN

(* No message goes into the chat with the bot with a topic's number, and   *)
(* into a group only with the number of the message's own service's topic  *)
(* in that very group, although the flush looks group and topic up at      *)
(* different moments - unless the user went to another group and the flush *)
(* or the rows are still those of the one before: then nothing in the code *)
(* keeps the number from being another service's topic.                    *)
OwnTopic ==
  \A m \in out : m.thread # NoThread =>
    /\ m.chat # DM
    /\ m.calm => Topic(m.chat, m.thread, m.service) \in made

(* What calm rests on: from a successful ClearUserTopics on that no        *)
(* handler which had read an earlier group was around to see, up to the    *)
(* next /connect of another group, every row is the topic of its service   *)
(* in the user's group, whatever races, fails or is cleared a second time. *)
RowsAreCurrent ==
  ~disturbed =>
    \A s \in Services : topic[s] # NoThread => Topic(group, topic[s], s) \in made

(* The first topic stored for a service stays until /connect clears it:    *)
(* of two handlers that both missed the row, the later one changes nothing *)
(* (EnsureTopic: "its thread id wins").                                    *)
FirstTopicStays ==
  [][\A s \in Services : topic[s] # NoThread /\ topic'[s] # topic[s] =>
       topic'[s] = NoThread /\ Cleared' > Cleared]_vars

(* Missing rows cannot make the bot create topics without end: per service *)
(* at most one per HTTP handler for each time the rows were cleared, and   *)
(* one more for each topic its creator failed to store.                    *)
TopicsBounded ==
  \A s \in Services :
    Cardinality(Creations(s)) =< Cardinality(Requests) * (Cleared + 1) + lost[s]

(* A handler that has created a topic remembers the right one. *)
HandlersRemember ==
  \A q \in Requests :
    /\ req[q].pc # "idle" => req[q].service \in Services /\ req[q].chat \in Chats
    /\ req[q].pc = "insert" =>
         /\ req[q].thread # NoThread
         /\ Topic(req[q].chat, req[q].thread, req[q].service) \in made

HandlersAreCurrent == ~disturbed => \A q \in Requests : ~OldGroup(q)

FlushesHaveGroup ==
  \A f \in Flushers : flush[f].pc = "thread" =>
    flush[f].service \in Services /\ flush[f].chat \in Chats

(* Nobody has read a group before there is one. *)
NoGroupYet ==
  group = DM => /\ topic = NoRows
                /\ \A q \in Requests : req[q].pc = "idle"

(* Why the topics are bounded: while a row is missing only the handlers    *)
(* that hold a fresh topic have created one, and once it is there only the *)
(* handlers that missed it before will.                                    *)
CreationsBounded ==
  \A s \in Services :
    Cardinality(Creations(s)) =<
      Cardinality(Requests) * Cleared + lost[s] +
        IF topic[s] = NoThread
          THEN Cardinality(At("insert", s))
          ELSE Cardinality(Requests) - Cardinality(At("create", s))

Routing ==
  /\ TypeOK
  /\ HandlersRemember
  /\ HandlersAreCurrent
  /\ RowsAreCurrent
  /\ FlushesHaveGroup
  /\ NoGroupYet
  /\ OwnTopic

IInv == Routing /\ CreationsBounded

(* SPEC V-9 and the comment on ClearUserTopics: after a new group was      *)
(* bound, no row points at a topic of the previous one. A handler that     *)
(* read the old group stores its topic after the rows were cleared.        *)
NoStaleRow ==
  clearing = 0 =>
    \A s \in Services : topic[s] # NoThread => Topic(group, topic[s], s) \in made

(* SPEC 7.1: every message that goes to the group carries the topic of its *)
(* service. An event routed while the user was in dm mode, or whose row    *)
(* was cleared before its window elapsed, is flushed to thread 0.          *)
InTopic == \A m \in out : m.chat # DM => m.thread # NoThread

(* SPEC E-19: of concurrent requests at most one leaves an orphan topic. *)
OneOrphan ==
  \A s \in Services : Cardinality(Creations(s)) =< 2
=============================================================================
