----------------------------- MODULE AmqpTopology -----------------------------
(***************************************************************************)
(* What Declare, MessagePublisher and MessageSubscriber build on the       *)
(* broker: exchanges, queues and bindings, declared stage by stage on one  *)
(* shared channel by users that time out, fail half way and disagree       *)
(* (src/src/utils/AmqpUtil.cpp, AmqpUtil.h).                               *)
(*                                                                         *)
(* A declaration is a chain of three requests, each posted by the answer   *)
(* to the one before, and it goes on after its caller timed out.           *)
(* The broker is external: it accepts a declaration that repeats what      *)
(* exists, closes the channel on one that contradicts it and on a publish  *)
(* to an exchange that does not exist, and drops a message without a       *)
(* matching binding.  Binding keys have no wildcards here.  Threads, the   *)
(* task queue and reconnection are in MessageQueueClient.                  *)
(***************************************************************************)
EXTENDS Naturals, Sequences, FiniteSets

CONSTANTS Users,        \* publishers and subscribers of one client
          Setting,      \* the DeclareSettings of each user
          NoKey,        \* the empty binding key
          None,         \* no exchange, no queue
          Attempts      \* bound on the declarations of each user

Types == {"direct", "topic", "fanout", "headers"}

ASSUME TopologyAssumption ==
    /\ Attempts \in [Users -> Nat]
    /\ \A u \in Users : Setting[u].type \in Types \cup {"delayed"}
    /\ None \notin Types \cup {"normal", "delay"}

VARIABLES
    exchanges,   \* the broker: type of each exchange
    queues,      \* the broker: arguments of each queue
    bindings,    \* the broker: <<exchange, queue, key>>
    open,        \* the channel is usable
    jobs,        \* declarations in progress on the network thread
    phase,       \* what each user is doing
    part,        \* which of its topologies a user is declaring
    attempts,    \* how many declarations a user made
    result,      \* what its last Declare returned
    subscribed,  \* the queue a user consumes
    published    \* history: who published, after which Declare, and what it reached

brokerVars == <<exchanges, queues, bindings>>
userVars   == <<phase, part, attempts, result>>
endVars    == <<subscribed, published>>
vars == <<brokerVars, open, jobs, userVars, endVars>>

-----------------------------------------------------------------------------
(* Names and settings.                                                     *)

Plain(n) == <<n>>
DeadLetter(n) == <<"dead_letter_", n>>

\* There is no delayed exchange: it is a direct one.
ConvertToAmqpExchangeType(type) == IF type = "delayed" THEN "direct" ELSE type

\* Exchange, type, queue, key and queue arguments of one DeclareTopologyInternal.
Topology(exchange, type, queue, key, ttl) ==
    [exchange |-> exchange, type |-> ConvertToAmqpExchangeType(type), queue |-> queue,
     key |-> key, ttl |-> ttl]

\* A Delayed setting declares its dead-letter topology, and then the same names with
\* the delay arguments.
Topologies(s) ==
    IF s.type = "delayed"
      THEN LET Dead(ttl) == Topology(DeadLetter(s.exchange), "direct", DeadLetter(s.queue),
                                     DeadLetter(s.key), ttl)
           IN <<Dead(FALSE), Dead(TRUE)>>
      ELSE <<Topology(Plain(s.exchange), s.type, Plain(s.queue), Plain(s.key), FALSE)>>

\* Mutant: the publisher always uses the queue name.
RoutingKey_Queue(s) == Plain(s.queue)

\* The routing key of PublishMessage.
RoutingKey(s) == IF s.key = NoKey THEN Plain(s.queue) ELSE Plain(s.key)

\* The queue a subscriber consumes.
TargetQueue(s) == IF s.type = "delayed" THEN DeadLetter(s.queue) ELSE Plain(s.queue)

Names == {Plain(Setting[u].exchange) : u \in Users}
            \cup {DeadLetter(Setting[u].exchange) : u \in Users}
            \cup {Plain(Setting[u].queue) : u \in Users}
            \cup {DeadLetter(Setting[u].queue) : u \in Users}

Jobs == [user : Users, attempt : Nat, stage : {"exchange", "queue", "bind"},
         topology : UNION {{Topologies(Setting[u])[i] : i \in DOMAIN Topologies(Setting[u])}
                              : u \in Users}]

TypeOK ==
    /\ exchanges \in [Names -> Types \cup {None}]
    /\ queues \in [Names -> {"normal", "delay", None}]
    /\ \A b \in bindings : exchanges[b[1]] # None /\ queues[b[2]] # None
    /\ open \in BOOLEAN
    /\ jobs \subseteq Jobs
    /\ phase \in [Users -> {"idle", "declaring"}]
    /\ part \in [Users -> 1..2]
    /\ \A u \in Users : attempts[u] \in 0..Attempts[u]
    /\ result \in [Users -> {"none", "true", "false"}]
    /\ subscribed \in [Users -> Names \cup {None}]
    /\ published \subseteq [user : Users, ready : BOOLEAN, reached : SUBSET Names]

Init ==
    /\ exchanges = [n \in Names |-> None] /\ queues = [n \in Names |-> None]
    /\ bindings = {} /\ open = TRUE /\ jobs = {}
    /\ phase = [u \in Users |-> "idle"] /\ part = [u \in Users |-> 1]
    /\ attempts = [u \in Users |-> 0] /\ result = [u \in Users |-> "none"]
    /\ subscribed = [u \in Users |-> None] /\ published = {}

-----------------------------------------------------------------------------
(* Declare.                                                                *)

Job(u, i, n) ==
    [user |-> u, attempt |-> n, stage |-> "exchange", topology |-> Topologies(Setting[u])[i]]

Declare(u) ==
    /\ phase[u] = "idle"
    /\ attempts[u] < Attempts[u]
    /\ attempts' = [attempts EXCEPT ![u] = @ + 1]
    /\ phase' = [phase EXCEPT ![u] = "declaring"]
    /\ part' = [part EXCEPT ![u] = 1]
    /\ jobs' = jobs \cup {Job(u, 1, attempts[u] + 1)}
    /\ UNCHANGED <<brokerVars, open, result, endVars>>

Waits(j) == phase[j.user] = "declaring" /\ attempts[j.user] = j.attempt

Finish(S, value) ==
    /\ phase' = [u \in Users |-> IF u \in S THEN "idle" ELSE phase[u]]
    /\ result' = [u \in Users |-> IF u \in S THEN value ELSE result[u]]
    /\ UNCHANGED <<part, attempts>>

\* The broker refuses, or the connection is lost: every declaration fails.
ChannelError ==
    /\ open' = FALSE
    /\ jobs' = {}
    /\ Finish({j.user : j \in {i \in jobs : Waits(i)}}, "false")

\* The task of a declaration finds the channel closed.
NotConnected(j) ==
    /\ ~open
    /\ jobs' = jobs \ {j}
    /\ Finish(IF Waits(j) THEN {j.user} ELSE {}, "false")
    /\ UNCHANGED <<brokerVars, open, endVars>>

NextStage(j, stage) ==
    /\ jobs' = (jobs \ {j}) \cup {[j EXCEPT !.stage = stage]}
    /\ UNCHANGED <<open, userVars>>

\* Mutant: the queue is not declared.
AfterExchange_Bind == "bind"

AfterExchange == "queue"

DeclareExchange(j) ==
    LET e == j.topology.exchange
    IN /\ open
       /\ j.stage = "exchange"
       /\ IF exchanges[e] \in {None, j.topology.type}
            THEN /\ exchanges' = [exchanges EXCEPT ![e] = j.topology.type]
                 /\ NextStage(j, AfterExchange)
            ELSE /\ ChannelError
                 /\ UNCHANGED exchanges
       /\ UNCHANGED <<queues, bindings, endVars>>

Arguments(t) == IF t.ttl THEN "delay" ELSE "normal"

DeclareQueue(j) ==
    LET q == j.topology.queue
    IN /\ open
       /\ j.stage = "queue"
       /\ IF queues[q] \in {None, Arguments(j.topology)}
            THEN /\ queues' = [queues EXCEPT ![q] = Arguments(j.topology)]
                 /\ NextStage(j, "bind")
            ELSE /\ ChannelError
                 /\ UNCHANGED queues
       /\ UNCHANGED <<exchanges, bindings, endVars>>

\* Mutant: success is reported without the binding.
Bound_Never(j) == UNCHANGED bindings

Bound(j) ==
    bindings' = bindings \cup {<<j.topology.exchange, j.topology.queue, j.topology.key>>}

\* The last stage: Declare returns true, or goes on to its second topology.
BindQueue(j) ==
    /\ open
    /\ j.stage = "bind"
    /\ Bound(j)
    /\ IF Waits(j) /\ part[j.user] < Len(Topologies(Setting[j.user]))
         THEN /\ part' = [part EXCEPT ![j.user] = @ + 1]
              /\ jobs' = (jobs \ {j}) \cup {Job(j.user, part[j.user] + 1, j.attempt)}
              /\ UNCHANGED <<phase, attempts, result>>
         ELSE /\ jobs' = jobs \ {j}
              /\ Finish(IF Waits(j) THEN {j.user} ELSE {}, "true")
    /\ UNCHANGED <<exchanges, queues, open, endVars>>

\* The chain of requests goes on without its caller.
TimedOut(u) ==
    /\ phase[u] = "declaring"
    /\ Finish({u}, "false")
    /\ UNCHANGED <<brokerVars, open, jobs, endVars>>

ConnectionLost ==
    /\ open
    /\ ChannelError
    /\ UNCHANGED <<brokerVars, endVars>>

-----------------------------------------------------------------------------
(* PublishMessage and the second half of MessageSubscriber::Consume.       *)

Routed(e, key) ==
    {b[2] : b \in {x \in bindings : x[1] = e /\ (exchanges[e] \in {"fanout", "headers"}
                                                    \/ x[3] = key)}}

PublishMessage(u) ==
    LET e == Plain(Setting[u].exchange)
    IN /\ phase[u] = "idle"
       /\ open
       /\ IF exchanges[e] = None
            THEN /\ ChannelError
                 /\ UNCHANGED published
            ELSE /\ published' = published \cup
                        {[user |-> u, ready |-> result[u] = "true",
                          reached |-> Routed(e, RoutingKey(Setting[u]))]}
                 /\ UNCHANGED <<open, jobs, userVars>>
       /\ UNCHANGED <<brokerVars, subscribed>>

Consume(u) ==
    LET q == TargetQueue(Setting[u])
    IN /\ phase[u] = "idle"
       /\ result[u] = "true"
       /\ open
       /\ IF queues[q] = None
            THEN /\ ChannelError
                 /\ UNCHANGED subscribed
            ELSE /\ subscribed' = [subscribed EXCEPT ![u] = q]
                 /\ UNCHANGED <<open, jobs, userVars>>
       /\ UNCHANGED <<brokerVars, published>>

-----------------------------------------------------------------------------
Next ==
    \/ \E u \in Users : Declare(u) \/ TimedOut(u) \/ PublishMessage(u) \/ Consume(u)
    \/ \E j \in jobs : NotConnected(j) \/ DeclareExchange(j) \/ DeclareQueue(j) \/ BindQueue(j)
    \/ ConnectionLost

Spec == Init /\ [][Next]_vars

-----------------------------------------------------------------------------
\* Declare returned true: every topology of the setting exists and is bound, whatever
\* else was declared, half declared or timed out on the same channel.
DeclaredExists ==
    \A u \in Users : result[u] = "true" =>
        \A i \in DOMAIN Topologies(Setting[u]) :
            LET t == Topologies(Setting[u])[i]
            IN /\ exchanges[t.exchange] = t.type
               /\ queues[t.queue] = Arguments(t)
               /\ <<t.exchange, t.queue, t.key>> \in bindings

\* A direct or topic publisher without a binding key publishes under the queue's name,
\* but the queue is bound with the empty key.
Unmatched(s) == s.key = NoKey /\ s.type \notin {"fanout", "headers"}

\* A message of a publisher whose Declare returned true reaches the queue that a
\* subscriber with the same setting consumes, whoever else declares, fails and consumes
\* on the channel (reliable delivery for every type of exchange, README; the keyless
\* publishers are an exception the code makes).
PublishedIsRouted ==
    \A p \in published :
        p.ready /\ ~Unmatched(Setting[p.user])
            => TargetQueue(Setting[p.user]) \in p.reached

(* What the repository says of them.  The code does not keep it.           *)

\* A Delayed setting makes its dead-letter queue (comments of Declare): the broker does
\* not refuse what it declares.
DelayedIsAccepted ==
    \A j \in jobs :
        Setting[j.user].type = "delayed" /\ j.stage = "queue"
            => queues[j.topology.queue] \in {None, Arguments(j.topology)}
=============================================================================
