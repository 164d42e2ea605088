------------------------------ MODULE AmqpProofs ------------------------------
(***************************************************************************)
(* The safety invariants of AmqpTopology, for any users, any settings and  *)
(* any number of declarations: what a Declare that returned true says of   *)
(* the broker, and where the messages published after it go.               *)
(***************************************************************************)
EXTENDS AmqpTopology, Integers, TLAPS

\* The topologies of all settings.
Sought == UNION {{Topologies(Setting[u])[i] : i \in DOMAIN Topologies(Setting[u])} : u \in Users}

\* TypeOK by parts.
BrokerTypes ==
    /\ exchanges \in [Names -> Types \cup {None}]
    /\ queues \in [Names -> {"normal", "delay", None}]
    /\ \A b \in bindings : b[1] \in Names /\ b[2] \in Names
    /\ \A b \in bindings : exchanges[b[1]] # None /\ queues[b[2]] # None
UserTypes ==
    /\ phase \in [Users -> {"idle", "declaring"}]
    /\ part \in [Users -> 1..2]
    /\ attempts \in [Users -> Nat] /\ \A u \in Users : attempts[u] \in 0..Attempts[u]
    /\ result \in [Users -> {"none", "true", "false"}]
EndTypes ==
    /\ subscribed \in [Users -> Names \cup {None}]
    /\ published \subseteq [user : Users, ready : BOOLEAN, reached : SUBSET Names]

AllTypes == open \in BOOLEAN /\ jobs \subseteq Jobs /\ BrokerTypes /\ UserTypes /\ EndTypes

\* A topology exists, and its queue is bound.
Made(t) ==
    /\ exchanges[t.exchange] = t.type
    /\ queues[t.queue] = Arguments(t)
    /\ <<t.exchange, t.queue, t.key>> \in bindings

\* A declaration has made what the stages it is past make.
StagesMade ==
    \A j \in jobs :
        /\ j.attempt <= attempts[j.user]
        /\ j.stage # "exchange" => exchanges[j.topology.exchange] = j.topology.type
        /\ j.stage = "bind" => queues[j.topology.queue] = Arguments(j.topology)

\* A call of Declare has one chain of requests, also when its caller has left it.
OneChain == \A j, k \in jobs : j.user = k.user /\ j.attempt = k.attempt => j = k

\* The chain its caller waits for declares the part the caller is at; the parts before exist.
PartsMade ==
    \A j \in jobs : Waits(j) =>
        /\ part[j.user] <= Len(Topologies(Setting[j.user]))
        /\ j.topology = Topologies(Setting[j.user])[part[j.user]]
        /\ \A i \in 1..part[j.user] :
               i # part[j.user] => Made(Topologies(Setting[j.user])[i])

DeclareInv == AllTypes /\ StagesMade /\ OneChain /\ PartsMade /\ DeclaredExists

-----------------------------------------------------------------------------
(* Settings and jobs.                                                      *)

LEMMA PartsOf ==
    ASSUME NEW u \in Users
    PROVE  /\ Len(Topologies(Setting[u])) \in 1..2
           /\ DOMAIN Topologies(Setting[u]) = 1..Len(Topologies(Setting[u]))
           /\ \A i \in 1..Len(Topologies(Setting[u])) : Topologies(Setting[u])[i] \in Sought
<1> DEFINE ts == Topologies(Setting[u])
<1>1. Len(ts) \in 1..2 /\ DOMAIN ts = 1..Len(ts)
  <2>1. CASE Setting[u].type = "delayed"
    BY <2>1 DEF Topologies
  <2>2. CASE Setting[u].type # "delayed"
    BY <2>2 DEF Topologies
  <2> QED BY <2>1, <2>2
<1>2. \A i \in DOMAIN ts : ts[i] \in Sought
  BY DEF Sought
<1> QED BY <1>1, <1>2

LEMMA SoughtTypes ==
    ASSUME NEW t \in Sought
    PROVE  /\ t.exchange \in Names /\ t.queue \in Names
           /\ t.type \in Types /\ t.type # None
           /\ Arguments(t) \in {"normal", "delay"} /\ Arguments(t) # None
<1>1. PICK u \in Users : \E i \in DOMAIN Topologies(Setting[u]) : t = Topologies(Setting[u])[i]
  BY DEF Sought
<1>2. PICK i \in DOMAIN Topologies(Setting[u]) : t = Topologies(Setting[u])[i]
  BY <1>1
<1>3. /\ t.exchange \in {Plain(Setting[u].exchange), DeadLetter(Setting[u].exchange)}
      /\ t.queue \in {Plain(Setting[u].queue), DeadLetter(Setting[u].queue)}
      /\ t.type \in Types
  <2>1. CASE Setting[u].type = "delayed"
    <3>1. i \in {1, 2}
      BY <1>2, <2>1 DEF Topologies
    <3> QED BY <1>2, <2>1, <3>1 DEF Topologies, Topology, ConvertToAmqpExchangeType, Types
  <2>2. CASE Setting[u].type # "delayed"
    <3>1. i = 1 /\ Setting[u].type \in Types
      BY <1>2, <2>2, TopologyAssumption DEF Topologies
    <3> QED BY <1>2, <2>2, <3>1 DEF Topologies, Topology, ConvertToAmqpExchangeType
  <2> QED BY <2>1, <2>2
<1>4. t.exchange \in Names /\ t.queue \in Names
  BY <1>3 DEF Names
<1>5. Arguments(t) \in {"normal", "delay"}
  BY DEF Arguments
<1> QED BY <1>3, <1>4, <1>5, TopologyAssumption

LEMMA JobFields ==
    ASSUME NEW j \in Jobs
    PROVE  /\ j.user \in Users /\ j.attempt \in Nat /\ j.topology \in Sought
           /\ j.stage \in {"exchange", "queue", "bind"}
           /\ j = [user |-> j.user, attempt |-> j.attempt, stage |-> j.stage,
                   topology |-> j.topology]
BY DEF Jobs, Sought

LEMMA JobType ==
    ASSUME NEW u \in Users, NEW i \in 1..Len(Topologies(Setting[u])), NEW n \in Nat
    PROVE  /\ Job(u, i, n) \in Jobs
           /\ Job(u, i, n).user = u /\ Job(u, i, n).attempt = n
           /\ Job(u, i, n).stage = "exchange"
           /\ Job(u, i, n).topology = Topologies(Setting[u])[i]
<1>1. Topologies(Setting[u])[i] \in Sought
  BY PartsOf
<1> QED BY <1>1 DEF Job, Jobs, Sought

\* What exists stays, since the broker changes nothing that does.
Grows ==
    /\ \A n \in Names : exchanges[n] # None => exchanges'[n] = exchanges[n]
    /\ \A n \in Names : queues[n] # None => queues'[n] = queues[n]
    /\ bindings \subseteq bindings'

LEMMA MadeStays ==
    ASSUME Grows, NEW t \in Sought, Made(t)
    PROVE  Made(t)'
BY SoughtTypes DEF Grows, Made, Arguments

LEMMA SeenStays ==
    ASSUME Grows, StagesMade, jobs \subseteq Jobs, NEW j \in jobs
    PROVE  /\ j.stage # "exchange" => exchanges'[j.topology.exchange] = j.topology.type
           /\ j.stage = "bind" => queues'[j.topology.queue] = Arguments(j.topology)
<1>1. j.topology \in Sought
  BY JobFields
<1> QED BY <1>1, SoughtTypes DEF Grows, StagesMade

LEMMA DeclaredMade ==
    DeclaredExists <=>
        \A u \in Users : result[u] = "true" =>
            \A i \in DOMAIN Topologies(Setting[u]) : Made(Topologies(Setting[u])[i])
BY DEF DeclaredExists, Made

-----------------------------------------------------------------------------
(* Steps.                                                                  *)

\* A step that declares nothing: no chain and no caller waiting for one is new, and what the
\* broker has stays.
LEMMA FewerChains ==
    ASSUME DeclareInv, Grows,
           jobs' \subseteq jobs, UNCHANGED <<part, attempts>>,
           \A u \in Users : phase'[u] = "declaring" => phase[u] = "declaring"
    PROVE  StagesMade' /\ OneChain' /\ PartsMade'
<1>1. jobs \subseteq Jobs /\ \A u \in Users : part[u] \in 1..2
  BY DEF DeclareInv, AllTypes, UserTypes
<1>2. StagesMade'
  <2> SUFFICES ASSUME NEW j \in jobs'
               PROVE  /\ j.attempt <= attempts'[j.user]
                      /\ j.stage # "exchange" => exchanges'[j.topology.exchange] = j.topology.type
                      /\ j.stage = "bind" => queues'[j.topology.queue] = Arguments(j.topology)
    BY DEF StagesMade, Arguments
  <2> QED BY <1>1, SeenStays DEF DeclareInv, StagesMade
<1>3. OneChain'
  BY DEF DeclareInv, OneChain
<1>4. PartsMade'
  <2> SUFFICES ASSUME NEW j \in jobs', Waits(j)'
               PROVE  /\ part[j.user] <= Len(Topologies(Setting[j.user]))
                      /\ j.topology = Topologies(Setting[j.user])[part[j.user]]
                      /\ \A i \in 1..part[j.user] :
                             i # part[j.user] => Made(Topologies(Setting[j.user])[i])'
    BY DEF PartsMade
  <2>1. j.user \in Users /\ j \in jobs
    BY <1>1, JobFields
  <2>2. Waits(j)
    BY <2>1 DEF Waits
  <2>3. /\ part[j.user] <= Len(Topologies(Setting[j.user]))
        /\ j.topology = Topologies(Setting[j.user])[part[j.user]]
        /\ \A i \in 1..part[j.user] :
               i # part[j.user] => Made(Topologies(Setting[j.user])[i])
    BY <2>1, <2>2 DEF DeclareInv, PartsMade
  <2>4. ASSUME NEW i \in 1..part[j.user], i # part[j.user]
        PROVE  Made(Topologies(Setting[j.user])[i])'
    <3>1. i \in 1..Len(Topologies(Setting[j.user]))
      BY <1>1, <2>1, <2>3, PartsOf
    <3>2. Topologies(Setting[j.user])[i] \in Sought
      BY <2>1, <3>1, PartsOf
    <3> QED BY <2>3, <2>4, <3>2, MadeStays
  <2> QED BY <2>3, <2>4
<1> QED BY <1>2, <1>3, <1>4

LEMMA FewerJobs ==
    ASSUME DeclareInv, AllTypes', Grows,
           jobs' \subseteq jobs, UNCHANGED <<part, attempts>>,
           \A u \in Users : phase'[u] = "declaring" => phase[u] = "declaring",
           \A u \in Users : result'[u] = "true" => result[u] = "true"
    PROVE  DeclareInv'
<1>1. StagesMade' /\ OneChain' /\ PartsMade'
  BY FewerChains
<1>2. DeclaredExists'
  <2>1. \A u \in Users : result'[u] = "true" =>
            \A i \in DOMAIN Topologies(Setting[u]) : Made(Topologies(Setting[u])[i])'
    BY DeclaredMade, MadeStays, PartsOf DEF DeclareInv
  <2> QED BY <2>1 DEF DeclaredExists, Made
<1> QED BY <1>1, <1>2 DEF DeclareInv

\* A call of Declare begins.
LEMMA DeclareStep ==
    ASSUME DeclareInv, NEW u \in Users, Declare(u)
    PROVE  DeclareInv'
<1> DEFINE n == attempts[u] + 1
           new == Job(u, 1, n)
<1>0. /\ attempts \in [Users -> Nat] /\ phase \in [Users -> {"idle", "declaring"}]
      /\ part \in [Users -> 1..2] /\ jobs \subseteq Jobs
      /\ \A v \in Users : attempts[v] \in 0..Attempts[v]
  BY DEF DeclareInv, AllTypes, UserTypes
<1>1. /\ attempts \in [Users -> Nat] /\ phase \in [Users -> {"idle", "declaring"}]
      /\ part \in [Users -> 1..2] /\ n \in Nat /\ attempts[u] \in Nat /\ jobs \subseteq Jobs
      /\ \A v \in Users : attempts[v] \in 0..Attempts[v]
      /\ phase[u] = "idle" /\ attempts[u] < Attempts[u] /\ Attempts[u] \in Nat
  <2>1. Attempts[u] \in Nat
    BY TopologyAssumption
  <2>2. attempts[u] \in Nat /\ n \in Nat
    BY <1>0
  <2>3. phase[u] = "idle" /\ attempts[u] < Attempts[u]
    BY DEF Declare
  <2> QED BY <1>0, <2>1, <2>2, <2>3
<1>2. /\ attempts' = [attempts EXCEPT ![u] = n]
      /\ phase' = [phase EXCEPT ![u] = "declaring"]
      /\ part' = [part EXCEPT ![u] = 1]
      /\ jobs' = jobs \cup {new}
      /\ UNCHANGED <<exchanges, queues, bindings, open, result, subscribed, published>>
  BY DEF Declare, brokerVars, endVars
<1>3. /\ 1 \in 1..Len(Topologies(Setting[u]))
  BY PartsOf
<1>4. /\ new \in Jobs /\ new.user = u /\ new.attempt = n /\ new.stage = "exchange"
      /\ new.topology = Topologies(Setting[u])[1]
  BY <1>1, <1>3, JobType
<1> HIDE DEF new
<1>5. AllTypes'
  <2>1. UserTypes'
    <3>1. attempts' \in [Users -> Nat]
      BY <1>1, <1>2
    <3>2. \A v \in Users : attempts'[v] \in 0..Attempts[v]
      BY <1>1, <1>2
    <3>3. /\ phase' \in [Users -> {"idle", "declaring"}] /\ part' \in [Users -> 1..2]
          /\ result' \in [Users -> {"none", "true", "false"}]
      BY <1>1, <1>2 DEF DeclareInv, AllTypes, UserTypes
    <3> QED BY <3>1, <3>2, <3>3 DEF UserTypes
  <2>2. BrokerTypes' /\ EndTypes' /\ open' \in BOOLEAN
    BY <1>2 DEF DeclareInv, AllTypes, BrokerTypes, EndTypes
  <2> QED BY <1>1, <1>2, <1>4, <2>1, <2>2 DEF AllTypes
\* No chain has the number of the new one, and none of the others is waited for.
<1>6. ASSUME NEW j \in jobs
      PROVE  /\ j.user \in Users /\ j.attempt \in Nat
             /\ j.attempt <= attempts'[j.user]
             /\ j.user = u => j.attempt # n
  <2>1. j.user \in Users /\ j.attempt \in Nat /\ j.attempt <= attempts[j.user]
    BY <1>1, JobFields DEF DeclareInv, StagesMade
  <2>2. CASE j.user = u
    BY <1>1, <1>2, <2>1, <2>2
  <2>3. CASE j.user # u
    BY <1>1, <1>2, <2>1, <2>3
  <2> QED BY <2>1, <2>2, <2>3
<1>7. StagesMade'
  <2>1. n <= attempts'[u]
    BY <1>1, <1>2
  <2>2. ASSUME NEW j \in jobs
        PROVE  /\ j.stage # "exchange" => exchanges'[j.topology.exchange] = j.topology.type
               /\ j.stage = "bind" => queues'[j.topology.queue] = Arguments(j.topology)
    BY <1>2 DEF DeclareInv, StagesMade
  <2> QED BY <1>2, <1>4, <1>6, <2>1, <2>2 DEF StagesMade, Arguments
<1>8. OneChain'
  BY <1>2, <1>4, <1>6 DEF DeclareInv, OneChain
<1>9. PartsMade'
  <2> SUFFICES ASSUME NEW j \in jobs', Waits(j)'
               PROVE  /\ part'[j.user] <= Len(Topologies(Setting[j.user]))
                      /\ j.topology = Topologies(Setting[j.user])[part'[j.user]]
                      /\ \A i \in 1..part'[j.user] :
                             i # part'[j.user] => Made(Topologies(Setting[j.user])[i])'
    BY DEF PartsMade
  <2>1. CASE j = new
    <3>1. part'[j.user] = 1 /\ 1 <= Len(Topologies(Setting[u]))
      BY <1>1, <1>2, <1>3, <1>4, <2>1
    <3> QED BY <1>4, <2>1, <3>1
  <2>2. CASE j \in jobs
    <3>1. j.user # u
      BY <1>1, <1>2, <1>6, <2>2 DEF Waits
    <3>2. phase'[j.user] = phase[j.user] /\ attempts'[j.user] = attempts[j.user]
          /\ part'[j.user] = part[j.user]
      BY <1>1, <1>2, <1>6, <2>2, <3>1
    <3>3. Waits(j)
      BY <3>2 DEF Waits
    <3> QED BY <1>2, <2>2, <3>2, <3>3 DEF DeclareInv, PartsMade, Made, Arguments
  <2> QED BY <1>2, <2>1, <2>2
<1>10. DeclaredExists'
  BY <1>2 DEF DeclareInv, DeclaredExists, Arguments
<1> QED BY <1>5, <1>7, <1>8, <1>9, <1>10 DEF DeclareInv

\* A chain comes to its next stage.
LEMMA NextStageStep ==
    ASSUME DeclareInv, BrokerTypes', Grows, NEW j \in jobs, NEW stage \in {"queue", "bind"},
           NextStage(j, stage), UNCHANGED endVars,
           exchanges'[j.topology.exchange] = j.topology.type,
           stage = "bind" => queues'[j.topology.queue] = Arguments(j.topology)
    PROVE  DeclareInv'
<1> DEFINE new == [j EXCEPT !.stage = stage]
<1>1. /\ jobs' = (jobs \ {j}) \cup {new} /\ jobs \subseteq Jobs
      /\ UNCHANGED <<open, phase, part, attempts, result, subscribed, published>>
  BY DEF NextStage, userVars, endVars, DeclareInv, AllTypes
<1>2. /\ new \in Jobs /\ new.user = j.user /\ new.attempt = j.attempt /\ new.stage = stage
      /\ new.topology = j.topology
  BY <1>1, JobFields DEF Jobs
<1> HIDE DEF new
<1>3. AllTypes'
  BY <1>1, <1>2 DEF DeclareInv, AllTypes, UserTypes, EndTypes
<1>4. StagesMade'
  <2>1. \A k \in jobs : k.attempt <= attempts'[k.user]
    BY <1>1 DEF DeclareInv, StagesMade
  <2>2. ASSUME NEW k \in jobs'
        PROVE  /\ k.attempt <= attempts'[k.user]
               /\ k.stage # "exchange" => exchanges'[k.topology.exchange] = k.topology.type
               /\ k.stage = "bind" => queues'[k.topology.queue] = Arguments(k.topology)
    <3>1. CASE k = new
      BY <1>2, <2>1, <3>1
    <3>2. CASE k \in jobs
      BY <1>1, <2>1, <3>2, SeenStays DEF DeclareInv
    <3> QED BY <1>1, <3>1, <3>2
  <2> QED BY <2>2 DEF StagesMade, Arguments
<1>5. OneChain'
  BY <1>1, <1>2 DEF DeclareInv, OneChain
<1>6. PartsMade'
  <2> SUFFICES ASSUME NEW k \in jobs', Waits(k)'
               PROVE  /\ part[k.user] <= Len(Topologies(Setting[k.user]))
                      /\ k.topology = Topologies(Setting[k.user])[part[k.user]]
                      /\ \A i \in 1..part[k.user] :
                             i # part[k.user] => Made(Topologies(Setting[k.user])[i])'
    BY <1>1 DEF PartsMade
  <2>1. PICK m \in jobs : m.user = k.user /\ m.attempt = k.attempt /\ m.topology = k.topology
    BY <1>1, <1>2
  <2>2. Waits(m)
    BY <1>1, <2>1 DEF Waits
  <2>3. /\ part[k.user] <= Len(Topologies(Setting[k.user]))
        /\ k.topology = Topologies(Setting[k.user])[part[k.user]]
        /\ \A i \in 1..part[k.user] :
               i # part[k.user] => Made(Topologies(Setting[k.user])[i])
    BY <2>1, <2>2 DEF DeclareInv, PartsMade
  <2>4. k.user \in Users /\ part[k.user] \in 1..2
    BY <1>1, <2>1, JobFields DEF DeclareInv, AllTypes, UserTypes
  <2>5. ASSUME NEW i \in 1..part[k.user], i # part[k.user]
        PROVE  Made(Topologies(Setting[k.user])[i])'
    <3>1. i \in 1..Len(Topologies(Setting[k.user]))
      BY <2>3, <2>4, PartsOf
    <3>2. Topologies(Setting[k.user])[i] \in Sought
      BY <2>4, <3>1, PartsOf
    <3> QED BY <2>3, <2>5, <3>2, MadeStays
  <2> QED BY <2>3, <2>5
<1>7. DeclaredExists'
  <2>1. \A u \in Users : result'[u] = "true" =>
            \A i \in DOMAIN Topologies(Setting[u]) : Made(Topologies(Setting[u])[i])'
    BY <1>1, DeclaredMade, MadeStays, PartsOf DEF DeclareInv
  <2> QED BY <2>1 DEF DeclaredExists, Made
<1> QED BY <1>3, <1>4, <1>5, <1>6, <1>7 DEF DeclareInv

\* Types of a step that ends calls of Declare.
LEMMA FinishTypes ==
    ASSUME AllTypes, NEW S \in SUBSET Users, NEW value \in {"true", "false"}, Finish(S, value)
    PROVE  /\ UserTypes' /\ UNCHANGED <<part, attempts>>
           /\ \A u \in Users : phase'[u] = "declaring" => phase[u] = "declaring"
           /\ \A u \in Users : phase'[u] = (IF u \in S THEN "idle" ELSE phase[u])
           /\ \A u \in Users : result'[u] = (IF u \in S THEN value ELSE result[u])
<1>1. /\ phase' = [u \in Users |-> IF u \in S THEN "idle" ELSE phase[u]]
      /\ result' = [u \in Users |-> IF u \in S THEN value ELSE result[u]]
      /\ UNCHANGED <<part, attempts>>
  BY DEF Finish
<1>2. UserTypes'
  BY <1>1 DEF AllTypes, UserTypes
<1> QED BY <1>1, <1>2

\* Every step that only ends calls of Declare.
LEMMA EndStep ==
    ASSUME DeclareInv, NEW S \in SUBSET Users, Finish(S, "false"),
           jobs' \subseteq jobs, open' \in BOOLEAN, EndTypes',
           UNCHANGED <<exchanges, queues, bindings>>
    PROVE  DeclareInv'
<1>1. /\ UserTypes' /\ UNCHANGED <<part, attempts>>
      /\ \A u \in Users : phase'[u] = "declaring" => phase[u] = "declaring"
      /\ \A u \in Users : result'[u] = "true" => result[u] = "true"
  BY FinishTypes DEF DeclareInv
<1>2. AllTypes'
  BY <1>1 DEF DeclareInv, AllTypes, BrokerTypes
<1>3. Grows
  BY DEF Grows
<1> QED BY <1>1, <1>2, <1>3, FewerJobs

LEMMA ErrorStep ==
    ASSUME DeclareInv, ChannelError, EndTypes', UNCHANGED <<exchanges, queues, bindings>>
    PROVE  DeclareInv'
<1> DEFINE S == {j.user : j \in {i \in jobs : Waits(i)}}
<1>1. S \in SUBSET Users
  BY JobFields DEF DeclareInv, AllTypes
<1>2. Finish(S, "false") /\ jobs' \subseteq jobs /\ open' \in BOOLEAN
  BY DEF ChannelError
<1> HIDE DEF S
<1> QED BY <1>1, <1>2, EndStep

LEMMA ExchangeStep ==
    ASSUME DeclareInv, NEW j \in jobs, DeclareExchange(j)
    PROVE  DeclareInv'
<1> DEFINE e == j.topology.exchange
<1>0. /\ e \in Names /\ j.topology.type \in Types /\ None \notin Types
      /\ exchanges \in [Names -> Types \cup {None}]
      /\ EndTypes /\ BrokerTypes
  BY JobFields, SoughtTypes, TopologyAssumption DEF DeclareInv, AllTypes, BrokerTypes
<1>1. UNCHANGED <<queues, bindings, subscribed, published>> /\ UNCHANGED endVars
  BY DEF DeclareExchange, endVars
<1>2. CASE exchanges[e] \in {None, j.topology.type}
  <2>1. /\ exchanges' = [exchanges EXCEPT ![e] = j.topology.type]
        /\ NextStage(j, "queue")
    BY <1>2 DEF DeclareExchange, AfterExchange
  <2>2. Grows
    BY <1>0, <1>1, <1>2, <2>1 DEF Grows
  <2>3. BrokerTypes'
    <3>1. exchanges' \in [Names -> Types \cup {None}]
      BY <1>0, <2>1
    <3>2. \A b \in bindings : exchanges'[b[1]] # None
      BY <1>0, <2>2 DEF BrokerTypes, Grows
    <3> QED BY <1>0, <1>1, <3>1, <3>2 DEF BrokerTypes
  <2>4. exchanges'[e] = j.topology.type
    BY <1>0, <2>1
  <2> QED BY <1>1, <2>1, <2>2, <2>3, <2>4, NextStageStep
<1>3. CASE exchanges[e] \notin {None, j.topology.type}
  <2>1. ChannelError /\ exchanges' = exchanges
    BY <1>3 DEF DeclareExchange
  <2>2. EndTypes'
    BY <1>0, <1>1 DEF EndTypes
  <2> QED BY <1>1, <2>1, <2>2, ErrorStep
<1> QED BY <1>2, <1>3

LEMMA QueueStep ==
    ASSUME DeclareInv, NEW j \in jobs, DeclareQueue(j)
    PROVE  DeclareInv'
<1> DEFINE q == j.topology.queue
<1>0. /\ q \in Names /\ Arguments(j.topology) \in {"normal", "delay"}
      /\ None \notin {"normal", "delay"}
      /\ queues \in [Names -> {"normal", "delay", None}]
      /\ EndTypes /\ BrokerTypes
  BY JobFields, SoughtTypes, TopologyAssumption DEF DeclareInv, AllTypes, BrokerTypes
<1>1. UNCHANGED <<exchanges, bindings, subscribed, published>> /\ UNCHANGED endVars
  BY DEF DeclareQueue, endVars
<1>2. CASE queues[q] \in {None, Arguments(j.topology)}
  <2>1. /\ queues' = [queues EXCEPT ![q] = Arguments(j.topology)]
        /\ NextStage(j, "bind") /\ j.stage = "queue"
    BY <1>2 DEF DeclareQueue
  <2>2. Grows
    BY <1>0, <1>1, <1>2, <2>1 DEF Grows
  <2>3. BrokerTypes'
    <3>1. queues' \in [Names -> {"normal", "delay", None}]
      BY <1>0, <2>1
    <3>2. \A b \in bindings : queues'[b[2]] # None
      BY <1>0, <2>2 DEF BrokerTypes, Grows
    <3> QED BY <1>0, <1>1, <3>1, <3>2 DEF BrokerTypes
  <2>4. /\ queues'[q] = Arguments(j.topology)
        /\ exchanges'[j.topology.exchange] = j.topology.type
    BY <1>0, <1>1, <2>1 DEF DeclareInv, StagesMade
  <2> QED BY <1>1, <2>1, <2>2, <2>3, <2>4, NextStageStep
<1>3. CASE queues[q] \notin {None, Arguments(j.topology)}
  <2>1. ChannelError /\ queues' = queues
    BY <1>3 DEF DeclareQueue
  <2>2. EndTypes'
    BY <1>0, <1>1 DEF EndTypes
  <2> QED BY <1>1, <2>1, <2>2, ErrorStep
<1> QED BY <1>2, <1>3

LEMMA BindStep ==
    ASSUME DeclareInv, NEW j \in jobs, BindQueue(j)
    PROVE  DeclareInv'
<1> DEFINE u == j.user
           ts == Topologies(Setting[u])
           t == j.topology
<1>1. /\ open /\ j.stage = "bind"
      /\ bindings' = bindings \cup {<<t.exchange, t.queue, t.key>>}
      /\ UNCHANGED <<exchanges, queues, open, subscribed, published>>
  BY DEF BindQueue, Bound, endVars
<1>2. /\ u \in Users /\ j.attempt \in Nat /\ t \in Sought /\ jobs \subseteq Jobs
      /\ t.exchange \in Names /\ t.queue \in Names
      /\ exchanges[t.exchange] = t.type /\ t.type # None
      /\ queues[t.queue] = Arguments(t) /\ Arguments(t) # None
      /\ Len(ts) \in 1..2 /\ DOMAIN ts = 1..Len(ts) /\ \A i \in 1..Len(ts) : ts[i] \in Sought
      /\ part \in [Users -> 1..2] /\ part[u] \in 1..2
  BY <1>1, JobFields, SoughtTypes, PartsOf DEF DeclareInv, StagesMade, AllTypes, UserTypes
<1>3. Grows
  BY <1>1 DEF Grows
<1>4. Made(t)'
  BY <1>1, <1>2 DEF Made, Arguments
<1>5. BrokerTypes' /\ EndTypes' /\ open' \in BOOLEAN
  <2>1. \A b \in bindings' : b[1] \in Names /\ b[2] \in Names
    BY <1>1, <1>2 DEF DeclareInv, AllTypes, BrokerTypes
  <2>2. \A b \in bindings' : exchanges[b[1]] # None /\ queues[b[2]] # None
    BY <1>1, <1>2 DEF DeclareInv, AllTypes, BrokerTypes
  <2> QED BY <1>1, <2>1, <2>2 DEF DeclareInv, AllTypes, BrokerTypes, EndTypes
<1>6. ASSUME Waits(j)
      PROVE  /\ part[u] <= Len(ts) /\ t = ts[part[u]]
             /\ \A i \in 1..part[u] : Made(ts[i])'
  <2>1. /\ part[u] <= Len(ts) /\ t = ts[part[u]]
        /\ \A i \in 1..part[u] : i # part[u] => Made(ts[i])
    BY <1>6 DEF DeclareInv, PartsMade
  <2>2. ASSUME NEW i \in 1..part[u]
        PROVE  Made(ts[i])'
    <3>1. i \in 1..Len(ts)
      BY <1>2, <2>1
    <3>2. i = part[u] => ts[i] = t
      BY <2>1
    <3>3. i # part[u] => Made(ts[i]) /\ ts[i] \in Sought
      BY <1>2, <2>1, <3>1
    <3> QED BY <1>3, <1>4, <3>2, <3>3, MadeStays
  <2> QED BY <2>1, <2>2
<1>7. ASSUME Waits(j), part[u] < Len(ts)
      PROVE  DeclareInv'
  <2> DEFINE n == part[u] + 1
             new == Job(u, n, j.attempt)
  <2>1. /\ part' = [part EXCEPT ![u] = n]
        /\ jobs' = (jobs \ {j}) \cup {new}
        /\ UNCHANGED <<phase, attempts, result>>
    BY <1>7 DEF BindQueue
  <2>2. n \in 1..Len(ts) /\ n \in 1..2 /\ n # part[u] /\ 1..n = 1..part[u] \cup {n}
    BY <1>2, <1>7
  <2>3. /\ new \in Jobs /\ new.user = u /\ new.attempt = j.attempt /\ new.stage = "exchange"
        /\ new.topology = ts[n]
    BY <1>2, <2>2, JobType
  <2> HIDE DEF new
  <2>4. AllTypes'
    <3>1. part' \in [Users -> 1..2]
      BY <1>2, <2>1, <2>2
    <3>2. UserTypes'
      BY <2>1, <3>1 DEF DeclareInv, AllTypes, UserTypes
    <3> QED BY <1>2, <1>5, <2>1, <2>3, <3>2 DEF AllTypes
  <2>5. StagesMade'
    <3>1. ASSUME NEW k \in jobs
          PROVE  /\ k.attempt <= attempts'[k.user]
                 /\ k.stage # "exchange" => exchanges'[k.topology.exchange] = k.topology.type
                 /\ k.stage = "bind" => queues'[k.topology.queue] = Arguments(k.topology)
      BY <1>1, <2>1 DEF DeclareInv, StagesMade
    <3>2. new.attempt <= attempts'[new.user]
      BY <2>3, <3>1
    <3> QED BY <2>1, <2>3, <3>1, <3>2 DEF StagesMade, Arguments
  <2>6. OneChain'
    BY <2>1, <2>3 DEF DeclareInv, OneChain
  <2>7. PartsMade'
    <3> SUFFICES ASSUME NEW k \in jobs', Waits(k)'
                 PROVE  /\ part'[k.user] <= Len(Topologies(Setting[k.user]))
                        /\ k.topology = Topologies(Setting[k.user])[part'[k.user]]
                        /\ \A i \in 1..part'[k.user] :
                               i # part'[k.user] => Made(Topologies(Setting[k.user])[i])'
      BY DEF PartsMade
    <3>1. CASE k = new
      <4>1. part'[k.user] = n /\ k.user = u
        BY <1>2, <2>1, <2>3, <3>1
      <4>2. \A i \in 1..n : i # n => Made(ts[i])'
        BY <1>6, <1>7, <2>2
      <4> QED BY <2>2, <2>3, <3>1, <4>1, <4>2
    <3>2. CASE k # new
      <4>1. k \in jobs /\ k # j
        BY <2>1, <3>2
      <4>2. Waits(k)
        BY <2>1 DEF Waits
      <4>3. k.user # u
        BY <1>7, <4>1, <4>2 DEF Waits, DeclareInv, OneChain
      <4>4. part'[k.user] = part[k.user] /\ k.user \in Users /\ part[k.user] \in 1..2
        BY <1>2, <2>1, <4>1, <4>3, JobFields
      <4>5. /\ part[k.user] <= Len(Topologies(Setting[k.user]))
            /\ k.topology = Topologies(Setting[k.user])[part[k.user]]
            /\ \A i \in 1..part[k.user] :
                   i # part[k.user] => Made(Topologies(Setting[k.user])[i])
        BY <4>1, <4>2 DEF DeclareInv, PartsMade
      <4>6. ASSUME NEW i \in 1..part[k.user], i # part[k.user]
            PROVE  Made(Topologies(Setting[k.user])[i])'
        <5>1. i \in 1..Len(Topologies(Setting[k.user]))
          BY <4>4, <4>5, PartsOf
        <5>2. Topologies(Setting[k.user])[i] \in Sought
          BY <4>4, <5>1, PartsOf
        <5> QED BY <1>3, <4>5, <4>6, <5>2, MadeStays
      <4> QED BY <4>4, <4>5, <4>6
    <3> QED BY <3>1, <3>2
  <2>8. DeclaredExists'
    <3>1. \A v \in Users : result'[v] = "true" =>
              \A i \in DOMAIN Topologies(Setting[v]) : Made(Topologies(Setting[v])[i])'
      BY <1>3, <2>1, DeclaredMade, MadeStays, PartsOf DEF DeclareInv
    <3> QED BY <3>1 DEF DeclaredExists, Made
  <2> QED BY <2>4, <2>5, <2>6, <2>7, <2>8 DEF DeclareInv
<1>8. ASSUME ~(Waits(j) /\ part[u] < Len(ts))
      PROVE  DeclareInv'
  <2> DEFINE S == IF Waits(j) THEN {u} ELSE {}
  <2>1. jobs' = jobs \ {j} /\ Finish(S, "true") /\ S \in SUBSET Users
    BY <1>2, <1>8 DEF BindQueue
  <2>2. /\ UserTypes' /\ UNCHANGED <<part, attempts>>
        /\ \A v \in Users : phase'[v] = "declaring" => phase[v] = "declaring"
        /\ \A v \in Users : result'[v] = (IF v \in S THEN "true" ELSE result[v])
    BY <2>1, FinishTypes DEF DeclareInv
  <2>3. AllTypes'
    BY <1>2, <1>5, <2>1, <2>2 DEF AllTypes
  <2>4. \A v \in Users : result'[v] = "true" =>
            \A i \in DOMAIN Topologies(Setting[v]) : Made(Topologies(Setting[v])[i])'
    <3>1. ASSUME NEW v \in Users, v \notin S, result'[v] = "true",
                 NEW i \in DOMAIN Topologies(Setting[v])
          PROVE  Made(Topologies(Setting[v])[i])'
      BY <1>3, <2>2, <3>1, DeclaredMade, MadeStays, PartsOf DEF DeclareInv
    <3>2. ASSUME Waits(j), NEW i \in DOMAIN ts
          PROVE  Made(ts[i])'
      <4>1. part[u] = Len(ts)
        BY <1>2, <1>6, <1>8, <3>2
      <4> QED BY <1>2, <1>6, <3>2, <4>1
    <3> QED BY <3>1, <3>2
  <2>5. DeclaredExists'
    BY <2>4 DEF DeclaredExists, Made
  <2>6. StagesMade' /\ OneChain' /\ PartsMade'
    BY <1>3, <2>1, <2>2, <2>3, FewerChains DEF DeclareInv
  <2> QED BY <2>3, <2>5, <2>6 DEF DeclareInv
<1> QED BY <1>7, <1>8

\* Publishing and consuming change nothing that is declared.
LEMMA EndsOnly ==
    ASSUME DeclareInv, EndTypes',
           UNCHANGED <<exchanges, queues, bindings, open, jobs, phase, part, attempts, result>>
    PROVE  DeclareInv'
<1>1. AllTypes' /\ Grows
  BY DEF DeclareInv, AllTypes, BrokerTypes, UserTypes, Grows
<1> QED BY <1>1, FewerJobs

LEMMA PublishStep ==
    ASSUME DeclareInv, NEW u \in Users, PublishMessage(u)
    PROVE  DeclareInv'
<1> DEFINE e == Plain(Setting[u].exchange)
<1>1. UNCHANGED <<exchanges, queues, bindings, subscribed>> /\ EndTypes
  BY DEF PublishMessage, brokerVars, DeclareInv, AllTypes
<1>2. CASE exchanges[e] = None
  <2>1. ChannelError /\ published' = published
    BY <1>2 DEF PublishMessage
  <2>2. EndTypes'
    BY <1>1, <2>1 DEF EndTypes
  <2> QED BY <1>1, <2>1, <2>2, ErrorStep
<1>3. CASE exchanges[e] # None
  <2> DEFINE r == Routed(e, RoutingKey(Setting[u]))
  <2>1. /\ published' = published
                \cup {[user |-> u, ready |-> result[u] = "true", reached |-> r]}
        /\ UNCHANGED <<open, jobs, phase, part, attempts, result>>
    BY <1>3 DEF PublishMessage, userVars
  <2>2. r \subseteq Names
    BY DEF Routed, DeclareInv, AllTypes, BrokerTypes
  <2> HIDE DEF r
  <2>3. [user |-> u, ready |-> result[u] = "true", reached |-> r]
            \in [user : Users, ready : BOOLEAN, reached : SUBSET Names]
    <3>1. (result[u] = "true") \in BOOLEAN
      OBVIOUS
    <3> QED BY <2>2, <3>1
  <2>4. EndTypes'
    BY <1>1, <2>1, <2>3 DEF EndTypes
  <2> QED BY <1>1, <2>1, <2>4, EndsOnly
<1> QED BY <1>2, <1>3

LEMMA ConsumeStep ==
    ASSUME DeclareInv, NEW u \in Users, Consume(u)
    PROVE  DeclareInv'
<1> DEFINE q == TargetQueue(Setting[u])
<1>1. UNCHANGED <<exchanges, queues, bindings, published>> /\ EndTypes
  BY DEF Consume, brokerVars, DeclareInv, AllTypes
<1>2. CASE queues[q] = None
  <2>1. ChannelError /\ subscribed' = subscribed
    BY <1>2 DEF Consume
  <2>2. EndTypes'
    BY <1>1, <2>1 DEF EndTypes
  <2> QED BY <1>1, <2>1, <2>2, ErrorStep
<1>3. CASE queues[q] # None
  <2>1. /\ subscribed' = [subscribed EXCEPT ![u] = q]
        /\ UNCHANGED <<open, jobs, phase, part, attempts, result>>
    BY <1>3 DEF Consume, userVars
  <2>2. q \in Names
    BY DEF TargetQueue, Names
  <2>3. EndTypes'
    BY <1>1, <2>1, <2>2 DEF EndTypes
  <2> QED BY <1>1, <2>1, <2>3, EndsOnly
<1> QED BY <1>2, <1>3

LEMMA DeclareInit ==
    ASSUME Init
    PROVE  DeclareInv
<1>1. UserTypes
  <2>1. \A u \in Users : Attempts[u] \in Nat
    BY TopologyAssumption
  <2>2. attempts \in [Users -> Nat] /\ \A u \in Users : attempts[u] \in 0..Attempts[u]
    BY <2>1 DEF Init
  <2>3. /\ phase \in [Users -> {"idle", "declaring"}] /\ part \in [Users -> 1..2]
        /\ result \in [Users -> {"none", "true", "false"}]
    BY DEF Init
  <2> QED BY <2>2, <2>3 DEF UserTypes
<1>2. AllTypes
  BY <1>1 DEF Init, AllTypes, BrokerTypes, EndTypes
<1>3. StagesMade /\ OneChain /\ PartsMade
  BY DEF Init, StagesMade, OneChain, PartsMade
<1>4. DeclaredExists
  BY DEF Init, DeclaredExists
<1> QED BY <1>2, <1>3, <1>4 DEF DeclareInv

LEMMA DeclareNext ==
    ASSUME DeclareInv, [Next]_vars
    PROVE  DeclareInv'
<1>0. EndTypes /\ UNCHANGED endVars => EndTypes'
  BY DEF EndTypes, endVars
<1>1. ASSUME NEW u \in Users, TimedOut(u)
      PROVE  DeclareInv'
  <2>1. /\ {u} \in SUBSET Users /\ Finish({u}, "false") /\ open' \in BOOLEAN /\ jobs' \subseteq jobs
        /\ UNCHANGED <<exchanges, queues, bindings>> /\ EndTypes'
    BY <1>0, <1>1 DEF TimedOut, brokerVars, DeclareInv, AllTypes
  <2> QED BY <2>1, EndStep
<1>2. ASSUME NEW j \in jobs, NotConnected(j)
      PROVE  DeclareInv'
  <2> DEFINE S == IF Waits(j) THEN {j.user} ELSE {}
  <2>1. S \in SUBSET Users
    BY JobFields DEF DeclareInv, AllTypes
  <2>2. /\ Finish(S, "false") /\ open' \in BOOLEAN /\ jobs' \subseteq jobs
        /\ UNCHANGED <<exchanges, queues, bindings>> /\ EndTypes'
    BY <1>0, <1>2 DEF NotConnected, brokerVars, DeclareInv, AllTypes
  <2> HIDE DEF S
  <2> QED BY <2>1, <2>2, EndStep
<1>3. ASSUME ConnectionLost
      PROVE  DeclareInv'
  BY <1>0, <1>3, ErrorStep DEF ConnectionLost, brokerVars, DeclareInv, AllTypes
<1>4. ASSUME UNCHANGED vars
      PROVE  DeclareInv'
  BY <1>0, <1>4, EndsOnly DEF vars, brokerVars, userVars, DeclareInv, AllTypes
<1> QED BY <1>1, <1>2, <1>3, <1>4, DeclareStep, PublishStep, ConsumeStep, ExchangeStep, QueueStep,
           BindStep DEF Next

\* What the publishers, the subscribers and the broker hold has its type: no binding lacks its
\* exchange or its queue.
THEOREM TopologyTypes == Spec => []TypeOK
<1>1. Init => DeclareInv
  BY DeclareInit
<1>2. DeclareInv /\ [Next]_vars => DeclareInv'
  BY DeclareNext
<1>3. DeclareInv => TypeOK
  BY DEF DeclareInv, AllTypes, BrokerTypes, UserTypes, EndTypes, TypeOK
<1> QED BY <1>1, <1>2, <1>3, PTL DEF Spec

\* When Declare has returned true, all that the setting asks for exists and stays, whatever other
\* users declare on the channel, and however many earlier calls timed out and left their chains
\* of requests behind.
THEOREM DeclaredStays == Spec => []DeclaredExists
<1>1. Init => DeclareInv
  BY DeclareInit
<1>2. DeclareInv /\ [Next]_vars => DeclareInv'
  BY DeclareNext
<1>3. DeclareInv => DeclaredExists
  BY DEF DeclareInv
<1> QED BY <1>1, <1>2, <1>3, PTL DEF Spec

-----------------------------------------------------------------------------
(* Where a message goes.                                                   *)

\* A Delayed setting is never declared with success: its two halves ask for two kinds of
\* arguments of one queue.
LEMMA NoDelayed ==
    ASSUME DeclareInv, NEW u \in Users, result[u] = "true"
    PROVE  Setting[u].type # "delayed"
<1> SUFFICES ASSUME Setting[u].type = "delayed"
             PROVE  FALSE
  OBVIOUS
<1> DEFINE ts == Topologies(Setting[u])
<1>1. /\ 1 \in DOMAIN ts /\ 2 \in DOMAIN ts
      /\ ts[1].queue = ts[2].queue
      /\ Arguments(ts[1]) = "normal" /\ Arguments(ts[2]) = "delay"
  BY DEF Topologies, Topology, Arguments
<1>2. Made(ts[1]) /\ Made(ts[2])
  BY <1>1, DeclaredMade DEF DeclareInv
<1> QED BY <1>1, <1>2 DEF Made

LEMMA ReachesTarget ==
    ASSUME DeclareInv, NEW u \in Users, result[u] = "true", ~Unmatched(Setting[u])
    PROVE  TargetQueue(Setting[u])
               \in Routed(Plain(Setting[u].exchange), RoutingKey(Setting[u]))
<1> DEFINE s == Setting[u]
           e == Plain(s.exchange)
<1>1. s.type # "delayed" /\ s.type \in Types
  BY NoDelayed, TopologyAssumption
<1>2. /\ DOMAIN Topologies(s) = {1}
      /\ Topologies(s)[1] = Topology(Plain(s.exchange), s.type, Plain(s.queue), Plain(s.key), FALSE)
  BY <1>1 DEF Topologies
<1>3. Made(Topologies(s)[1])
  BY <1>2, DeclaredMade DEF DeclareInv
<1>4. exchanges[e] = s.type /\ <<e, Plain(s.queue), Plain(s.key)>> \in bindings
  BY <1>1, <1>2, <1>3 DEF Made, Topology, ConvertToAmqpExchangeType
<1>5. exchanges[e] \in {"fanout", "headers"} \/ Plain(s.key) = RoutingKey(s)
  BY <1>4 DEF Unmatched, RoutingKey
<1>6. TargetQueue(s) = Plain(s.queue)
  BY <1>1 DEF TargetQueue
<1>7. <<e, Plain(s.queue), Plain(s.key)>>
          \in {x \in bindings : x[1] = e /\ (exchanges[e] \in {"fanout", "headers"}
                                                \/ x[3] = RoutingKey(s))}
  BY <1>4, <1>5
<1> QED BY <1>6, <1>7 DEF Routed

\* A message published after a Declare that returned true reaches the queue that a subscriber
\* with the same setting consumes.
THEOREM PublishedArrives == Spec => []PublishedIsRouted
<1> DEFINE Inv == DeclareInv /\ PublishedIsRouted
<1>1. Init => Inv
  BY DeclareInit DEF Init, PublishedIsRouted
<1>2. ASSUME Inv, [Next]_vars
      PROVE  Inv'
  <2>1. DeclareInv'
    BY <1>2, DeclareNext
  <2>2. CASE published' = published
    BY <1>2, <2>1, <2>2 DEF PublishedIsRouted
  <2>3. ASSUME NEW u \in Users, PublishMessage(u), published' # published
        PROVE  PublishedIsRouted'
    <3> DEFINE p == [user |-> u, ready |-> result[u] = "true",
                     reached |-> Routed(Plain(Setting[u].exchange), RoutingKey(Setting[u]))]
    <3>1. published' = published \cup {p}
      BY <2>3 DEF PublishMessage
    <3>2. p.ready /\ ~Unmatched(Setting[p.user]) => TargetQueue(Setting[p.user]) \in p.reached
      BY <1>2, ReachesTarget
    <3> HIDE DEF p
    <3> QED BY <1>2, <3>1, <3>2 DEF PublishedIsRouted
  <2>4. published' = published \/ \E u \in Users : PublishMessage(u)
    BY <1>2 DEF Next, Declare, TimedOut, Consume, NotConnected, DeclareExchange, DeclareQueue,
                BindQueue, ConnectionLost, endVars, vars
  <2> QED BY <2>1, <2>2, <2>3, <2>4
<1>3. Inv => PublishedIsRouted
  OBVIOUS
<1> HIDE DEF Inv
<1> QED BY <1>1, <1>2, <1>3, PTL DEF Spec
=============================================================================
