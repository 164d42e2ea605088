---------------------------- MODULE ServiceManager ----------------------------
(***************************************************************************)
(* RpcUtil::ServiceManager and RpcUtil::Channels                           *)
(* (src/src/utils/RpcUtil.cpp): a map from services to channel lists and a *)
(* round-robin choice in each list.  The map has a mutex and every list    *)
(* has its own, so an operation on a node takes two locked steps: it finds *)
(* the list (getChannels) and then works on it.                            *)
(*                                                                         *)
(* A service's list is created once and never dropped from the map, so a   *)
(* pointer to it is modelled by the service.  Abstracted: the channel      *)
(* object behind an address; whether brpc accepts an address is a property *)
(* of the address (Malformed).  The 32 bits of _index are Wrap values.     *)
(***************************************************************************)
EXTENDS Naturals, Sequences, SequencesExt, FiniteSets

CONSTANTS Threads, Services, Addrs,
          Malformed,   \* the addresses that Channel::Init rejects
          NoAddr,      \* nullptr or nullopt
          Wrap         \* the number of values of _index: 2^32 in the code

VARIABLES
    map,       \* the services that have an entry in ServiceManager::_map
    channels,  \* Channels::_channels of each service
    index,     \* Channels::_index of each service
    op,        \* the operation a thread is in, after it found the list
    answer,    \* what the last getNode or getNodeAddress of a thread returned
    recent     \* history: choices since the list last changed or the index wrapped

vars == <<map, channels, index, op, answer, recent>>

Idle == [kind |-> "none"]
Ops  == [kind : {"add", "remove"}, service : Services, addr : Addrs]
            \cup [kind : {"get"}, service : Services]

TypeOK ==
    /\ map \subseteq Services
    /\ channels \in [Services -> Seq(Addrs)]
    /\ index \in [Services -> 0..(Wrap - 1)]
    /\ op \in [Threads -> Ops \cup {Idle}]
    /\ answer \in [Threads -> Addrs \cup {NoAddr}]
    /\ recent \in [Services -> Seq(Addrs)]

Init ==
    /\ map = {}
    /\ channels = [s \in Services |-> <<>>]
    /\ index = [s \in Services |-> 0]
    /\ op = [t \in Threads |-> Idle]
    /\ answer = [t \in Threads |-> NoAddr]
    /\ recent = [s \in Services |-> <<>>]

-----------------------------------------------------------------------------
\* Mutant: _map[service_name] = newChannels.
watch_Replaces(t, s) ==
    /\ op[t] = Idle
    /\ map' = map \cup {s}
    /\ channels' = [channels EXCEPT ![s] = <<>>]
    /\ index' = [index EXCEPT ![s] = 0]
    /\ recent' = [recent EXCEPT ![s] = <<>>]
    /\ UNCHANGED <<op, answer>>

\* insert leaves an entry that is already there alone.
watch(t, s) ==
    /\ op[t] = Idle
    /\ map' = map \cup {s}
    /\ UNCHANGED <<channels, index, op, answer, recent>>

\* addNode, removeNode, getNode and getNodeAddress up to the end of getChannels.
getChannels(t, o) ==
    /\ op[t] = Idle
    /\ IF o.service \in map
         THEN op' = [op EXCEPT ![t] = o] /\ UNCHANGED answer
         ELSE /\ answer' = IF o.kind = "get" THEN [answer EXCEPT ![t] = NoAddr] ELSE answer
              /\ UNCHANGED op
    /\ UNCHANGED <<map, channels, index, recent>>

Finish(t) == op' = [op EXCEPT ![t] = Idle]

\* insert returns early on an address it has and on one that brpc rejects.
Rejected(s, a) == a \in ToSet(channels[s]) \/ a \in Malformed

SetChannels(s, list) ==
    /\ channels' = [channels EXCEPT ![s] = list]
    /\ recent' = [recent EXCEPT ![s] = <<>>]

insert(t) ==
    /\ op[t].kind = "add"
    /\ LET s == op[t].service
           a == op[t].addr
       IN IF Rejected(s, a)
            THEN UNCHANGED <<channels, recent>>
            ELSE SetChannels(s, Append(channels[s], a))
    /\ Finish(t)
    /\ UNCHANGED <<map, index, answer>>

\* erase of the first entry with the address.
remove(t) ==
    /\ op[t].kind = "remove"
    /\ LET s == op[t].service
           a == op[t].addr
       IN IF a \in ToSet(channels[s])
            THEN SetChannels(s, RemoveFirst(channels[s], a))
            ELSE UNCHANGED <<channels, recent>>
    /\ Finish(t)
    /\ UNCHANGED <<map, index, answer>>

\* _index % _channels.size(), counted from 1.
Slot(s) == (index[s] % Len(channels[s])) + 1

\* Mutant: getNode advances the counter in select and in selectAddr.
Advance_Twice(i) == (i + 2) % Wrap

\* _index++ on a uint32_t.
Advance(i) == (i + 1) % Wrap

Window == Cardinality(Addrs)
Latest(picks) == SubSeq(picks, IF Len(picks) > Window THEN 2 ELSE 1, Len(picks))

\* select and selectAddr.
select(t) ==
    /\ op[t].kind = "get"
    /\ LET s    == op[t].service
           pick == channels[s][Slot(s)]
           next == Advance(index[s])
       IN IF channels[s] = <<>>
            THEN /\ answer' = [answer EXCEPT ![t] = NoAddr]
                 /\ UNCHANGED <<index, recent>>
            ELSE /\ answer' = [answer EXCEPT ![t] = pick]
                 /\ index' = [index EXCEPT ![s] = next]
                 /\ recent' = [recent EXCEPT ![s] =
                                  IF next = 0 THEN <<>> ELSE Latest(Append(@, pick))]
    /\ Finish(t)
    /\ UNCHANGED <<map, channels>>

Next ==
    \E t \in Threads :
        \/ \E s \in Services : watch(t, s)
        \/ \E o \in Ops : getChannels(t, o)
        \/ insert(t) \/ remove(t) \/ select(t)

Spec == Init /\ [][Next]_vars

-----------------------------------------------------------------------------
\* Round robin: while the list does not change and _index does not wrap, a node is not
\* chosen again before every other node of the service was chosen.  No node is listed twice,
\* then, and removeNode, which erases one entry, takes it out of the rotation.
RoundRobin ==
    \A s \in Services : \A i, j \in DOMAIN recent[s] :
        i < j /\ j - i < Len(channels[s]) => recent[s][i] # recent[s][j]

\* The two-step operations behave as if each took effect at one instant.
Registry == INSTANCE ServiceRegistry WITH
                watched <- map,
                nodes   <- [s \in Services |-> ToSet(channels[s])]
LinearizableRegistry == Registry!Spec
=============================================================================
