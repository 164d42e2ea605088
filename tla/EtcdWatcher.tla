------------------------------ MODULE EtcdWatcher ------------------------------
(***************************************************************************)
(* EtcdUtil::Watcher (src/src/utils/EtcdUtil.cpp): a local copy of the     *)
(* keys under a prefix of etcd, filled by an ls in Start and kept up to    *)
(* date by an etcd watch whose callback runs on a thread of its own, and a *)
(* round-robin choice among the endpoints it holds.                        *)
(*                                                                         *)
(* Start, Stop and the destructor are called by one thread; GetEndPoint by *)
(* any (it is one critical section).  External, modelled from how the code *)
(* uses it: etcd serves an ls from one state of the store and sends a      *)
(* watch, in order, the changes made after it was created; a response      *)
(* carries one or more of them; a watch may break, and nothing is told     *)
(* (the code installs no handler for that).                                *)
(***************************************************************************)
EXTENDS Integers, Sequences, SequencesExt, FiniteSets

CONSTANTS Keys, Endpoints,
          Absent,       \* no value under a key
          MaxChanges,   \* bound on the changes made to the store
          MaxStarts,    \* bound on the calls of Start
          IntWrap,      \* number of values of _index, an atomic_int: 2^32 in the code
          SizeWrap      \* number of values of a size_t: 2^64 in the code

ASSUME WatcherAssumption ==
    /\ IsFiniteSet(Keys) /\ Absent \notin Endpoints
    /\ MaxChanges \in Nat /\ MaxStarts \in Nat
    /\ IntWrap \in Nat \ {0} /\ SizeWrap \in Nat /\ IntWrap <= SizeWrap

VARIABLES
    store,      \* etcd: the value under each key
    changes,    \* how often it changed
    phase,      \* where the calling thread is in Start
    starts,     \* how often Start got past its first test
    snapshot,   \* the answer of the ls in progress
    nodeMap,    \* _node_map
    vec,        \* _endpoint_vec
    isRunning,  \* _isRunning
    streams,    \* the live etcd::Watcher objects, oldest first: events not delivered
    broken,     \* history: a watch lost an event
    gap,        \* history: the store changed after an ls and before its watch
    lifetime,   \* "alive", then "members": map and mutex destroyed, then "dead"
    stopped,    \* history: Stop was called
    dangling,   \* history: the callback ran on destroyed members
    index,      \* _index, its bits as a natural number
    recent      \* history: counter and slot of the choices since vec was rebuilt

storeVars == <<store, changes>>
startVars == <<phase, starts, snapshot>>
cacheVars == <<nodeMap, vec, recent>>
ghostVars == <<broken, gap, stopped, dangling>>

vars == <<storeVars, startVars, cacheVars, isRunning, streams, lifetime, ghostVars, index>>

Values == Endpoints \cup {Absent}
Events == [key : Keys, value : Values]
Negative(raw) == raw >= IntWrap \div 2
Size(raw) == IF Negative(raw) THEN SizeWrap - IntWrap + raw ELSE raw

TypeOK ==
    /\ store \in [Keys -> Values] /\ nodeMap \in [Keys -> Values]
    /\ snapshot \in [Keys -> Values]
    /\ changes \in 0..MaxChanges /\ starts \in 0..MaxStarts
    /\ phase \in {"idle", "listing", "listed", "creating", "replacing"}
    /\ vec \in Seq(Endpoints) /\ Len(vec) <= Cardinality(Keys)
    /\ isRunning \in BOOLEAN
    /\ streams \in Seq(Seq(Events)) /\ Len(streams) <= 2
    /\ broken \in BOOLEAN /\ gap \in BOOLEAN /\ stopped \in BOOLEAN /\ dangling \in BOOLEAN
    /\ lifetime \in {"alive", "members", "dead"}
    /\ index \in 0..(IntWrap - 1)

Init ==
    /\ store \in [Keys -> Values]
    /\ nodeMap = [k \in Keys |-> Absent] /\ snapshot = nodeMap
    /\ changes = 0 /\ starts = 0 /\ phase = "idle"
    /\ vec = <<>> /\ isRunning = FALSE /\ streams = <<>>
    /\ broken = FALSE /\ gap = FALSE /\ stopped = FALSE /\ dangling = FALSE
    /\ lifetime = "alive" /\ index = 0 /\ recent = <<>>

-----------------------------------------------------------------------------
(* etcd.                                                                   *)

\* A provider puts, updates or loses a key; every live watch is told.
Change(k, v) ==
    /\ changes < MaxChanges
    /\ store[k] # v
    /\ store' = [store EXCEPT ![k] = v]
    /\ changes' = changes + 1
    /\ streams' = [i \in DOMAIN streams |-> Append(streams[i], [key |-> k, value |-> v])]
    /\ gap' = (gap \/ phase \in {"listed", "creating"})
    /\ UNCHANGED <<startVars, cacheVars, isRunning, lifetime, broken, stopped, dangling, index>>

-----------------------------------------------------------------------------
(* The cache.                                                              *)

Present(map) == {k \in Keys : map[k] # Absent}

\* The map is unordered: the vector lists it in any order.
ReBuildEndPointVector(map) ==
    /\ \E order \in SetToSeqs(Present(map)) :
           vec' = [i \in DOMAIN order |-> map[order[i]]]
    /\ recent' = <<>>

\* Mutant: only a PUT counts as a change of the map.
Rebuild_OnPutOnly(map) ==
    IF \E k \in Keys : map[k] # Absent /\ map[k] # nodeMap[k]
      THEN ReBuildEndPointVector(map)
      ELSE UNCHANGED <<vec, recent>>

Rebuild(map) == ReBuildEndPointVector(map)

\* Mutant: an event for a key that is already known is taken for a duplicate.
Apply_NewKeysOnly(map, event) ==
    IF map[event.key] # Absent /\ event.value # Absent
      THEN map
      ELSE [map EXCEPT ![event.key] = event.value]

\* A PUT assigns, a DELETE erases.
Apply(map, event) == [map EXCEPT ![event.key] = event.value]

\* The events one after the other: under each key the last one counts.
For(events, k) == {i \in DOMAIN events : events[i].key = k}
Latest(events, k) == events[Max(For(events, k))]
ApplyAll(map, events) ==
    [k \in Keys |-> IF For(events, k) = {} THEN map[k] ELSE Apply(map, Latest(events, k))[k]]

\* The watch callback: the first n events of one watch, in one critical section.
OnServerChange(i, n) ==
    /\ lifetime # "dead"
    /\ n \in 1..Len(streams[i])
    /\ nodeMap' = ApplyAll(nodeMap, SubSeq(streams[i], 1, n))
    /\ Rebuild(nodeMap')
    /\ streams' = [streams EXCEPT ![i] = SubSeq(@, n + 1, Len(@))]
    /\ dangling' = (dangling \/ lifetime = "members")
    /\ UNCHANGED <<storeVars, startVars, isRunning, lifetime, broken, gap, stopped, index>>

\* A watch breaks: what it has not delivered is lost, now and whenever it happens again.
Break(i) ==
    /\ lifetime # "dead"
    /\ streams[i] # <<>>
    /\ broken' = TRUE
    /\ streams' = [streams EXCEPT ![i] = <<>>]
    /\ UNCHANGED <<storeVars, startVars, cacheVars, isRunning, lifetime, gap, stopped,
                   dangling, index>>

-----------------------------------------------------------------------------
(* Start: ls, FetchAllNodes, and the watch.                                *)

Calling == phase = "idle" /\ lifetime = "alive"

Start ==
    /\ Calling
    /\ ~isRunning
    /\ starts < MaxStarts
    /\ starts' = starts + 1
    /\ phase' = "listing"
    /\ UNCHANGED <<storeVars, snapshot, cacheVars, isRunning, streams, lifetime, ghostVars,
                   index>>

\* etcd answers the ls, or fails it and Start returns false.
List ==
    /\ phase = "listing"
    /\ \/ snapshot' = store /\ phase' = "listed"
       \/ phase' = "idle" /\ UNCHANGED snapshot
    /\ UNCHANGED <<storeVars, starts, cacheVars, isRunning, streams, lifetime, ghostVars,
                   index>>

FetchAllNodes ==
    /\ phase = "listed"
    /\ nodeMap' = snapshot
    /\ ReBuildEndPointVector(nodeMap')
    /\ phase' = "creating"
    /\ UNCHANGED <<storeVars, starts, snapshot, isRunning, streams, lifetime, ghostVars, index>>

\* The new etcd::Watcher exists before the one it replaces is destroyed; its
\* constructor may throw, and Start returns false.
CreateWatch ==
    /\ phase = "creating"
    /\ \/ /\ streams' = Append(streams, <<>>)
          /\ phase' = IF streams = <<>> THEN "idle" ELSE "replacing"
       \/ /\ phase' = "idle"
          /\ UNCHANGED streams
    /\ UNCHANGED <<storeVars, starts, snapshot, cacheVars, isRunning, lifetime, ghostVars,
                   index>>

DropOldWatch ==
    /\ phase = "replacing"
    /\ streams' = Tail(streams)
    /\ phase' = "idle"
    /\ UNCHANGED <<storeVars, starts, snapshot, cacheVars, isRunning, lifetime, ghostVars,
                   index>>

-----------------------------------------------------------------------------
(* Stop, the destructor and the choice of an endpoint.                     *)

\* Nothing sets _isRunning, so Stop always takes its early return.
Stop ==
    /\ Calling
    /\ ~stopped
    /\ stopped' = TRUE
    /\ isRunning' = FALSE
    /\ IF isRunning
         THEN /\ streams' = <<>>
              /\ nodeMap' = [k \in Keys |-> Absent]
              /\ ReBuildEndPointVector(nodeMap')
         ELSE UNCHANGED <<streams, cacheVars>>
    /\ UNCHANGED <<storeVars, startVars, lifetime, broken, gap, dangling, index>>

\* After Stop the members go, last declared first: the map and the mutex ...
DestroyMembers ==
    /\ Calling
    /\ stopped
    /\ lifetime' = "members"
    /\ UNCHANGED <<storeVars, startVars, cacheVars, isRunning, streams, ghostVars, index>>

\* ... and then the etcd::Watcher, which joins its thread.
DestroyWatch ==
    /\ lifetime = "members"
    /\ lifetime' = "dead"
    /\ streams' = <<>>
    /\ UNCHANGED <<storeVars, startVars, cacheVars, isRunning, ghostVars, index>>

\* Mutant: a counter that is not reduced to its width.
NextIndex_Unbounded == index + 1

\* fetch_add on an atomic_int wraps.
NextIndex == (index + 1) % IntWrap

\* Mutant: the modulus leaves out the last endpoint.
Slot_WithoutLast(raw) == IF Len(vec) = 1 THEN 0 ELSE Size(raw) % (Len(vec) - 1)

\* idx is converted to size_t before the modulus.
Slot(raw) == Size(raw) % Len(vec)

GetEndPoint ==
    /\ lifetime = "alive"
    /\ vec # <<>>
    /\ index' = NextIndex
    /\ recent' = LET picks == Append(recent, [raw |-> index, slot |-> Slot(index)])
                 IN SubSeq(picks, IF Len(picks) > Cardinality(Keys) THEN 2 ELSE 1, Len(picks))
    /\ UNCHANGED <<storeVars, startVars, nodeMap, vec, isRunning, streams, lifetime, ghostVars>>

-----------------------------------------------------------------------------
Watching == \E i \in DOMAIN streams : \E n \in 1..Len(streams[i]) : OnServerChange(i, n)
Starting == List \/ FetchAllNodes \/ CreateWatch \/ DropOldWatch

Next ==
    \/ \E k \in Keys, v \in Values : Change(k, v)
    \/ Watching
    \/ \E i \in DOMAIN streams : Break(i)
    \/ Start \/ Starting \/ Stop \/ DestroyMembers \/ DestroyWatch
    \/ GetEndPoint

Spec     == Init /\ [][Next]_vars
FairSpec == Spec /\ WF_vars(Watching) /\ WF_vars(Starting)

-----------------------------------------------------------------------------
\* The vector and the map agree whenever no one holds the lock: GetEndPoint and
\* GetAllEndpoints serve each node of the map once (ReBuildEndPointVector).
ContainersAgree ==
    \A e \in Endpoints :
        Cardinality({i \in DOMAIN vec : vec[i] = e}) =
        Cardinality({k \in Keys : nodeMap[k] = e})

\* A watch is established and nothing went wrong on the way: one Start, no change
\* between its ls and its watch, no broken connection.
Undisturbed ==
    starts = 1 /\ streams # <<>> /\ ~gap /\ ~broken /\ lifetime = "alive"

\* Then the cache lags behind the store by the undelivered events and by nothing else.
CacheLagsByEvents ==
    /\ ContainersAgree
    /\ Undisturbed => ApplyAll(nodeMap, streams[1]) = store

\* Then the cache reaches the store once the store stops changing.
CacheConverges == <>[](Undisturbed => nodeMap = store)

\* Round robin: between two rebuilds and while the counter neither wraps nor becomes
\* negative, no endpoint is chosen twice before every other one was chosen.
RoundRobin ==
    \A i, j \in DOMAIN recent :
        /\ i < j /\ j - i < Len(vec)
        /\ recent[i].raw < recent[j].raw
        /\ Negative(recent[i].raw) = Negative(recent[j].raw)
        => recent[i].slot # recent[j].slot

(* What the repository says of the watcher.  The code does not keep it.    *)

\* The watch callback never runs on an object that is being destroyed (README:
\* thread-safe).
NoDanglingCallback == ~dangling
=============================================================================
