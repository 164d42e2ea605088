----------------------------- MODULE EtcdProvider -----------------------------
(***************************************************************************)
(* EtcdUtil::Provider (src/src/utils/EtcdUtil.cpp): one key in etcd, bound *)
(* to a lease that a KeepAlive object refreshes from a thread of its own.  *)
(* When the refreshing fails, that thread runs the handler, which          *)
(* registers anew.  Register, UnRegister and the destructor (which is      *)
(* UnRegister) are called by one thread, the owner; no lock protects what  *)
(* it shares with the handlers.                                            *)
(*                                                                         *)
(* External, modelled from how the code uses it: a lease that is not       *)
(* refreshed expires and takes its key along; a put under a lease that is  *)
(* gone fails, one under no lease is for ever; a request that fails may    *)
(* have been executed; Cancel and the destructor of a KeepAlive stop it,   *)
(* and may or may not wait for a handler in progress (waits).  That a      *)
(* KeepAlive may be destroyed inside its own handler is assumed.           *)
(***************************************************************************)
EXTENDS Naturals, FiniteSets

CONSTANTS MaxLeases,     \* bound on the leases granted
          MaxRegisters,  \* bound on the calls of Register
          Absent,        \* the key does not exist
          Modes          \* what Cancel may do

ASSUME ProviderAssumption ==
    /\ MaxLeases \in Nat /\ MaxRegisters \in Nat
    /\ Absent \notin Nat
    /\ Modes \subseteq BOOLEAN

None   == 0                \* no lease, no KeepAlive
Owner  == 0                \* the thread of the owner
Leases == 1..MaxLeases
Alives == 1..MaxLeases     \* KeepAlive objects, and their threads
Procs  == {Owner} \cup Alives

VARIABLES
    live,       \* etcd: the leases
    granted,    \* etcd: leases granted so far
    key,        \* etcd: the lease the key is bound to
    register,   \* _register
    leaseId,    \* _lease_id
    keepAlive,  \* _keep_alive
    created,    \* KeepAlive objects so far
    leaseOf,    \* the lease each of them refreshes
    beating,    \* those that do
    waits,      \* Cancel waits for a handler in progress
    pc,         \* where the owner and each handler is
    dropped,    \* the KeepAlive each of them is destroying or cancelling
    registers,  \* calls of Register
    trouble,    \* history: a request failed
    orderly     \* history: no Register was made while another was in force

etcdVars   == <<live, granted, key>>
memberVars == <<register, leaseId, keepAlive>>
aliveVars  == <<created, leaseOf, beating>>
vars == <<etcdVars, memberVars, aliveVars, waits, pc, dropped, registers, trouble, orderly>>

Labels == {"idle", "handler", "grant", "put", "undo", "install", "drop", "cancel", "reset",
           "revoke"}

TypeOK ==
    /\ live \subseteq 1..granted /\ granted \in 0..MaxLeases
    /\ key \in live \cup {None, Absent}
    /\ register \in BOOLEAN /\ leaseId \in 0..granted
    /\ keepAlive \in 0..created /\ created \in 0..granted
    /\ leaseOf \in [Alives -> 0..granted] /\ beating \subseteq 1..created
    /\ waits \in BOOLEAN /\ trouble \in BOOLEAN /\ orderly \in BOOLEAN
    /\ pc \in [Procs -> Labels] /\ dropped \in [Procs -> 0..created]
    /\ registers \in 0..MaxRegisters

Init ==
    /\ live = {} /\ granted = 0 /\ key = Absent
    /\ register = FALSE /\ leaseId = None /\ keepAlive = None
    /\ created = 0 /\ leaseOf = [k \in Alives |-> None] /\ beating = {}
    /\ waits \in Modes /\ trouble = FALSE
    /\ pc = [p \in Procs |-> "idle"] /\ dropped = [p \in Procs |-> None]
    /\ registers = 0 /\ orderly = TRUE

-----------------------------------------------------------------------------
Goto(p, label) == pc' = [pc EXCEPT ![p] = label]

\* Leases that those who will ask for one can still be granted.
Room == granted + Cardinality({p \in Procs : pc[p] \in {"handler", "grant"}}) < MaxLeases

Without(lease) == IF key = lease THEN Absent ELSE key

\* No KeepAlive refreshes it: etcd lets the lease expire.
Expire(l) ==
    /\ l \in live
    /\ \A k \in beating : leaseOf[k] # l
    /\ live' = live \ {l}
    /\ key' = Without(l)
    /\ UNCHANGED <<granted, memberVars, aliveVars, waits, pc, dropped, registers, trouble, orderly>>

-----------------------------------------------------------------------------
(* DoRegister, by the owner or by a handler.                               *)

LeaseGrant(p) ==
    /\ pc[p] = "grant"
    /\ \/ /\ granted' = granted + 1
          /\ live' = live \cup {granted'}
          /\ leaseId' = granted'
          /\ Goto(p, "put")
          /\ UNCHANGED trouble
       \/ /\ trouble' = TRUE
          /\ Goto(p, "idle")
          /\ UNCHANGED <<granted, live, leaseId>>
    /\ UNCHANGED <<key, register, keepAlive, aliveVars, waits, dropped, registers, orderly>>

\* The put uses the _lease_id of the moment.
Put(p) ==
    /\ pc[p] = "put"
    /\ \/ /\ leaseId \in live \cup {None}
          /\ key' = leaseId
          /\ \/ Goto(p, "install") /\ UNCHANGED trouble
             \/ Goto(p, "undo") /\ trouble' = TRUE
       \/ /\ trouble' = TRUE
          /\ Goto(p, "undo")
          /\ UNCHANGED key
    /\ UNCHANGED <<live, granted, memberVars, aliveVars, waits, dropped, registers, orderly>>

\* leaserevoke(_lease_id), whose answer nobody looks at.
Revoke ==
    \/ /\ live' = live \ {leaseId}
       /\ key' = IF leaseId = None THEN key ELSE Without(leaseId)
       /\ UNCHANGED trouble
    \/ /\ trouble' = TRUE
       /\ UNCHANGED <<live, key>>

Undo(p) ==
    /\ pc[p] = "undo"
    /\ Revoke
    /\ leaseId' = None
    /\ Goto(p, "idle")
    /\ UNCHANGED <<granted, register, keepAlive, aliveVars, waits, dropped, registers, orderly>>

\* _keep_alive is assigned: a new object starts, the old one stops ...
Install(p) ==
    /\ pc[p] = "install"
    /\ created' = created + 1
    /\ leaseOf' = [leaseOf EXCEPT ![created'] = leaseId]
    /\ beating' = (beating \cup {created'}) \ {keepAlive}
    /\ keepAlive' = created'
    /\ dropped' = [dropped EXCEPT ![p] = keepAlive]
    /\ Goto(p, "drop")
    /\ UNCHANGED <<etcdVars, register, leaseId, waits, registers, trouble, orderly>>

\* ... and goes: its thread is waited for, unless this is its own handler.
Quiet(p) ==
    LET k == dropped[p]
    IN waits => k \in {None, p} \/ pc[k] = "idle"

Drop(p) ==
    /\ pc[p] = "drop"
    /\ Quiet(p)
    /\ Goto(p, IF p = Owner /\ ~register THEN "revoke" ELSE "idle")
    /\ UNCHANGED <<etcdVars, memberVars, aliveVars, waits, dropped, registers, trouble, orderly>>

-----------------------------------------------------------------------------
(* The handler of a KeepAlive.                                             *)

Fail(k) ==
    /\ k \in beating
    /\ Room
    /\ beating' = beating \ {k}
    /\ Goto(k, "handler")
    /\ UNCHANGED <<etcdVars, memberVars, created, leaseOf, waits, dropped, registers, trouble, orderly>>

\* Mutants: the handler does not look at _register, or it only logs.
Wanted_Always == TRUE
Wanted_Never  == FALSE

Wanted == register

\* Mutant: the handler renews the heartbeat without a new lease.
Retry_SameLease == "install"

Retry == "grant"

HandlerError(k) ==
    /\ k # Owner
    /\ pc[k] = "handler"
    /\ Goto(k, IF Wanted THEN Retry ELSE "idle")
    /\ UNCHANGED <<etcdVars, memberVars, aliveVars, waits, dropped, registers, trouble, orderly>>

-----------------------------------------------------------------------------
(* The owner.                                                              *)

Register ==
    /\ pc[Owner] = "idle"
    /\ Room
    /\ registers < MaxRegisters
    /\ registers' = registers + 1
    /\ register' = TRUE
    /\ orderly' = (orderly /\ ~register)
    /\ Goto(Owner, "grant")
    /\ UNCHANGED <<etcdVars, leaseId, keepAlive, aliveVars, waits, dropped, trouble>>

\* Mutant: UnRegister leaves the KeepAlive alone.
Withdrawal_RevokesOnly == "revoke"

Withdrawal == IF keepAlive = None THEN "revoke" ELSE "cancel"

\* With _register clear it returns at once.
UnRegister ==
    /\ pc[Owner] = "idle"
    /\ register
    /\ register' = FALSE
    /\ Goto(Owner, Withdrawal)
    /\ UNCHANGED <<etcdVars, leaseId, keepAlive, aliveVars, waits, dropped, registers, trouble, orderly>>

\* _keep_alive->Cancel() on the object of the moment ...
Cancel ==
    /\ pc[Owner] = "cancel"
    /\ beating' = beating \ {keepAlive}
    /\ dropped' = [dropped EXCEPT ![Owner] = keepAlive]
    /\ Goto(Owner, "reset")
    /\ UNCHANGED <<etcdVars, memberVars, created, leaseOf, waits, registers, trouble, orderly>>

\* ... and _keep_alive.reset(), on what may be another one by now.
Reset ==
    /\ pc[Owner] = "reset"
    /\ Quiet(Owner)
    /\ keepAlive' = None
    /\ beating' = beating \ {keepAlive}
    /\ dropped' = [dropped EXCEPT ![Owner] = keepAlive]
    /\ Goto(Owner, "drop")
    /\ UNCHANGED <<etcdVars, register, leaseId, created, leaseOf, waits, registers, trouble, orderly>>

RevokeLease ==
    /\ pc[Owner] = "revoke"
    /\ IF leaseId # None THEN Revoke ELSE UNCHANGED <<live, key, trouble>>
    /\ leaseId' = None
    /\ Goto(Owner, "idle")
    /\ UNCHANGED <<granted, register, keepAlive, aliveVars, waits, dropped, registers, orderly>>

-----------------------------------------------------------------------------
DoRegister(p) == LeaseGrant(p) \/ Put(p) \/ Undo(p) \/ Install(p) \/ Drop(p)
Step(p) ==
    \/ DoRegister(p)
    \/ HandlerError(p)
    \/ p = Owner /\ (Cancel \/ Reset \/ RevokeLease)

Next ==
    \/ \E l \in Leases : Expire(l)
    \/ \E p \in Procs : Step(p)
    \/ \E k \in Alives : Fail(k)
    \/ Register \/ UnRegister

Spec == Init /\ [][Next]_vars

\* Threads run, requests are answered, leases without a heartbeat run out, and a
\* heartbeat for a lease that is gone fails.
FairSpec ==
    /\ Spec
    /\ \A p \in Procs : WF_vars(Step(p))
    /\ \A l \in Leases : WF_vars(Expire(l))
    /\ \A k \in Alives : WF_vars(Fail(k) /\ leaseOf[k] \notin live)

-----------------------------------------------------------------------------
Settled == \A p \in Procs : pc[p] = "idle"

\* An unregistered provider sends no heartbeat: what UnRegister did is not undone by a
\* handler that was under way.
NoOrphanHeartbeat == waits /\ Settled /\ ~register => beating = {}

\* The heartbeat is for the lease of the key: as long as every request succeeded, the
\* key of a registered provider that is at rest does not run out.
HeartbeatKeepsKey ==
    Settled /\ register /\ ~trouble /\ key # Absent => \E k \in beating : leaseOf[k] = key

\* A heartbeat goes on when, and only when, it should (DoRegister, UnRegister, the handler).
HeartbeatFollowsKey == NoOrphanHeartbeat /\ HeartbeatKeepsKey

\* The key never outlives its provider: it is always bound to a lease.
NoEternalKey == waits /\ orderly => key # None

\* After UnRegister the node goes offline, also when the revocation fails.
GoesOffline == <>[](waits /\ orderly /\ ~register) => <>[](key = Absent)

\* A registered node whose heartbeat failed, or whose lease ran out, comes back when etcd
\* answers (within the bound on the leases).
Recovers ==
    <>[]register /\ [](~trouble /\ granted < MaxLeases) => <>[](key # Absent)
=============================================================================
