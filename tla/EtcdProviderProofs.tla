-------------------------- MODULE EtcdProviderProofs --------------------------
(***************************************************************************)
(* The safety invariants of EtcdProvider, for any number of leases, of     *)
(* calls of Register and of heartbeats that fail.                          *)
(***************************************************************************)
EXTENDS EtcdProvider, Integers, FiniteSetTheorems, WellFoundedInduction, TLAPS

\* In DoRegister, and in a handler that may yet get there.
Asking  == {"grant", "put", "undo", "install"}
Working == Asking \cup {"handler"}

At(labels) == {p \in Procs : pc[p] \in labels}

\* Every KeepAlive has a lease of its own, and there is one for everyone who will ask.
Counted ==
    /\ created + Cardinality(At({"put", "install"})) <= granted
    /\ granted + Cardinality(At({"handler", "grant"})) <= MaxLeases

\* Where a thread can be: the handlers do not withdraw, the owner handles no error, and a
\* KeepAlive that does not exist does nothing.
Places ==
    /\ pc[Owner] # "handler"
    /\ pc[Owner] \in Asking => register
    /\ pc[Owner] \in {"cancel", "reset", "revoke"} => ~register
    /\ \A k \in Alives : pc[k] \notin {"cancel", "reset", "revoke"}
    /\ \A k \in Alives : k > created => pc[k] = "idle"

\* Only the newest KeepAlive is installed, only that one beats, and not while it is in its
\* handler.
Newest ==
    /\ keepAlive \in {None, created}
    /\ beating \subseteq {keepAlive} \ {None}
    /\ \A k \in beating : pc[k] = "idle"

\* TypeOK by parts.
EtcdTypes ==
    /\ granted \in Nat /\ live \subseteq 1..granted
    /\ key \in live \cup {None, Absent}
    /\ leaseId \in 0..granted
AliveTypes ==
    /\ created \in Nat /\ keepAlive \in 0..created
    /\ leaseOf \in [Alives -> 0..granted] /\ beating \subseteq 1..created
    /\ dropped \in [Procs -> 0..created]
ThreadTypes ==
    /\ register \in BOOLEAN /\ waits \in BOOLEAN /\ trouble \in BOOLEAN /\ orderly \in BOOLEAN
    /\ pc \in [Procs -> Labels]
    /\ registers \in 0..MaxRegisters

Types == EtcdTypes /\ AliveTypes /\ ThreadTypes

BaseInv == Types /\ Counted /\ Places /\ Newest

Nobody(labels) == \A p \in Procs : pc[p] \notin labels

\* The key is that of the last lease, unless its put is to come; the last heartbeat is for the
\* lease of the key, unless it is to come; and it beats, unless its handler, or the owner, is
\* about to install the next.
KeyOfLast == Nobody({"put"}) => key \in {leaseId, Absent}
BeatOfKey ==
    Nobody({"put", "install"}) /\ key # Absent /\ keepAlive # None => leaseOf[keepAlive] = key
Beats ==
    register /\ pc[Owner] \notin {"grant", "put", "install"} =>
        /\ keepAlive # None
        /\ keepAlive \in beating \/ pc[keepAlive] \in {"handler", "grant", "put", "install"}

\* What the heartbeat keeps, as long as no request failed.
HeartbeatInv == ~trouble => Nobody({"undo"}) /\ KeyOfLast /\ BeatOfKey /\ Beats

-----------------------------------------------------------------------------
\* Someone who destroys the KeepAlive, or has cancelled it, waits for its handler.
Waited(k) ==
    \E q \in Procs : q < k /\ pc[q] \in {"drop", "reset"} /\ dropped[q] = k

\* A handler that may install, and one that waits for another.
Busy(k) == pc[k] \in Working \/ (pc[k] = "drop" /\ dropped[k] # k)

\* The handler of the KeepAlive that is installed.
Current(k) == k = keepAlive /\ pc[k] \in Working

\* A handler at work is the current one, or somebody waits for it.
Chain == \A k \in Alives : Busy(k) => Current(k) \/ Waited(k)

\* Once UnRegister has cancelled the heartbeat, only the handler it waits for registers; once
\* it has reset it, none does, and there is no heartbeat any more.
Withdrawn ==
    ~register =>
        /\ pc[Owner] = "reset" => \A k \in Alives : pc[k] \in Asking => k = dropped[Owner]
        /\ pc[Owner] \in {"drop", "revoke", "idle"} =>
               keepAlive = None /\ \A k \in Alives : pc[k] \notin Asking

WithdrawalInv == waits => Chain /\ Withdrawn

\* Unless Register is called again while one is in force, it finds no KeepAlive and no handler
\* at work, and what is put is bound to a lease.
LeasedInv ==
    waits /\ orderly =>
        /\ pc[Owner] \in Asking =>
               keepAlive = None /\ \A k \in Alives : pc[k] \notin Working
        /\ pc[Owner] = "drop" /\ register => dropped[Owner] = None
        /\ \A p \in Procs : pc[p] = "put" => leaseId # None
        /\ key # None

ProviderInv == BaseInv /\ HeartbeatInv /\ WithdrawalInv /\ LeasedInv

-----------------------------------------------------------------------------
(* How a step moves a thread, and the counts with it.                      *)

LEMMA ProcsFinite ==
    /\ IsFiniteSet(Procs) /\ Owner \in Procs
    /\ Alives \subseteq Procs /\ Owner \notin Alives
    /\ Procs = 0..MaxLeases /\ MaxLeases \in Nat
<1>1. MaxLeases \in Nat
  BY ProviderAssumption
<1>2. Procs = 0..MaxLeases
  BY <1>1 DEF Procs, Owner, Alives
<1>3. IsFiniteSet(Procs)
  BY <1>1, <1>2, FS_Interval
<1>4. Owner \in Procs /\ Alives \subseteq Procs
  BY DEF Procs
<1>5. Owner \notin Alives
  BY <1>1 DEF Owner, Alives
<1> QED BY <1>1, <1>2, <1>3, <1>4, <1>5

\* What a move adds to the threads at some labels.
Change(from, to, labels) ==
    IF from \notin labels /\ to \in labels THEN 1
    ELSE IF from \in labels /\ to \notin labels THEN -1 ELSE 0

LEMMA CountAt ==
    ASSUME NEW labels, pc \in [Procs -> Labels], NEW p \in Procs, NEW label \in Labels,
           pc' = [pc EXCEPT ![p] = label]
    PROVE  /\ Cardinality(At(labels)) \in Nat /\ Cardinality(At(labels)') \in Nat
           /\ Change(pc[p], label, labels) \in {-1, 0, 1}
           /\ Cardinality(At(labels)') = Cardinality(At(labels)) + Change(pc[p], label, labels)
<1> DEFINE before == {q \in Procs : pc[q] \in labels}
           after  == {q \in Procs : pc'[q] \in labels}
<1>1. IsFiniteSet(before) /\ IsFiniteSet(after)
  BY ProcsFinite, FS_Subset
<1>2. Cardinality(before) \in Nat /\ Cardinality(after) \in Nat
  BY <1>1, FS_CardinalityType
<1>3. (pc[p] \in labels <=> label \in labels) => after = before
  OBVIOUS
<1>4. pc[p] \in labels /\ label \notin labels => after = before \ {p} /\ p \in before
  OBVIOUS
<1>5. pc[p] \notin labels /\ label \in labels => after = before \cup {p} /\ p \notin before
  OBVIOUS
<1>6. p \in before => Cardinality(before \ {p}) = Cardinality(before) - 1
  BY <1>1, FS_RemoveElement
<1>7. p \notin before => Cardinality(before \cup {p}) = Cardinality(before) + 1
  BY <1>1, FS_AddElement
<1>8. At(labels) = before /\ At(labels)' = after
  BY DEF At
<1> HIDE DEF before, after
<1>9. CASE pc[p] \in labels /\ label \notin labels
  <2>1. Change(pc[p], label, labels) = -1
    BY <1>9 DEF Change
  <2>2. Cardinality(after) = Cardinality(before) + (-1)
    BY <1>2, <1>4, <1>6, <1>9
  <2> QED BY <1>2, <1>8, <2>1, <2>2
<1>10. CASE pc[p] \notin labels /\ label \in labels
  <2>1. Change(pc[p], label, labels) = 1
    BY <1>10 DEF Change
  <2>2. Cardinality(after) = Cardinality(before) + 1
    BY <1>2, <1>5, <1>7, <1>10
  <2> QED BY <1>2, <1>8, <2>1, <2>2
<1>11. CASE pc[p] \in labels <=> label \in labels
  <2>1. Change(pc[p], label, labels) = 0
    BY <1>11 DEF Change
  <2>2. Cardinality(after) = Cardinality(before) + 0
    BY <1>2, <1>3, <1>11
  <2> QED BY <1>2, <1>8, <2>1, <2>2
<1> QED BY <1>9, <1>10, <1>11

\* The counts are right after a move that gives away no lease twice.
LEMMA CountedMove ==
    ASSUME BaseInv, NEW p \in Procs, NEW label \in Labels, pc' = [pc EXCEPT ![p] = label],
           NEW i \in {-1, 0, 1}, i = Change(pc[p], label, {"put", "install"}),
           NEW j \in {-1, 0, 1}, j = Change(pc[p], label, {"handler", "grant"}),
           created' \in Nat, granted' \in Nat,
           created' + i <= created + (granted' - granted),
           \/ granted' + j <= granted
           \/ granted' = granted /\ j = 1 /\ Room
    PROVE  Counted'
<1> DEFINE x == {"put", "install"}
           y == {"handler", "grant"}
           a == Cardinality(At(x))
           b == Cardinality(At(y))
           c == Cardinality(At(x)')
           d == Cardinality(At(y)')
<1>1. pc \in [Procs -> Labels] /\ granted \in Nat /\ created \in Nat /\ MaxLeases \in Nat
  BY ProcsFinite DEF BaseInv, Types, EtcdTypes, AliveTypes, ThreadTypes
<1>2. a \in Nat /\ c \in Nat /\ c = a + i
  BY <1>1, CountAt
<1>3. b \in Nat /\ d \in Nat /\ d = b + j
  BY <1>1, CountAt
<1>4. created + a <= granted /\ granted + b <= MaxLeases
  BY DEF BaseInv, Counted
<1>5. Room => granted + b < MaxLeases
  BY DEF Room, At
<1>6. Counted' <=> created' + c <= granted' /\ granted' + d <= MaxLeases
  BY DEF Counted
<1> HIDE DEF a, b, c, d
<1>7. created' + c <= granted'
  BY <1>1, <1>2, <1>4
<1>8. granted' + d <= MaxLeases
  <2>1. CASE granted' + j <= granted
    BY <1>1, <1>3, <1>4, <2>1
  <2>2. CASE granted' = granted /\ j = 1 /\ Room
    <3>1. granted + b < MaxLeases
      BY <1>5, <2>2
    <3> QED BY <1>1, <1>3, <2>2, <3>1
  <2> QED BY <2>1, <2>2
<1> QED BY <1>6, <1>7, <1>8

\* What the counts say of the numbers, and that they imply TypeOK.
LEMMA Bounds ==
    ASSUME BaseInv
    PROVE  /\ created <= granted /\ granted <= MaxLeases
           /\ TypeOK
<1>1. /\ Cardinality(At({"put", "install"})) \in Nat
      /\ Cardinality(At({"handler", "grant"})) \in Nat
  <2>1. /\ IsFiniteSet(At({"put", "install"})) /\ IsFiniteSet(At({"handler", "grant"}))
    BY ProcsFinite, FS_Subset DEF At
  <2> QED BY <2>1, FS_CardinalityType
<1>2. created \in Nat /\ granted \in Nat /\ MaxLeases \in Nat
  BY ProcsFinite DEF BaseInv, Types, EtcdTypes, AliveTypes
<1>3. created <= granted /\ granted <= MaxLeases
  BY <1>1, <1>2 DEF BaseInv, Counted
<1>4. TypeOK
  <2>1. created \in 0..granted /\ granted \in 0..MaxLeases
    BY <1>2, <1>3
  <2> QED BY <2>1 DEF BaseInv, Types, EtcdTypes, AliveTypes, ThreadTypes, TypeOK
<1> QED BY <1>3, <1>4

-----------------------------------------------------------------------------
(* A step keeps the base.                                                  *)

\* Of a step that moves a thread to another label: what Places asks.
LEMMA PlacesMove ==
    ASSUME BaseInv, NEW p \in Procs, NEW label \in Labels, pc' = [pc EXCEPT ![p] = label],
           created' \in Nat, created' >= created,
           p = Owner => /\ label # "handler"
                        /\ label \in Asking => register'
                        /\ label \in {"cancel", "reset", "revoke"} => ~register',
           p # Owner => /\ label \notin {"cancel", "reset", "revoke"}
                        /\ register' = register
                        /\ label = "idle" \/ pc[p] # "idle" \/ p <= created
    PROVE  Places'
<1>1. /\ pc \in [Procs -> Labels] /\ Owner \in Procs /\ Alives \subseteq Procs
      /\ Owner \notin Alives /\ created \in Nat /\ Alives \subseteq Nat
  BY ProcsFinite DEF BaseInv, Types, ThreadTypes, AliveTypes, Alives
<1>2. Places
  BY DEF BaseInv
<1>3. CASE p = Owner
  <2>1. /\ pc'[Owner] # "handler"
        /\ pc'[Owner] \in Asking => register'
        /\ pc'[Owner] \in {"cancel", "reset", "revoke"} => ~register'
    BY <1>1, <1>3
  <2>2. \A k \in Alives : pc'[k] = pc[k]
    BY <1>1, <1>3
  <2>3. \A k \in Alives : k > created' => k > created
    BY <1>1
  <2> QED BY <1>2, <2>1, <2>2, <2>3 DEF Places
<1>4. CASE p # Owner
  <2>1. pc'[Owner] = pc[Owner] /\ register' = register
    BY <1>1, <1>4
  <2>2. \A k \in Alives : pc'[k] \notin {"cancel", "reset", "revoke"}
    BY <1>1, <1>2, <1>4 DEF Places
  <2>3. ASSUME NEW k \in Alives, k > created'
        PROVE  pc'[k] = "idle"
    <3>1. k > created
      BY <1>1, <2>3
    <3>2. pc[k] = "idle"
      BY <1>2, <3>1 DEF Places
    <3>3. ~(k <= created)
      BY <1>1, <3>1
    <3> QED BY <1>1, <1>4, <3>2, <3>3
  <2> QED BY <1>2, <2>1, <2>2, <2>3 DEF Places
<1> QED BY <1>3, <1>4

\* Of one that installs nothing: what Newest asks.
LEMMA NewestMove ==
    ASSUME BaseInv, NEW p \in Procs, NEW label \in Labels, pc' = [pc EXCEPT ![p] = label],
           UNCHANGED <<created, keepAlive>>, beating' \subseteq beating,
           p \notin beating' \/ label = "idle"
    PROVE  Newest'
<1>1. pc \in [Procs -> Labels] /\ Newest
  BY DEF BaseInv, Types, ThreadTypes
<1>2. ASSUME NEW k \in beating'
      PROVE  pc'[k] = "idle"
  <2>1. k \in beating /\ pc[k] = "idle"
    BY <1>1, <1>2 DEF Newest
  <2> QED BY <1>1, <1>2, <2>1
<1> QED BY <1>1, <1>2 DEF Newest

\* A thread that is not idle does not beat.
LEMMA BeatingIdle ==
    ASSUME BaseInv, NEW p \in Procs, pc[p] # "idle"
    PROVE  p \notin beating
BY DEF BaseInv, Newest

LEMMA GrantBase ==
    ASSUME BaseInv, NEW p \in Procs, LeaseGrant(p)
    PROVE  BaseInv'
<1>1. PICK label \in {"put", "idle"} :
          /\ pc[p] = "grant" /\ pc' = [pc EXCEPT ![p] = label]
          /\ IF label = "put"
               THEN granted' = granted + 1 /\ live' = live \cup {granted'} /\ leaseId' = granted'
               ELSE UNCHANGED <<granted, live, leaseId>>
          /\ trouble' \in {trouble, TRUE}
          /\ UNCHANGED <<key, register, keepAlive, created, leaseOf, beating, waits, dropped,
                         registers, orderly>>
  BY DEF LeaseGrant, Goto, aliveVars
<1>2. /\ label \in Labels /\ granted \in Nat /\ created \in Nat /\ MaxLeases \in Nat
      /\ p # Owner => p \in Alives
  BY ProcsFinite DEF Labels, BaseInv, Types, EtcdTypes, AliveTypes, Procs
<1>3. EtcdTypes'
  <2>1. CASE label = "put"
    <3>1. /\ 1..granted \subseteq 1..granted' /\ granted' \in 1..granted' /\ granted' \in Nat
          /\ 0..granted \subseteq 0..granted'
      BY <1>1, <1>2, <2>1
    <3>2. leaseId' \in 0..granted'
      BY <1>1, <2>1, <3>1
    <3>3. live' \subseteq 1..granted' /\ live \subseteq live' /\ key' = key
      BY <1>1, <2>1, <3>1 DEF BaseInv, Types, EtcdTypes
    <3> QED BY <3>1, <3>2, <3>3 DEF BaseInv, Types, EtcdTypes
  <2>2. CASE label # "put"
    BY <1>1, <2>2 DEF BaseInv, Types, EtcdTypes
  <2> QED BY <2>1, <2>2
<1>4. AliveTypes'
  <2>1. 0..granted \subseteq 0..granted'
    BY <1>1, <1>2
  <2> QED BY <1>1, <2>1 DEF BaseInv, Types, AliveTypes
<1>5. ThreadTypes'
  BY <1>1, <1>2 DEF BaseInv, Types, ThreadTypes
<1>6. Counted'
  <2>1. CASE label = "put"
    <3>1. /\ 1 = Change(pc[p], label, {"put", "install"})
          /\ -1 = Change(pc[p], label, {"handler", "grant"})
      BY <1>1, <2>1 DEF Change
    <3>2. granted' \in Nat /\ created' \in Nat /\ granted' + (-1) <= granted
          /\ created' + 1 <= created + (granted' - granted)
      BY <1>1, <1>2, <2>1
    <3> QED BY <1>1, <1>2, <3>1, <3>2, CountedMove
  <2>2. CASE label # "put"
    <3>1. /\ 0 = Change(pc[p], label, {"put", "install"})
          /\ -1 = Change(pc[p], label, {"handler", "grant"})
      BY <1>1, <2>2 DEF Change
    <3>2. granted' \in Nat /\ created' \in Nat /\ granted' + (-1) <= granted
          /\ created' + 0 <= created + (granted' - granted)
      BY <1>1, <1>2, <2>2
    <3> QED BY <1>1, <1>2, <3>1, <3>2, CountedMove
  <2> QED BY <2>1, <2>2
<1>7. Places'
  <2>1. p = Owner => register
    BY <1>1 DEF BaseInv, Places, Asking
  <2>2. label # "handler" /\ label \notin {"cancel", "reset", "revoke"} /\ created' >= created
    BY <1>1, <1>2
  <2> QED BY <1>1, <1>2, <2>1, <2>2, PlacesMove
<1>8. Newest'
  BY <1>1, <1>2, NewestMove, BeatingIdle
<1> QED BY <1>3, <1>4, <1>5, <1>6, <1>7, <1>8 DEF BaseInv, Types

\* A move of a thread that grants and installs nothing.
LEMMA BaseMove ==
    ASSUME BaseInv, NEW p \in Procs, NEW label \in Labels, pc' = [pc EXCEPT ![p] = label],
           UNCHANGED <<granted, created, leaseOf, waits>>,
           EtcdTypes', keepAlive' \in 0..created, beating' \subseteq beating,
           dropped' \in [Procs -> 0..created],
           register' \in BOOLEAN, trouble' \in BOOLEAN, orderly' \in BOOLEAN,
           registers' \in 0..MaxRegisters,
           Change(pc[p], label, {"put", "install"}) \in {-1, 0},
           \/ Change(pc[p], label, {"handler", "grant"}) \in {-1, 0}
           \/ Change(pc[p], label, {"handler", "grant"}) = 1 /\ Room,
           p = Owner => /\ label # "handler"
                        /\ label \in Asking => register'
                        /\ label \in {"cancel", "reset", "revoke"} => ~register',
           p # Owner => /\ label \notin {"cancel", "reset", "revoke"}
                        /\ register' = register
                        /\ label = "idle" \/ pc[p] # "idle" \/ p <= created,
           Newest'
    PROVE  BaseInv'
<1>1. granted \in Nat /\ created \in Nat
  BY DEF BaseInv, Types, EtcdTypes, AliveTypes
<1>2. Types'
  <2>1. AliveTypes'
    BY DEF BaseInv, Types, AliveTypes
  <2>2. ThreadTypes'
    BY DEF BaseInv, Types, ThreadTypes
  <2> QED BY <2>1, <2>2 DEF Types
<1>3. Counted'
  <2>1. PICK i \in {-1, 0} : i = Change(pc[p], label, {"put", "install"})
    OBVIOUS
  <2>2. PICK j \in {-1, 0, 1} :
            /\ j = Change(pc[p], label, {"handler", "grant"})
            /\ j \in {-1, 0} \/ (j = 1 /\ Room)
    OBVIOUS
  <2>3. /\ created' \in Nat /\ granted' \in Nat
        /\ created' + i <= created + (granted' - granted)
    BY <1>1, <2>1
  <2>4. granted' + j <= granted \/ (granted' = granted /\ j = 1 /\ Room)
    BY <1>1, <2>2
  <2> QED BY <2>1, <2>2, <2>3, <2>4, CountedMove
<1>4. Places'
  <2>1. created' \in Nat /\ created' >= created
    BY <1>1
  <2> QED BY <2>1, PlacesMove
<1> QED BY <1>2, <1>3, <1>4 DEF BaseInv

LEMMA ExpireBase ==
    ASSUME BaseInv, NEW l \in Leases, Expire(l)
    PROVE  BaseInv'
<1>1. EtcdTypes'
  BY DEF Expire, Without, memberVars, BaseInv, Types, EtcdTypes
<1>2. AliveTypes' /\ ThreadTypes'
  BY DEF Expire, memberVars, aliveVars, BaseInv, Types, AliveTypes, ThreadTypes
<1>3. Counted' /\ Places' /\ Newest'
  BY DEF Expire, memberVars, aliveVars, BaseInv, Counted, At, Places, Newest
<1> QED BY <1>1, <1>2, <1>3 DEF BaseInv, Types

\* Only the key, the leases, _lease_id and the history change in a put and in a revocation.
LEMMA RequestBase ==
    ASSUME BaseInv, NEW p \in Procs, NEW label \in Labels, pc' = [pc EXCEPT ![p] = label],
           UNCHANGED <<granted, register, keepAlive, created, leaseOf, beating, waits, dropped,
                       registers, orderly>>,
           EtcdTypes', trouble' \in {trouble, TRUE},
           pc[p] # "idle",
           Change(pc[p], label, {"put", "install"}) \in {-1, 0},
           Change(pc[p], label, {"handler", "grant"}) \in {-1, 0},
           p = Owner => label # "handler" /\ (label \in Asking => register),
           label \notin {"cancel", "reset", "revoke"}
    PROVE  BaseInv'
<1>1. /\ keepAlive' \in 0..created /\ beating' \subseteq beating
      /\ dropped' \in [Procs -> 0..created]
      /\ register' \in BOOLEAN /\ trouble' \in BOOLEAN /\ orderly' \in BOOLEAN
      /\ registers' \in 0..MaxRegisters
  BY DEF BaseInv, Types, AliveTypes, ThreadTypes
<1>2. Newest'
  BY BeatingIdle, NewestMove
<1> QED BY <1>1, <1>2, BaseMove

LEMMA PutBase ==
    ASSUME BaseInv, NEW p \in Procs, Put(p)
    PROVE  BaseInv'
<1>1. PICK label \in {"install", "undo"} :
          /\ pc[p] = "put" /\ pc' = [pc EXCEPT ![p] = label]
          /\ key' = key \/ (leaseId \in live \cup {None} /\ key' = leaseId)
          /\ trouble' \in {trouble, TRUE}
          /\ UNCHANGED <<live, granted, register, leaseId, keepAlive, created, leaseOf, beating,
                         waits, dropped, registers, orderly>>
  BY DEF Put, Goto, memberVars, aliveVars
<1>2. EtcdTypes'
  BY <1>1 DEF BaseInv, Types, EtcdTypes
<1>3. /\ Change(pc[p], label, {"put", "install"}) \in {-1, 0}
      /\ Change(pc[p], label, {"handler", "grant"}) \in {-1, 0}
  BY <1>1 DEF Change
<1>4. p = Owner => register
  BY <1>1 DEF BaseInv, Places, Asking
<1>5. label \in Labels
  BY DEF Labels
<1> QED BY <1>1, <1>2, <1>3, <1>4, <1>5, RequestBase

LEMMA RevokeTypes ==
    ASSUME BaseInv, Revoke, leaseId' = None, granted' = granted
    PROVE  EtcdTypes' /\ trouble' \in {trouble, TRUE}
<1>1. None \in 0..granted /\ granted \in Nat
  BY DEF BaseInv, Types, EtcdTypes, None
<1>2. live' \subseteq live /\ key' \in live' \cup {None, Absent}
  BY DEF Revoke, Without, BaseInv, Types, EtcdTypes
<1> QED BY <1>1, <1>2 DEF Revoke, BaseInv, Types, EtcdTypes

LEMMA UndoBase ==
    ASSUME BaseInv, NEW p \in Procs, Undo(p)
    PROVE  BaseInv'
<1>1. /\ pc[p] = "undo" /\ pc' = [pc EXCEPT ![p] = "idle"]
      /\ Revoke /\ leaseId' = None
      /\ UNCHANGED <<granted, register, keepAlive, created, leaseOf, beating, waits, dropped,
                     registers, orderly>>
  BY DEF Undo, Goto, aliveVars
<1>2. EtcdTypes' /\ trouble' \in {trouble, TRUE}
  BY <1>1, RevokeTypes
<1>3. /\ Change(pc[p], "idle", {"put", "install"}) \in {-1, 0}
      /\ Change(pc[p], "idle", {"handler", "grant"}) \in {-1, 0}
  BY <1>1 DEF Change
<1>4. "idle" \in Labels /\ "idle" \notin Asking
  BY DEF Labels, Asking
<1> QED BY <1>1, <1>2, <1>3, <1>4, RequestBase

LEMMA RevokeLeaseBase ==
    ASSUME BaseInv, RevokeLease
    PROVE  BaseInv'
<1>1. /\ pc[Owner] = "revoke" /\ pc' = [pc EXCEPT ![Owner] = "idle"]
      /\ leaseId' = None
      /\ UNCHANGED <<granted, register, keepAlive, created, leaseOf, beating, waits, dropped,
                     registers, orderly>>
  BY DEF RevokeLease, Goto, aliveVars
<1>2. EtcdTypes' /\ trouble' \in {trouble, TRUE}
  <2>1. CASE leaseId # None
    BY <1>1, <2>1, RevokeTypes DEF RevokeLease
  <2>2. CASE leaseId = None
    BY <1>1, <2>2 DEF RevokeLease, BaseInv, Types, EtcdTypes
  <2> QED BY <2>1, <2>2
<1>3. /\ Change(pc[Owner], "idle", {"put", "install"}) \in {-1, 0}
      /\ Change(pc[Owner], "idle", {"handler", "grant"}) \in {-1, 0}
  BY <1>1 DEF Change
<1>4. "idle" \in Labels /\ "idle" \notin Asking
  BY DEF Labels, Asking
<1> QED BY <1>1, <1>2, <1>3, <1>4, RequestBase, ProcsFinite

\* The KeepAlive that is installed has its lease, and is within the bound.
LEMMA InstallRoom ==
    ASSUME BaseInv, NEW p \in Procs, Install(p)
    PROVE  Counted' /\ created' \in Alives
<1>1. /\ pc[p] = "install" /\ pc' = [pc EXCEPT ![p] = "drop"]
      /\ created' = created + 1 /\ granted' = granted
  BY DEF Install, Goto, etcdVars
<1>2. /\ granted \in Nat /\ created \in Nat /\ MaxLeases \in Nat
      /\ pc \in [Procs -> Labels]
  BY ProcsFinite DEF BaseInv, Types, EtcdTypes, AliveTypes, ThreadTypes
<1>3. /\ -1 = Change(pc[p], "drop", {"put", "install"})
      /\ 0 = Change(pc[p], "drop", {"handler", "grant"})
      /\ "drop" \in Labels
  BY <1>1 DEF Change, Labels
<1>4. Counted'
  <2>1. /\ created' \in Nat /\ granted' \in Nat /\ granted' + 0 <= granted
        /\ created' + (-1) <= created + (granted' - granted)
    BY <1>1, <1>2
  <2> QED BY <1>1, <1>3, <2>1, CountedMove
<1>5. created' \in Alives
  <2>1. /\ Cardinality(At({"put", "install"})') \in Nat
        /\ Cardinality(At({"handler", "grant"})') \in Nat
    BY <1>1, <1>2, <1>3, CountAt
  <2>2. created' <= granted' /\ granted' <= MaxLeases /\ created' \in Nat /\ created' >= 1
    BY <1>1, <1>2, <1>4, <2>1 DEF Counted
  <2> QED BY <1>1, <1>2, <2>2 DEF Alives
<1> QED BY <1>4, <1>5

LEMMA InstallBase ==
    ASSUME BaseInv, NEW p \in Procs, Install(p)
    PROVE  BaseInv'
<1>1. /\ pc[p] = "install" /\ pc' = [pc EXCEPT ![p] = "drop"]
      /\ created' = created + 1
      /\ leaseOf' = [leaseOf EXCEPT ![created'] = leaseId]
      /\ beating' = (beating \cup {created'}) \ {keepAlive}
      /\ keepAlive' = created'
      /\ dropped' = [dropped EXCEPT ![p] = keepAlive]
      /\ UNCHANGED <<live, granted, key, register, leaseId, waits, registers, trouble, orderly>>
  BY DEF Install, Goto, etcdVars
<1>2. /\ granted \in Nat /\ created \in Nat /\ MaxLeases \in Nat
      /\ pc \in [Procs -> Labels] /\ leaseId \in 0..granted
      /\ leaseOf \in [Alives -> 0..granted] /\ beating \subseteq 1..created
      /\ dropped \in [Procs -> 0..created] /\ keepAlive \in 0..created
      /\ Places /\ Newest
  BY ProcsFinite DEF BaseInv, Types, EtcdTypes, AliveTypes, ThreadTypes
<1>3. "drop" \in Labels
  BY DEF Labels
<1>4. Counted' /\ created' \in Alives
  BY InstallRoom
<1>6. EtcdTypes'
  BY <1>1 DEF BaseInv, Types, EtcdTypes
<1>7. AliveTypes'
  <2>1. /\ 0..created \subseteq 0..created' /\ 1..created \subseteq 1..created'
        /\ created' \in Nat /\ created' \in 1..created' /\ created' \in 0..created'
    BY <1>1, <1>2
  <2>2. beating' \subseteq 1..created'
    BY <1>1, <1>2, <2>1
  <2>3. leaseOf' \in [Alives -> 0..granted]
    BY <1>1, <1>2
  <2>4. dropped' \in [Procs -> 0..created']
    BY <1>1, <1>2, <2>1
  <2> QED BY <1>1, <2>1, <2>2, <2>3, <2>4 DEF AliveTypes
<1>8. ThreadTypes'
  BY <1>1, <1>3 DEF BaseInv, Types, ThreadTypes
<1>9. Places'
  <2>1. created' \in Nat /\ created' >= created
    BY <1>1, <1>2
  <2> QED BY <1>1, <1>3, <2>1, PlacesMove DEF Asking
<1>10. Newest'
  <2>1. pc[created'] = "idle" /\ created' # p
    <3>1. created' > created
      BY <1>1, <1>2
    <3> QED BY <1>1, <1>2, <1>4, <3>1 DEF Places
  <2>2. beating' \subseteq {created'} /\ created' # None
    BY <1>1, <1>2 DEF Newest, None
  <2>3. created' \in Procs
    BY <1>4 DEF Procs
  <2>4. pc'[created'] = "idle"
    BY <1>1, <1>2, <2>1, <2>3
  <2> QED BY <1>1, <2>2, <2>4 DEF Newest
<1> QED BY <1>4, <1>6, <1>7, <1>8, <1>9, <1>10 DEF BaseInv, Types

LEMMA DropBase ==
    ASSUME BaseInv, NEW p \in Procs, Drop(p)
    PROVE  BaseInv'
<1>1. PICK label \in {"idle", "revoke"} :
          /\ pc[p] = "drop" /\ pc' = [pc EXCEPT ![p] = label]
          /\ label = "revoke" => p = Owner /\ ~register
          /\ UNCHANGED <<live, granted, key, register, leaseId, keepAlive, created, leaseOf,
                         beating, waits, dropped, registers, trouble, orderly>>
  BY DEF Drop, Goto, etcdVars, memberVars, aliveVars
<1>2. /\ EtcdTypes' /\ keepAlive' \in 0..created /\ beating' \subseteq beating
      /\ dropped' \in [Procs -> 0..created]
      /\ register' \in BOOLEAN /\ trouble' \in BOOLEAN /\ orderly' \in BOOLEAN
      /\ registers' \in 0..MaxRegisters
  BY <1>1 DEF BaseInv, Types, EtcdTypes, AliveTypes, ThreadTypes
<1>3. /\ Change(pc[p], label, {"put", "install"}) = 0
      /\ Change(pc[p], label, {"handler", "grant"}) = 0
  BY <1>1 DEF Change
<1>4. label \in Labels /\ label \notin Asking /\ label \notin {"handler", "cancel", "reset"}
  BY DEF Labels, Asking
<1>5. Newest'
  BY <1>1, <1>4, BeatingIdle, NewestMove
<1> QED BY <1>1, <1>2, <1>3, <1>4, <1>5, BaseMove

LEMMA HandlerErrorBase ==
    ASSUME BaseInv, NEW p \in Procs, HandlerError(p)
    PROVE  BaseInv'
<1>1. PICK label \in {"idle", "grant"} :
          /\ p # Owner /\ pc[p] = "handler" /\ pc' = [pc EXCEPT ![p] = label]
          /\ UNCHANGED <<live, granted, key, register, leaseId, keepAlive, created, leaseOf,
                         beating, waits, dropped, registers, trouble, orderly>>
  BY DEF HandlerError, Goto, Retry, etcdVars, memberVars, aliveVars
<1>2. /\ EtcdTypes' /\ keepAlive' \in 0..created /\ beating' \subseteq beating
      /\ dropped' \in [Procs -> 0..created]
      /\ register' \in BOOLEAN /\ trouble' \in BOOLEAN /\ orderly' \in BOOLEAN
      /\ registers' \in 0..MaxRegisters
  BY <1>1 DEF BaseInv, Types, EtcdTypes, AliveTypes, ThreadTypes
<1>3. /\ Change(pc[p], label, {"put", "install"}) = 0
      /\ Change(pc[p], label, {"handler", "grant"}) \in {-1, 0}
  BY <1>1 DEF Change
<1>4. label \in Labels /\ label \notin {"cancel", "reset", "revoke"}
  BY DEF Labels
<1>5. Newest'
  BY <1>1, <1>4, BeatingIdle, NewestMove
<1> QED BY <1>1, <1>2, <1>3, <1>4, <1>5, BaseMove

LEMMA FailBase ==
    ASSUME BaseInv, NEW k \in Alives, Fail(k)
    PROVE  BaseInv'
<1>1. /\ k \in beating /\ Room /\ beating' = beating \ {k}
      /\ pc' = [pc EXCEPT ![k] = "handler"]
      /\ UNCHANGED <<live, granted, key, register, leaseId, keepAlive, created, leaseOf, waits,
                     dropped, registers, trouble, orderly>>
  BY DEF Fail, Goto, etcdVars, memberVars
<1>2. /\ EtcdTypes' /\ keepAlive' \in 0..created /\ beating' \subseteq beating
      /\ dropped' \in [Procs -> 0..created]
      /\ register' \in BOOLEAN /\ trouble' \in BOOLEAN /\ orderly' \in BOOLEAN
      /\ registers' \in 0..MaxRegisters
  BY <1>1 DEF BaseInv, Types, EtcdTypes, AliveTypes, ThreadTypes
<1>3. pc[k] = "idle" /\ k \in Procs /\ k # Owner
  BY <1>1, ProcsFinite DEF BaseInv, Newest
<1>4. /\ Change(pc[k], "handler", {"put", "install"}) = 0
      /\ Change(pc[k], "handler", {"handler", "grant"}) = 1
      /\ "handler" \in Labels
  BY <1>3 DEF Change, Labels
<1>5. Newest'
  BY <1>1, <1>3, <1>4, NewestMove
<1>6. k <= created
  BY <1>1 DEF BaseInv, Types, AliveTypes
<1> QED BY <1>1, <1>2, <1>3, <1>4, <1>5, <1>6, BaseMove

LEMMA RegisterBase ==
    ASSUME BaseInv, Register
    PROVE  BaseInv'
<1>1. /\ pc[Owner] = "idle" /\ Room /\ registers < MaxRegisters
      /\ registers' = registers + 1 /\ register' = TRUE
      /\ orderly' = (orderly /\ ~register)
      /\ pc' = [pc EXCEPT ![Owner] = "grant"]
      /\ UNCHANGED <<live, granted, key, leaseId, keepAlive, created, leaseOf, beating, waits,
                     dropped, trouble>>
  BY DEF Register, Goto, etcdVars, aliveVars
<1>2. /\ EtcdTypes' /\ keepAlive' \in 0..created /\ beating' \subseteq beating
      /\ dropped' \in [Procs -> 0..created]
      /\ register' \in BOOLEAN /\ trouble' \in BOOLEAN
  BY <1>1 DEF BaseInv, Types, EtcdTypes, AliveTypes, ThreadTypes
<1>3. orderly' \in BOOLEAN
  BY <1>1
<1>4. registers' \in 0..MaxRegisters
  <2>1. MaxRegisters \in Nat /\ registers \in 0..MaxRegisters
    BY ProviderAssumption DEF BaseInv, Types, ThreadTypes
  <2> QED BY <1>1, <2>1
<1>5. /\ Change(pc[Owner], "grant", {"put", "install"}) = 0
      /\ Change(pc[Owner], "grant", {"handler", "grant"}) = 1
      /\ "grant" \in Labels /\ Owner \in Procs
  BY <1>1, ProcsFinite DEF Change, Labels
<1>6. Owner \notin beating
  BY DEF BaseInv, Newest, Types, AliveTypes, Owner
<1>7. Newest'
  BY <1>1, <1>5, <1>6, NewestMove
<1> QED BY <1>1, <1>2, <1>3, <1>4, <1>5, <1>7, BaseMove

\* The owner withdraws: UnRegister, Cancel and Reset.
LEMMA WithdrawBase ==
    ASSUME BaseInv, UnRegister \/ Cancel \/ Reset
    PROVE  BaseInv'
<1>1. PICK label \in {"cancel", "reset", "revoke", "drop"} :
          /\ pc[Owner] \in {"idle", "cancel", "reset"} /\ pc' = [pc EXCEPT ![Owner] = label]
          /\ pc[Owner] = "idle" => register
          /\ label # "drop" => ~register'
          /\ keepAlive' = keepAlive \/ (keepAlive' = None /\ beating' = beating \ {keepAlive})
          /\ dropped' = dropped \/ dropped' = [dropped EXCEPT ![Owner] = keepAlive]
          /\ beating' \subseteq beating
          /\ register' \in {register, FALSE}
          /\ UNCHANGED <<live, granted, key, leaseId, created, leaseOf, waits, registers, trouble,
                         orderly>>
  <2>0. pc[Owner] \in {"cancel", "reset"} => ~register
    BY DEF BaseInv, Places
  <2>1. CASE UnRegister
    BY <2>1 DEF UnRegister, Withdrawal, Goto, etcdVars, aliveVars
  <2>2. CASE Cancel
    BY <2>0, <2>2 DEF Cancel, Goto, etcdVars, memberVars
  <2>3. CASE Reset
    BY <2>0, <2>3 DEF Reset, Goto, etcdVars
  <2> QED BY <2>1, <2>2, <2>3
<1>2. keepAlive \in 0..created /\ created \in Nat /\ None \in 0..created
  BY DEF BaseInv, Types, AliveTypes, None
<1>3. /\ EtcdTypes' /\ keepAlive' \in 0..created
      /\ register' \in BOOLEAN /\ trouble' \in BOOLEAN /\ orderly' \in BOOLEAN
      /\ registers' \in 0..MaxRegisters
  BY <1>1, <1>2 DEF BaseInv, Types, EtcdTypes, AliveTypes, ThreadTypes
<1>4. dropped' \in [Procs -> 0..created]
  BY <1>1, <1>2 DEF BaseInv, Types, AliveTypes
<1>5. /\ Change(pc[Owner], label, {"put", "install"}) = 0
      /\ Change(pc[Owner], label, {"handler", "grant"}) = 0
      /\ label \in Labels /\ label \notin Asking /\ label # "handler" /\ Owner \in Procs
  BY <1>1, ProcsFinite DEF Change, Labels, Asking
<1>6. Owner \notin beating
  BY DEF BaseInv, Newest, Types, AliveTypes, Owner
<1>7. Newest'
  <2>1. CASE keepAlive' = keepAlive
    BY <1>1, <1>5, <1>6, <2>1, NewestMove
  <2>2. CASE keepAlive' = None /\ beating' = beating \ {keepAlive}
    BY <1>1, <2>2 DEF BaseInv, Newest
  <2> QED BY <1>1, <2>1, <2>2
<1> QED BY <1>1, <1>3, <1>4, <1>5, <1>7, BaseMove

LEMMA BaseInit ==
    ASSUME Init
    PROVE  BaseInv
<1>1. MaxLeases \in Nat /\ MaxRegisters \in Nat /\ Modes \subseteq BOOLEAN
  BY ProviderAssumption
<1>2. Types
  <2>1. EtcdTypes
    BY DEF Init, EtcdTypes, None
  <2>2. AliveTypes
    BY DEF Init, AliveTypes, None
  <2>3. ThreadTypes
    <3>1. registers \in 0..MaxRegisters
      BY <1>1 DEF Init
    <3>2. pc \in [Procs -> Labels]
      BY DEF Init, Labels
    <3>3. /\ register \in BOOLEAN /\ waits \in BOOLEAN /\ trouble \in BOOLEAN
          /\ orderly \in BOOLEAN
      BY <1>1 DEF Init
    <3> QED BY <3>1, <3>2, <3>3 DEF ThreadTypes
  <2> QED BY <2>1, <2>2, <2>3 DEF Types
<1>3. Counted
  <2>1. At({"put", "install"}) = {} /\ At({"handler", "grant"}) = {}
    BY DEF Init, At
  <2> QED BY <1>1, <2>1, FS_EmptySet DEF Init, Counted
<1>4. Places
  BY ProcsFinite DEF Init, Places, Asking
<1>5. Newest
  BY DEF Init, Newest
<1> QED BY <1>2, <1>3, <1>4, <1>5 DEF BaseInv

LEMMA BaseUnchanged ==
    ASSUME BaseInv, UNCHANGED vars
    PROVE  BaseInv'
<1>1. Types'
  BY DEF vars, etcdVars, memberVars, aliveVars, BaseInv, Types, EtcdTypes, AliveTypes, ThreadTypes
<1>2. Counted' /\ Places' /\ Newest'
  BY DEF vars, etcdVars, memberVars, aliveVars, BaseInv, Counted, At, Places, Newest
<1> QED BY <1>1, <1>2 DEF BaseInv

LEMMA BaseStep ==
    ASSUME BaseInv, [Next]_vars
    PROVE  BaseInv'
<1>1. ASSUME NEW l \in Leases, Expire(l)
      PROVE  BaseInv'
  BY <1>1, ExpireBase
<1>2. ASSUME NEW p \in Procs, Step(p)
      PROVE  BaseInv'
  BY <1>2, GrantBase, PutBase, UndoBase, InstallBase, DropBase, HandlerErrorBase, WithdrawBase,
     RevokeLeaseBase DEF Step, DoRegister
<1>3. ASSUME NEW k \in Alives, Fail(k)
      PROVE  BaseInv'
  BY <1>3, FailBase
<1> QED BY <1>1, <1>2, <1>3, RegisterBase, WithdrawBase, BaseUnchanged DEF Next

\* What the provider keeps has its type: among others, no KeepAlive is made for a lease that was
\* not granted.
THEOREM ProviderTypes == Spec => []TypeOK
<1>1. Init => BaseInv
  BY BaseInit
<1>2. BaseInv /\ [Next]_vars => BaseInv'
  BY BaseStep
<1>3. BaseInv => TypeOK
  BY Bounds
<1> QED BY <1>1, <1>2, <1>3, PTL DEF Spec

-----------------------------------------------------------------------------
(* The heartbeat is for the lease of the key.                              *)

LEMMA NobodyMove ==
    ASSUME BaseInv, NEW p \in Procs, NEW label, pc' = [pc EXCEPT ![p] = label], NEW labels
    PROVE  /\ Nobody(labels)' => label \notin labels
           /\ Nobody(labels)' /\ pc[p] \notin labels => Nobody(labels)
           /\ Nobody(labels) /\ label \notin labels => Nobody(labels)'
<1>1. pc \in [Procs -> Labels]
  BY DEF BaseInv, Types, ThreadTypes
<1> QED BY <1>1 DEF Nobody

LEMMA NoUndoMove ==
    ASSUME Nobody({"undo"}), pc \in [Procs -> Labels], NEW p \in Procs, NEW label,
           pc' = [pc EXCEPT ![p] = label], label # "undo"
    PROVE  Nobody({"undo"})'
BY DEF Nobody

\* A step that leaves the key and the heartbeat alone, and moves a thread towards no request.
LEMMA HeartMove ==
    ASSUME BaseInv, HeartbeatInv, NEW p \in Procs, NEW label \in Labels,
           pc' = [pc EXCEPT ![p] = label],
           pc[p] \notin {"put", "install"},
           UNCHANGED <<key, leaseId, leaseOf, keepAlive, trouble>>,
           label # "undo",
           ~trouble /\ Beats => Beats'
    PROVE  HeartbeatInv'
<1> SUFFICES ASSUME ~trouble
             PROVE  Nobody({"undo"})' /\ KeyOfLast' /\ BeatOfKey' /\ Beats'
  BY DEF HeartbeatInv
<1>1. Nobody({"undo"}) /\ KeyOfLast /\ BeatOfKey /\ Beats
  BY DEF HeartbeatInv
<1>2. Nobody({"undo"})'
  BY <1>1, NobodyMove
<1>3. Nobody({"put"})' => Nobody({"put"})
  BY NobodyMove
<1>4. Nobody({"put", "install"})' => Nobody({"put", "install"})
  BY NobodyMove
<1> QED BY <1>1, <1>2, <1>3, <1>4 DEF KeyOfLast, BeatOfKey

LEMMA HeartGrant ==
    ASSUME BaseInv, HeartbeatInv, NEW p \in Procs, LeaseGrant(p)
    PROVE  HeartbeatInv'
<1> SUFFICES ASSUME ~trouble'
             PROVE  Nobody({"undo"})' /\ KeyOfLast' /\ BeatOfKey' /\ Beats'
  BY DEF HeartbeatInv
<1>1. /\ pc[p] = "grant" /\ pc' = [pc EXCEPT ![p] = "put"] /\ ~trouble
      /\ UNCHANGED <<register, keepAlive, leaseOf, beating>>
  BY DEF LeaseGrant, Goto, aliveVars
<1>2. Nobody({"undo"}) /\ Beats /\ pc \in [Procs -> Labels]
  BY <1>1 DEF HeartbeatInv, BaseInv, Types, ThreadTypes
<1>3. /\ Nobody({"undo"})'
      /\ ~Nobody({"put"})' /\ ~Nobody({"put", "install"})'
  <2>1. Nobody({"undo"})'
    BY <1>1, <1>2, NoUndoMove DEF BaseInv, Types, ThreadTypes
  <2>2. pc'[p] = "put"
    BY <1>1, <1>2
  <2> QED BY <2>1, <2>2 DEF Nobody
<1>4. Beats'
  BY <1>1, <1>2 DEF Beats
<1> QED BY <1>3, <1>4 DEF KeyOfLast, BeatOfKey

LEMMA HeartPut ==
    ASSUME BaseInv, HeartbeatInv, NEW p \in Procs, Put(p)
    PROVE  HeartbeatInv'
<1> SUFFICES ASSUME ~trouble'
             PROVE  Nobody({"undo"})' /\ KeyOfLast' /\ BeatOfKey' /\ Beats'
  BY DEF HeartbeatInv
<1>1. /\ pc[p] = "put" /\ pc' = [pc EXCEPT ![p] = "install"] /\ ~trouble
      /\ key' = leaseId
      /\ UNCHANGED <<register, leaseId, keepAlive, leaseOf, beating>>
  BY DEF Put, Goto, memberVars, aliveVars
<1>2. Nobody({"undo"}) /\ Beats /\ pc \in [Procs -> Labels]
  BY <1>1 DEF HeartbeatInv, BaseInv, Types, ThreadTypes
<1>3. Nobody({"undo"})' /\ ~Nobody({"put", "install"})'
  <2>1. Nobody({"undo"})'
    BY <1>1, <1>2, NoUndoMove DEF BaseInv, Types, ThreadTypes
  <2>2. pc'[p] = "install"
    BY <1>1, <1>2
  <2> QED BY <2>1, <2>2 DEF Nobody
<1>4. Beats'
  BY <1>1, <1>2 DEF Beats
<1> QED BY <1>1, <1>3, <1>4 DEF KeyOfLast, BeatOfKey

LEMMA HeartUndo ==
    ASSUME BaseInv, HeartbeatInv, NEW p \in Procs, Undo(p)
    PROVE  HeartbeatInv'
BY DEF HeartbeatInv, Nobody, Undo, Revoke

LEMMA HeartInstall ==
    ASSUME BaseInv, HeartbeatInv, NEW p \in Procs, Install(p)
    PROVE  HeartbeatInv'
<1> SUFFICES ASSUME ~trouble'
             PROVE  Nobody({"undo"})' /\ KeyOfLast' /\ BeatOfKey' /\ Beats'
  BY DEF HeartbeatInv
<1>1. /\ pc[p] = "install" /\ pc' = [pc EXCEPT ![p] = "drop"] /\ ~trouble
      /\ created' = created + 1
      /\ leaseOf' = [leaseOf EXCEPT ![created'] = leaseId]
      /\ beating' = (beating \cup {created'}) \ {keepAlive}
      /\ keepAlive' = created'
      /\ UNCHANGED <<key, leaseId>>
  BY DEF Install, Goto, etcdVars
<1>2. Nobody({"undo"}) /\ KeyOfLast
  BY <1>1 DEF HeartbeatInv
<1>3. Nobody({"undo"})' /\ (Nobody({"put"})' => Nobody({"put"}))
  <2>1. Nobody({"undo"})'
    BY <1>1, <1>2, NoUndoMove DEF BaseInv, Types, ThreadTypes
  <2>2. Nobody({"put"})' => Nobody({"put"})
    BY <1>1, NobodyMove
  <2> QED BY <2>1, <2>2
<1>4. /\ created' # None /\ created' # keepAlive
      /\ created' \in Alives
  <2>1. created' \in Alives
    BY InstallRoom
  <2>2. created \in Nat /\ keepAlive \in 0..created
    BY DEF BaseInv, Types, AliveTypes
  <2> QED BY <1>1, <2>1, <2>2 DEF None
<1>5. leaseOf'[keepAlive'] = leaseId
  BY <1>1, <1>4 DEF BaseInv, Types, AliveTypes
<1>6. Nobody({"put", "install"})' => Nobody({"put"})'
  BY DEF Nobody
<1>7. BeatOfKey'
  BY <1>1, <1>2, <1>3, <1>5, <1>6 DEF BeatOfKey, KeyOfLast
<1>8. Beats'
  BY <1>1, <1>4 DEF Beats
<1> QED BY <1>1, <1>2, <1>3, <1>7, <1>8 DEF KeyOfLast

LEMMA HeartDrop ==
    ASSUME BaseInv, HeartbeatInv, NEW p \in Procs, Drop(p)
    PROVE  HeartbeatInv'
<1>1. PICK label \in {"idle", "revoke"} :
          /\ pc[p] = "drop" /\ pc' = [pc EXCEPT ![p] = label]
          /\ UNCHANGED <<key, leaseId, leaseOf, keepAlive, trouble, register, beating>>
  BY DEF Drop, Goto, etcdVars, memberVars, aliveVars
<1>2. /\ pc \in [Procs -> Labels] /\ label \in Labels /\ label # "undo"
      /\ \A k \in beating : pc[k] = "idle"
  BY DEF BaseInv, Newest, Types, ThreadTypes, Labels
<1>3. Beats => Beats'
  <2>1. pc'[Owner] \notin {"grant", "put", "install"} =>
            pc[Owner] \notin {"grant", "put", "install"}
    BY <1>1, <1>2
  <2>2. ASSUME pc[keepAlive] \in {"handler", "grant", "put", "install"}
        PROVE  pc'[keepAlive] = pc[keepAlive]
    BY <1>1, <1>2, <2>2
  <2> QED BY <1>1, <2>1, <2>2 DEF Beats
<1> QED BY <1>1, <1>2, <1>3, HeartMove

LEMMA HeartHandler ==
    ASSUME BaseInv, HeartbeatInv, NEW p \in Procs, HandlerError(p)
    PROVE  HeartbeatInv'
<1>1. PICK label \in {"grant", "idle"} :
          /\ p # Owner /\ pc[p] = "handler" /\ pc' = [pc EXCEPT ![p] = label]
          /\ register => label = "grant"
          /\ UNCHANGED <<key, leaseId, leaseOf, keepAlive, trouble, register, beating>>
  BY DEF HandlerError, Goto, Wanted, Retry, etcdVars, memberVars, aliveVars
<1>2. pc \in [Procs -> Labels] /\ label \in Labels /\ label # "undo"
  BY DEF BaseInv, Types, ThreadTypes, Labels
<1>3. Beats => Beats'
  <2>1. pc'[Owner] = pc[Owner]
    BY <1>1, <1>2
  <2>2. register /\ pc[keepAlive] \in {"handler", "grant", "put", "install"} =>
            pc'[keepAlive] \in {"handler", "grant", "put", "install"}
    BY <1>1, <1>2
  <2> QED BY <1>1, <2>1, <2>2 DEF Beats
<1> QED BY <1>1, <1>2, <1>3, HeartMove

LEMMA HeartFail ==
    ASSUME BaseInv, HeartbeatInv, NEW k \in Alives, Fail(k)
    PROVE  HeartbeatInv'
<1>1. /\ k \in beating /\ beating' = beating \ {k}
      /\ pc' = [pc EXCEPT ![k] = "handler"]
      /\ UNCHANGED <<key, leaseId, leaseOf, keepAlive, trouble, register>>
  BY DEF Fail, Goto, etcdVars, memberVars
<1>2. /\ pc \in [Procs -> Labels] /\ "handler" \in Labels /\ k \in Procs /\ k # Owner
      /\ k = keepAlive /\ k # None /\ pc[k] = "idle"
  BY <1>1, ProcsFinite DEF BaseInv, Newest, Types, ThreadTypes, Labels
<1>3. Beats'
  <2>1. pc'[keepAlive'] = "handler"
    BY <1>1, <1>2
  <2> QED BY <1>1, <1>2, <2>1 DEF Beats
<1> QED BY <1>1, <1>2, <1>3, HeartMove

LEMMA HeartOwner ==
    ASSUME BaseInv, HeartbeatInv, Register \/ UnRegister \/ Cancel
    PROVE  HeartbeatInv'
<1>1. PICK label \in {"grant", "cancel", "revoke", "reset"} :
          /\ pc[Owner] \in {"idle", "cancel"} /\ pc' = [pc EXCEPT ![Owner] = label]
          /\ label = "grant" \/ ~register'
          /\ UNCHANGED <<key, leaseId, leaseOf, keepAlive, trouble>>
  <2>1. CASE Register
    BY <2>1 DEF Register, Goto, etcdVars, aliveVars
  <2>2. CASE UnRegister
    BY <2>2 DEF UnRegister, Withdrawal, Goto, etcdVars, aliveVars
  <2>3. CASE Cancel
    BY <2>3 DEF Cancel, Goto, etcdVars, memberVars, BaseInv, Places
  <2> QED BY <2>1, <2>2, <2>3
<1>2. pc \in [Procs -> Labels] /\ label \in Labels /\ label # "undo" /\ Owner \in Procs
  BY ProcsFinite DEF BaseInv, Types, ThreadTypes, Labels
<1>3. Beats'
  BY <1>1, <1>2 DEF Beats
<1> QED BY <1>1, <1>2, <1>3, HeartMove

LEMMA HeartReset ==
    ASSUME BaseInv, HeartbeatInv, Reset
    PROVE  HeartbeatInv'
<1> SUFFICES ASSUME ~trouble'
             PROVE  Nobody({"undo"})' /\ KeyOfLast' /\ BeatOfKey' /\ Beats'
  BY DEF HeartbeatInv
<1>1. /\ pc[Owner] = "reset" /\ pc' = [pc EXCEPT ![Owner] = "drop"] /\ ~trouble
      /\ keepAlive' = None /\ ~register'
      /\ UNCHANGED <<key, leaseId>>
  BY DEF Reset, Goto, etcdVars, BaseInv, Places
<1>2. Nobody({"undo"}) /\ KeyOfLast
  BY <1>1 DEF HeartbeatInv
<1>3. Nobody({"undo"})' /\ (Nobody({"put"})' => Nobody({"put"}))
  <2>1. Nobody({"undo"})'
    BY <1>1, <1>2, NoUndoMove, ProcsFinite DEF BaseInv, Types, ThreadTypes
  <2>2. Nobody({"put"})' => Nobody({"put"})
    BY <1>1, NobodyMove, ProcsFinite
  <2> QED BY <2>1, <2>2
<1> QED BY <1>1, <1>2, <1>3 DEF KeyOfLast, BeatOfKey, Beats

LEMMA HeartRevoke ==
    ASSUME BaseInv, HeartbeatInv, RevokeLease
    PROVE  HeartbeatInv'
<1> SUFFICES ASSUME ~trouble'
             PROVE  Nobody({"undo"})' /\ KeyOfLast' /\ BeatOfKey' /\ Beats'
  BY DEF HeartbeatInv
<1>1. /\ pc[Owner] = "revoke" /\ pc' = [pc EXCEPT ![Owner] = "idle"] /\ ~trouble
      /\ ~register' /\ leaseId' = None
      /\ IF leaseId = None \/ key # leaseId THEN key' = key ELSE key' = Absent
      /\ UNCHANGED <<keepAlive, leaseOf>>
  BY DEF RevokeLease, Revoke, Without, Goto, BaseInv, Places, aliveVars
<1>2. Nobody({"undo"}) /\ KeyOfLast /\ BeatOfKey
  BY <1>1 DEF HeartbeatInv
<1>3. /\ Nobody({"undo"})' /\ (Nobody({"put"})' => Nobody({"put"}))
      /\ Nobody({"put", "install"})' => Nobody({"put", "install"})
  <2>1. Nobody({"undo"})'
    BY <1>1, <1>2, NoUndoMove, ProcsFinite DEF BaseInv, Types, ThreadTypes
  <2>2. Nobody({"put"})' => Nobody({"put"})
    BY <1>1, NobodyMove, ProcsFinite
  <2>3. Nobody({"put", "install"})' => Nobody({"put", "install"})
    BY <1>1, NobodyMove, ProcsFinite
  <2> QED BY <2>1, <2>2, <2>3
<1>4. KeyOfLast'
  BY <1>1, <1>2, <1>3 DEF KeyOfLast
<1>5. BeatOfKey'
  BY <1>1, <1>2, <1>3 DEF BeatOfKey
<1> QED BY <1>1, <1>3, <1>4, <1>5 DEF Beats

LEMMA HeartInit ==
    ASSUME Init
    PROVE  HeartbeatInv
BY DEF Init, HeartbeatInv, Nobody, KeyOfLast, BeatOfKey, Beats

LEMMA HeartStep ==
    ASSUME BaseInv, HeartbeatInv, [Next]_vars
    PROVE  HeartbeatInv'
<1>1. ASSUME NEW l \in Leases, Expire(l)
      PROVE  HeartbeatInv'
  <2>1. /\ key' \in {key, Absent}
        /\ UNCHANGED <<pc, leaseId, leaseOf, keepAlive, register, beating, trouble>>
    BY <1>1 DEF Expire, Without, memberVars, aliveVars
  <2> QED BY <2>1 DEF HeartbeatInv, Nobody, KeyOfLast, BeatOfKey, Beats
<1>2. ASSUME NEW p \in Procs, Step(p)
      PROVE  HeartbeatInv'
  BY <1>2, HeartGrant, HeartPut, HeartUndo, HeartInstall, HeartDrop, HeartHandler, HeartOwner,
     HeartReset, HeartRevoke DEF Step, DoRegister
<1>3. ASSUME NEW k \in Alives, Fail(k)
      PROVE  HeartbeatInv'
  BY <1>3, HeartFail
<1>4. ASSUME UNCHANGED vars
      PROVE  HeartbeatInv'
  BY <1>4 DEF vars, etcdVars, memberVars, aliveVars, HeartbeatInv, Nobody, KeyOfLast, BeatOfKey,
              Beats
<1> QED BY <1>1, <1>2, <1>3, <1>4, HeartOwner DEF Next

LEMMA KeepsKey ==
    ASSUME BaseInv, HeartbeatInv
    PROVE  HeartbeatKeepsKey
<1> SUFFICES ASSUME Settled, register, ~trouble, key # Absent
             PROVE  \E k \in beating : leaseOf[k] = key
  BY DEF HeartbeatKeepsKey
<1>1. Nobody({"put", "install"}) /\ pc[Owner] = "idle"
  BY ProcsFinite DEF Settled, Nobody
<1>2. keepAlive \in Procs
  <2>1. keepAlive \in 0..created /\ created \in Nat /\ granted \in Nat
    BY DEF BaseInv, Types, EtcdTypes, AliveTypes
  <2> QED BY <2>1, Bounds, ProcsFinite
<1>3. keepAlive # None /\ keepAlive \in beating
  BY <1>1, <1>2 DEF HeartbeatInv, Beats, Settled
<1> QED BY <1>1, <1>3 DEF HeartbeatInv, BeatOfKey

-----------------------------------------------------------------------------
(* Who waits for whom.                                                     *)

Below == {ss \in Nat \X Nat : ss[1] < ss[2]}

LEMMA LeastAlive ==
    ASSUME NEW T, T \subseteq Alives, T # {}
    PROVE  \E k \in T : \A q \in T : ~(q < k)
<1>1. IsWellFoundedOn(Below, Nat)
  BY NatLessThanWellFounded DEF OpToRel, Below
<1>2. T \subseteq Nat
  BY ProcsFinite DEF Alives
<1>3. PICK k \in T : \A q \in T : ~(<<q, k>> \in Below)
  BY <1>1, <1>2, WFMin
<1> QED BY <1>2, <1>3 DEF Below

\* If the owner waits for nobody, the handlers at work are the current one.
Free == pc[Owner] \notin {"drop", "reset"} \/ dropped[Owner] = None \/ pc[dropped[Owner]] = "idle"

LEMMA Alone ==
    ASSUME BaseInv, Chain, Free
    PROVE  \A k \in Alives : Busy(k) => Current(k)
<1> DEFINE T == {k \in Alives : Busy(k) /\ ~Current(k)}
<1> SUFFICES ASSUME T # {}
             PROVE  FALSE
  OBVIOUS
<1>1. PICK k \in T : \A q \in T : ~(q < k)
  BY LeastAlive
<1>2. PICK q \in Procs : q < k /\ pc[q] \in {"drop", "reset"} /\ dropped[q] = k
  BY <1>1 DEF Chain, Waited
<1>3. pc[k] # "idle" /\ k # None /\ k \in Nat
  <2>1. pc[k] # "idle"
    BY <1>1 DEF Busy, Working, Asking
  <2>2. k \in Alives /\ MaxLeases \in Nat
    BY <1>1, ProcsFinite
  <2> QED BY <2>1, <2>2 DEF Alives, None
<1>4. q # Owner
  BY <1>2, <1>3 DEF Free
<1>5. q \in Alives /\ q \in Nat
  BY <1>4, ProcsFinite DEF Procs, Alives
<1>6. q # k
  BY <1>2, <1>3, <1>5
<1>7. pc[q] = "drop"
  BY <1>2, <1>5 DEF BaseInv, Places
<1>8. Busy(q) /\ ~Current(q)
  BY <1>2, <1>6, <1>7 DEF Busy, Current, Working, Asking
<1> QED BY <1>1, <1>2, <1>5, <1>8

\* A step of a thread that waits for nobody, and starts no work unless it is the current handler.
LEMMA ChainMove ==
    ASSUME BaseInv, Chain, NEW p \in Procs, NEW label \in Labels, pc' = [pc EXCEPT ![p] = label],
           pc[p] \notin {"drop", "reset"}, label # "drop",
           keepAlive' = keepAlive, \A q \in Procs \ {p} : dropped'[q] = dropped[q],
           p \in Alives /\ label \in Working => pc[p] \in Working \/ p = keepAlive
    PROVE  Chain'
<1>1. /\ pc \in [Procs -> Labels] /\ Alives \subseteq Procs /\ Procs \subseteq Nat
  BY ProcsFinite DEF BaseInv, Types, ThreadTypes
<1>2. \A q \in Procs \ {p} : pc'[q] = pc[q]
  BY <1>1
<1>3. pc'[p] = label
  BY <1>1
<1>4. ASSUME NEW k \in Alives, Waited(k)
      PROVE  Waited(k)'
  <2>1. PICK q \in Procs : q < k /\ pc[q] \in {"drop", "reset"} /\ dropped[q] = k
    BY <1>4 DEF Waited
  <2>2. q # p
    BY <2>1
  <2> QED BY <1>2, <2>1, <2>2 DEF Waited
<1> SUFFICES ASSUME NEW k \in Alives, Busy(k)'
             PROVE  Current(k)' \/ Waited(k)'
  BY DEF Chain
<1>5. CASE k = p
  <2>1. label \in Working
    BY <1>3, <1>5 DEF Busy
  <2>2. CASE pc[p] \in Working
    BY <1>3, <1>4, <1>5, <2>1, <2>2 DEF Chain, Busy, Current
  <2>3. CASE p = keepAlive
    BY <1>3, <1>5, <2>1, <2>3 DEF Current
  <2> QED BY <1>5, <2>1, <2>2, <2>3
<1>6. CASE k # p
  <2>1. pc'[k] = pc[k] /\ dropped'[k] = dropped[k]
    BY <1>1, <1>2, <1>6
  <2>2. Busy(k)
    BY <2>1 DEF Busy
  <2> QED BY <1>4, <2>1, <2>2 DEF Chain, Current
<1> QED BY <1>5, <1>6

LEMMA ChainInstall ==
    ASSUME BaseInv, Chain, NEW p \in Procs, Install(p)
    PROVE  Chain'
<1>1. /\ pc[p] = "install" /\ pc' = [pc EXCEPT ![p] = "drop"]
      /\ dropped' = [dropped EXCEPT ![p] = keepAlive]
  BY DEF Install, Goto
<1>2. /\ pc \in [Procs -> Labels] /\ Alives \subseteq Procs /\ Procs \subseteq Nat
      /\ Newest /\ Places /\ created \in Nat /\ dropped \in [Procs -> 0..created]
      /\ \A q \in Procs : q = Owner \/ q \in Alives
  BY ProcsFinite DEF BaseInv, Types, ThreadTypes, AliveTypes, Procs
<1>3. /\ \A q \in Procs \ {p} : pc'[q] = pc[q] /\ dropped'[q] = dropped[q]
      /\ pc'[p] = "drop" /\ dropped'[p] = keepAlive
  BY <1>1, <1>2
<1>4. ASSUME NEW k \in Alives, Waited(k)
      PROVE  Waited(k)'
  <2>1. PICK q \in Procs : q < k /\ pc[q] \in {"drop", "reset"} /\ dropped[q] = k
    BY <1>4 DEF Waited
  <2>2. q # p
    BY <1>1, <2>1
  <2> QED BY <1>3, <2>1, <2>2 DEF Waited
<1> SUFFICES ASSUME NEW k \in Alives, Busy(k)'
             PROVE  Waited(k)'
  BY DEF Chain
<1>5. CASE k = p
  <2>1. keepAlive # p
    BY <1>3, <1>5 DEF Busy, Working, Asking
  <2>2. Busy(p) /\ ~Current(p)
    BY <1>1, <2>1 DEF Busy, Current, Working, Asking
  <2> QED BY <1>4, <1>5, <2>2 DEF Chain
<1>6. CASE k # p
  <2>1. Busy(k)
    BY <1>2, <1>3, <1>6 DEF Busy
  <2>2. ASSUME Current(k)
        PROVE  Waited(k)'
    <3>1. k = keepAlive /\ k \in Nat /\ k \in 1..MaxLeases
      BY <1>2, <2>2 DEF Current, Alives
    <3>2. k = created
      BY <1>2, <3>1, ProcsFinite DEF Newest, None
    <3>3. p \in Alives => p <= created
      BY <1>1, <1>2 DEF Places
    <3>4. p < k
      BY <1>2, <1>6, <3>1, <3>2, <3>3, ProcsFinite DEF Owner
    <3> QED BY <1>3, <3>1, <3>4 DEF Waited
  <2> QED BY <1>4, <2>1, <2>2 DEF Chain
<1> QED BY <1>5, <1>6

\* Whoever has destroyed a KeepAlive goes on when its handler has ended.
LEMMA ChainDrop ==
    ASSUME BaseInv, Chain, waits, NEW p \in Procs, Drop(p)
    PROVE  Chain'
<1>1. PICK label \in {"idle", "revoke"} :
          /\ pc[p] = "drop" /\ pc' = [pc EXCEPT ![p] = label]
          /\ dropped[p] \in {None, p} \/ pc[dropped[p]] = "idle"
          /\ UNCHANGED <<keepAlive, dropped>>
  BY DEF Drop, Quiet, Goto, memberVars
<1>2. /\ pc \in [Procs -> Labels] /\ Alives \subseteq Procs
      /\ \A k \in Alives : k # None
  BY ProcsFinite DEF BaseInv, Types, ThreadTypes, Alives, None
<1>3. \A q \in Procs \ {p} : pc'[q] = pc[q]
  BY <1>1, <1>2
<1> SUFFICES ASSUME NEW k \in Alives, Busy(k)'
             PROVE  Current(k)' \/ Waited(k)'
  BY DEF Chain
<1>4. k # p
  BY <1>1, <1>2 DEF Busy, Working, Asking
<1>5. pc'[k] = pc[k] /\ Busy(k) /\ pc[k] # "idle"
  BY <1>1, <1>2, <1>3, <1>4 DEF Busy, Working, Asking
<1>6. CASE Current(k)
  BY <1>1, <1>5, <1>6 DEF Current
<1>7. ASSUME NEW q \in Procs, q < k, pc[q] \in {"drop", "reset"}, dropped[q] = k
      PROVE  Waited(k)'
  <2>1. q # p
    BY <1>1, <1>2, <1>4, <1>5, <1>7
  <2> QED BY <1>1, <1>3, <1>7, <2>1 DEF Waited
<1> QED BY <1>5, <1>6, <1>7 DEF Chain, Waited

LEMMA ChainReset ==
    ASSUME BaseInv, Chain, waits, Reset
    PROVE  Chain'
<1>1. /\ pc[Owner] = "reset" /\ pc' = [pc EXCEPT ![Owner] = "drop"]
      /\ dropped[Owner] \in {None, Owner} \/ pc[dropped[Owner]] = "idle"
      /\ dropped' = [dropped EXCEPT ![Owner] = keepAlive]
  BY DEF Reset, Quiet, Goto
<1>2. /\ pc \in [Procs -> Labels] /\ Alives \subseteq Procs /\ Owner \in Procs
      /\ created \in Nat /\ dropped \in [Procs -> 0..created]
      /\ \A k \in Alives : k # None /\ k # Owner /\ Owner < k
  BY ProcsFinite DEF BaseInv, Types, ThreadTypes, AliveTypes, Alives, None, Owner
<1>3. /\ \A q \in Procs \ {Owner} : pc'[q] = pc[q] /\ dropped'[q] = dropped[q]
      /\ pc'[Owner] = "drop" /\ dropped'[Owner] = keepAlive
  BY <1>1, <1>2
<1> SUFFICES ASSUME NEW k \in Alives, Busy(k)'
             PROVE  Waited(k)'
  BY DEF Chain
<1>4. Busy(k) /\ pc[k] # "idle"
  BY <1>2, <1>3 DEF Busy, Working, Asking
<1>5. CASE Current(k)
  BY <1>2, <1>3, <1>5 DEF Current, Waited
<1>6. ASSUME NEW q \in Procs, q < k, pc[q] \in {"drop", "reset"}, dropped[q] = k
      PROVE  Waited(k)'
  <2>1. q # Owner
    BY <1>1, <1>2, <1>4, <1>6
  <2> QED BY <1>3, <1>6, <2>1 DEF Waited
<1> QED BY <1>4, <1>5, <1>6 DEF Chain, Waited

LEMMA ChainStep ==
    ASSUME BaseInv, Chain, waits, [Next]_vars
    PROVE  Chain'
<1>1. ASSUME NEW l \in Leases, Expire(l)
      PROVE  Chain'
  <2>1. UNCHANGED <<keepAlive, pc, dropped>>
    BY <1>1 DEF Expire, memberVars
  <2> QED BY <2>1 DEF Chain, Busy, Current, Waited
<1>2. ASSUME NEW p \in Procs, LeaseGrant(p) \/ Put(p) \/ Undo(p) \/ HandlerError(p)
      PROVE  Chain'
  <2>1. PICK label \in {"put", "install", "undo", "idle", "grant"} :
            /\ pc[p] \in {"grant", "put", "undo", "handler"} /\ pc' = [pc EXCEPT ![p] = label]
            /\ UNCHANGED <<keepAlive, dropped>>
    BY <1>2 DEF LeaseGrant, Put, Undo, HandlerError, Retry, Goto, memberVars
  <2>2. pc[p] \in Working /\ pc[p] \notin {"drop", "reset"} /\ label # "drop" /\ label \in Labels
    BY <2>1 DEF Working, Asking, Labels
  <2> QED BY <2>1, <2>2, ChainMove
<1>3. ASSUME Register \/ UnRegister \/ Cancel \/ RevokeLease
      PROVE  Chain'
  <2>1. PICK label \in {"grant", "cancel", "revoke", "reset", "idle"} :
            /\ pc[Owner] \in {"idle", "cancel", "revoke"} /\ pc' = [pc EXCEPT ![Owner] = label]
            /\ keepAlive' = keepAlive
            /\ dropped' = dropped \/ dropped' = [dropped EXCEPT ![Owner] = keepAlive]
    BY <1>3 DEF Register, UnRegister, Withdrawal, Cancel, RevokeLease, Goto, memberVars
  <2>2. /\ pc[Owner] \notin {"drop", "reset"} /\ label # "drop" /\ label \in Labels
        /\ Owner \in Procs /\ Owner \notin Alives
    BY <2>1, ProcsFinite DEF Labels
  <2>3. \A q \in Procs \ {Owner} : dropped'[q] = dropped[q]
    BY <2>1 DEF BaseInv, Types, AliveTypes
  <2> QED BY <2>1, <2>2, <2>3, ChainMove
<1>4. ASSUME NEW k \in Alives, Fail(k)
      PROVE  Chain'
  <2>1. /\ pc[k] = "idle" /\ k = keepAlive /\ pc' = [pc EXCEPT ![k] = "handler"]
        /\ UNCHANGED <<keepAlive, dropped>> /\ k \in Procs
    BY <1>4, ProcsFinite DEF Fail, Goto, memberVars, BaseInv, Newest
  <2>2. "handler" \in Labels
    BY DEF Labels
  <2> QED BY <2>1, <2>2, ChainMove
<1>5. ASSUME UNCHANGED vars
      PROVE  Chain'
  BY <1>5 DEF vars, memberVars, Chain, Busy, Current, Waited
<1>6. ASSUME NEW p \in Procs, Step(p)
      PROVE  Chain'
  BY <1>2, <1>3, <1>6, ChainInstall, ChainDrop, ChainReset DEF Step, DoRegister
<1> QED BY <1>1, <1>3, <1>4, <1>5, <1>6 DEF Next

-----------------------------------------------------------------------------
(* After UnRegister.                                                       *)

\* A handler goes on, fails, or begins.
LEMMA WithdrawnMove ==
    ASSUME BaseInv, Withdrawn, NEW p \in Alives, NEW label, pc' = [pc EXCEPT ![p] = label],
           register' = register,
           ~register => keepAlive' = keepAlive
                        \/ (pc[p] \in Asking /\ keepAlive' \in Alives),
           dropped'[Owner] = dropped[Owner],
           ~register /\ label \in Asking => pc[p] \in Asking
    PROVE  Withdrawn'
<1>1. pc \in [Procs -> Labels] /\ p \in Procs /\ p # Owner
  BY ProcsFinite DEF BaseInv, Types, ThreadTypes
<1>2. pc'[Owner] = pc[Owner]
  BY <1>1, ProcsFinite
<1>3. ~register => \A k \in Alives : pc'[k] \in Asking => pc[k] \in Asking
  BY <1>1
<1> QED BY <1>2, <1>3 DEF Withdrawn

LEMMA WithdrawnOwner ==
    ASSUME BaseInv, Withdrawn, Chain, waits, NEW label, pc' = [pc EXCEPT ![Owner] = label],
           ~register' =>
               \/ Cancel
               \/ Reset
               \/ UnRegister
               \/ /\ label \in {"idle", "revoke"} /\ pc[Owner] \in {"drop", "revoke"}
                  /\ UNCHANGED <<register, keepAlive>>
    PROVE  Withdrawn'
<1> SUFFICES ASSUME ~register'
             PROVE  Withdrawn'
  BY DEF Withdrawn
<1>1. /\ pc \in [Procs -> Labels] /\ Owner \in Procs /\ Owner \notin Alives
      /\ Alives \subseteq Procs
      /\ dropped \in [Procs -> 0..created] /\ \A k \in Alives : k # None
  BY ProcsFinite DEF BaseInv, Types, ThreadTypes, AliveTypes, None, Owner
<1>2. pc'[Owner] = label /\ \A k \in Alives : pc'[k] = pc[k]
  BY <1>1
<1>3. \A k \in Alives : pc[k] \in Asking => Busy(k)
  BY DEF Busy, Working
<1>4. CASE Cancel
  <2>1. /\ Free /\ label = "reset" /\ dropped'[Owner] = keepAlive
    BY <1>1, <1>2, <1>4 DEF Cancel, Goto, Free
  <2> QED BY <1>2, <1>3, <2>1, Alone DEF Withdrawn, Current
<1>5. CASE Reset
  <2>1. /\ label = "drop" /\ pc[Owner] = "reset" /\ ~register /\ keepAlive' = None
        /\ dropped[Owner] \in {None, Owner} \/ pc[dropped[Owner]] = "idle"
    BY <1>1, <1>2, <1>5 DEF Reset, Quiet, Goto, BaseInv, Places
  <2>2. \A k \in Alives : pc[k] \in Asking => FALSE
    BY <1>1, <2>1 DEF Withdrawn, Asking
  <2> QED BY <1>2, <2>1, <2>2 DEF Withdrawn
<1>6. CASE UnRegister
  <2>1. /\ Free /\ label = Withdrawal /\ keepAlive' = keepAlive
    BY <1>1, <1>2, <1>6 DEF UnRegister, Goto, Free
  <2>2. label \in {"drop", "revoke", "idle", "reset"} => keepAlive = None
    BY <2>1 DEF Withdrawal
  <2>3. label # "reset"
    BY <2>1 DEF Withdrawal
  <2>4. keepAlive = None => \A k \in Alives : pc[k] \notin Asking
    BY <1>1, <1>3, <2>1, Alone DEF Current
  <2> QED BY <1>2, <2>1, <2>2, <2>3, <2>4 DEF Withdrawn
<1>7. CASE /\ label \in {"idle", "revoke"} /\ pc[Owner] \in {"drop", "revoke"}
           /\ UNCHANGED <<register, keepAlive>>
  BY <1>2, <1>7 DEF Withdrawn
<1> QED BY <1>4, <1>5, <1>6, <1>7

LEMMA WithdrawnStep ==
    ASSUME BaseInv, Withdrawn, Chain, waits, [Next]_vars
    PROVE  Withdrawn'
<1>0. /\ pc \in [Procs -> Labels] /\ Owner \in Procs /\ Owner \notin Alives
      /\ dropped \in [Procs -> 0..created] /\ \A q \in Procs : q = Owner \/ q \in Alives
  BY ProcsFinite DEF BaseInv, Types, ThreadTypes, AliveTypes, Procs
<1>1. ASSUME NEW l \in Leases, Expire(l)
      PROVE  Withdrawn'
  BY <1>1 DEF Expire, memberVars, Withdrawn
<1>2. ASSUME NEW p \in Alives, LeaseGrant(p) \/ Put(p) \/ Undo(p) \/ HandlerError(p) \/ Drop(p)
                               \/ Fail(p)
      PROVE  Withdrawn'
  <2>1. PICK label \in Labels :
            /\ pc' = [pc EXCEPT ![p] = label]
            /\ ~register /\ label \in Asking => pc[p] \in Asking
            /\ UNCHANGED <<register, keepAlive, dropped>>
    <3>1. CASE LeaseGrant(p)
      BY <3>1 DEF LeaseGrant, Goto, Labels, Asking
    <3>2. CASE Put(p)
      BY <3>2 DEF Put, Goto, Labels, Asking, memberVars
    <3>3. CASE Undo(p) \/ Fail(p)
      BY <3>3 DEF Undo, Fail, Goto, Labels, Asking, memberVars
    <3>4. CASE HandlerError(p)
      BY <3>4 DEF HandlerError, Wanted, Retry, Goto, Labels, Asking, memberVars
    <3>5. CASE Drop(p)
      BY <1>0, <3>5 DEF Drop, Goto, Labels, Asking, memberVars
    <3> QED BY <1>2, <3>1, <3>2, <3>3, <3>4, <3>5
  <2> QED BY <2>1, WithdrawnMove
<1>3. ASSUME NEW p \in Alives, Install(p)
      PROVE  Withdrawn'
  <2>1. /\ pc[p] \in Asking /\ pc' = [pc EXCEPT ![p] = "drop"] /\ "drop" \notin Asking
        /\ register' = register /\ keepAlive' = created'
        /\ dropped'[Owner] = dropped[Owner]
    BY <1>0, <1>3 DEF Install, Goto, Asking
  <2>2. keepAlive' \in Alives
    BY <1>3, <2>1, InstallRoom, ProcsFinite
  <2> QED BY <2>1, <2>2, WithdrawnMove
<1>4. ASSUME LeaseGrant(Owner) \/ Put(Owner) \/ Undo(Owner) \/ Install(Owner) \/ Register
      PROVE  Withdrawn'
  <2>1. register'
    BY <1>4 DEF LeaseGrant, Put, Undo, Install, Register, memberVars, Asking, BaseInv, Places
  <2> QED BY <2>1 DEF Withdrawn
<1>5. ASSUME Drop(Owner) \/ RevokeLease
      PROVE  Withdrawn'
  <2>1. \/ register'
        \/ \E label \in {"idle", "revoke"} :
               /\ pc' = [pc EXCEPT ![Owner] = label] /\ pc[Owner] \in {"drop", "revoke"}
               /\ UNCHANGED <<register, keepAlive>>
    BY <1>5 DEF Drop, RevokeLease, Goto, memberVars
  <2>2. CASE register'
    BY <2>2 DEF Withdrawn
  <2> QED BY <2>1, <2>2, WithdrawnOwner
<1>6. ASSUME UnRegister \/ Cancel \/ Reset
      PROVE  Withdrawn'
  <2>1. \E label : pc' = [pc EXCEPT ![Owner] = label]
    BY <1>6 DEF UnRegister, Cancel, Reset, Goto
  <2> QED BY <1>6, <2>1, WithdrawnOwner
<1>7. ASSUME UNCHANGED vars
      PROVE  Withdrawn'
  BY <1>7 DEF vars, memberVars, Withdrawn
<1>8. ASSUME NEW p \in Procs, Step(p)
      PROVE  Withdrawn'
  <2>1. CASE p = Owner
    BY <1>4, <1>5, <1>6, <1>8, <2>1 DEF Step, DoRegister, HandlerError
  <2>2. CASE p \in Alives
    BY <1>0, <1>2, <1>3, <1>8, <2>2 DEF Step, DoRegister
  <2> QED BY <1>0, <2>1, <2>2
<1> QED BY <1>1, <1>2, <1>4, <1>6, <1>7, <1>8 DEF Next

LEMMA WithdrawalInit ==
    ASSUME Init
    PROVE  WithdrawalInv
BY ProcsFinite DEF Init, WithdrawalInv, Chain, Withdrawn, Busy, Working, Asking

LEMMA WaitsStays ==
    ASSUME [Next]_vars
    PROVE  waits' = waits
BY DEF Next, Step, DoRegister, Expire, LeaseGrant, Put, Undo, Install, Drop, HandlerError, Fail,
       Register, UnRegister, Cancel, Reset, RevokeLease, vars

LEMMA WithdrawalStep ==
    ASSUME BaseInv, WithdrawalInv, [Next]_vars
    PROVE  WithdrawalInv'
BY ChainStep, WithdrawnStep, WaitsStays DEF WithdrawalInv

LEMMA NoOrphan ==
    ASSUME BaseInv, WithdrawalInv
    PROVE  NoOrphanHeartbeat
BY ProcsFinite DEF NoOrphanHeartbeat, Settled, WithdrawalInv, Withdrawn, BaseInv, Newest

\* The heartbeat goes on when, and only when, it should: for the lease of the key as long as
\* every request succeeds, and not at all once UnRegister has returned, whatever the handlers
\* were doing when it was called.
THEOREM HeartbeatFollows == Spec => []HeartbeatFollowsKey
<1> DEFINE Inv == BaseInv /\ HeartbeatInv /\ WithdrawalInv
<1>1. Init => Inv
  BY BaseInit, HeartInit, WithdrawalInit
<1>2. Inv /\ [Next]_vars => Inv'
  BY BaseStep, HeartStep, WithdrawalStep
<1>3. Inv => HeartbeatFollowsKey
  BY KeepsKey, NoOrphan DEF HeartbeatFollowsKey
<1> QED BY <1>1, <1>2, <1>3, PTL DEF Spec

-----------------------------------------------------------------------------
(* The key is bound to a lease.                                            *)

Orderly == BaseInv /\ Chain /\ Withdrawn /\ LeasedInv /\ waits /\ orderly

\* At most one is in DoRegister.
LEMMA OneAsks ==
    ASSUME Orderly, NEW p \in Procs, NEW q \in Procs, pc[p] \in Asking, pc[q] \in Asking
    PROVE  p = q
<1>1. /\ \A k \in Procs : k = Owner \/ k \in Alives
      /\ \A k \in Alives : pc[k] \in Asking => pc[k] \in Working /\ Busy(k)
  BY DEF Procs, Working, Busy
<1>2. pc[Owner] \in Asking => \A k \in Alives : pc[k] \notin Asking
  BY <1>1 DEF Orderly, LeasedInv
<1>3. CASE p \in Alives /\ q \in Alives
  <2>1. CASE Free
    <3>1. Current(p) /\ Current(q)
      BY <1>1, <1>3, <2>1, Alone DEF Orderly
    <3> QED BY <3>1 DEF Current
  <2>2. CASE ~Free /\ pc[Owner] = "reset"
    <3>1. ~register
      BY <2>2 DEF Orderly, BaseInv, Places
    <3> QED BY <1>3, <2>2, <3>1 DEF Orderly, Withdrawn
  <2>3. CASE ~Free /\ pc[Owner] = "drop"
    <3>1. ~register
      BY <2>3 DEF Orderly, LeasedInv, Free
    <3> QED BY <1>3, <2>3, <3>1 DEF Orderly, Withdrawn
  <2> QED BY <2>1, <2>2, <2>3 DEF Free
<1> QED BY <1>1, <1>2, <1>3

\* A step that neither puts, nor forgets a lease, nor begins a registration.
LEMMA LeasedMove ==
    ASSUME Orderly, NEW p \in Procs, NEW label, pc' = [pc EXCEPT ![p] = label],
           key' \in {key, Absent}, leaseId' = leaseId \/ leaseId' # None, label # "put" \/ leaseId' # None,
           p = Owner /\ label \in Asking => pc[p] \in Asking /\ keepAlive' = keepAlive,
           p = Owner /\ label = "drop" /\ register' => dropped'[p] = None,
           p # Owner => /\ register' = register /\ dropped'[Owner] = dropped[Owner]
                        /\ keepAlive' = keepAlive \/ pc[p] \in Working
                        /\ label \in Working => pc[p] \in Working \/ keepAlive = p
    PROVE  LeasedInv'
<1>1. /\ pc \in [Procs -> Labels] /\ Owner \in Procs /\ Owner \notin Alives
      /\ Alives \subseteq Procs
      /\ \A k \in Procs : k = Owner \/ (k \in Alives /\ k # None)
      /\ Absent # None /\ LeasedInv /\ waits /\ orderly
  BY ProcsFinite, ProviderAssumption DEF Orderly, BaseInv, Types, ThreadTypes, None, Owner, Procs,
     Alives
<1>2. pc'[p] = label /\ \A q \in Procs \ {p} : pc'[q] = pc[q]
  BY <1>1
<1>3. ASSUME pc'[Owner] \in Asking
      PROVE  keepAlive' = None /\ \A k \in Alives : pc'[k] \notin Working
  <2>1. pc[Owner] \in Asking
    BY <1>1, <1>2, <1>3
  <2>2. keepAlive = None /\ \A k \in Alives : pc[k] \notin Working
    BY <1>1, <2>1 DEF LeasedInv
  <2>3. CASE p = Owner
    BY <1>1, <1>2, <1>3, <2>2, <2>3
  <2>4. CASE p # Owner
    BY <1>1, <1>2, <2>2, <2>4
  <2> QED BY <2>3, <2>4
<1>4. pc'[Owner] = "drop" /\ register' => dropped'[Owner] = None
  BY <1>1, <1>2 DEF LeasedInv
<1>5. \A q \in Procs : pc'[q] = "put" => leaseId' # None
  BY <1>1, <1>2 DEF LeasedInv
<1>6. key' # None
  BY <1>1 DEF LeasedInv
<1> QED BY <1>3, <1>4, <1>5, <1>6 DEF LeasedInv

LEMMA LeasedGrant ==
    ASSUME Orderly, NEW p \in Procs, LeaseGrant(p)
    PROVE  LeasedInv'
<1>1. PICK label \in {"put", "idle"} :
          /\ pc[p] = "grant" /\ pc' = [pc EXCEPT ![p] = label]
          /\ IF label = "put" THEN leaseId' = granted + 1 ELSE leaseId' = leaseId
          /\ UNCHANGED <<key, register, keepAlive, dropped>>
  BY DEF LeaseGrant, Goto
<1>2. granted + 1 # None
  BY DEF Orderly, BaseInv, Types, EtcdTypes, None
<1>3. pc[p] \in Asking /\ pc[p] \in Working /\ label # "drop"
  BY <1>1 DEF Asking, Working
<1> QED BY <1>1, <1>2, <1>3, LeasedMove

LEMMA LeasedPut ==
    ASSUME Orderly, NEW p \in Procs, Put(p)
    PROVE  LeasedInv'
<1>1. PICK label \in {"install", "undo"} :
          /\ pc[p] = "put" /\ pc' = [pc EXCEPT ![p] = label]
          /\ key' \in {key, leaseId}
          /\ UNCHANGED <<leaseId, register, keepAlive, dropped>>
  BY DEF Put, Goto, memberVars
<1>2. /\ pc \in [Procs -> Labels] /\ leaseId # None /\ key # None
      /\ pc[p] \in Asking /\ pc[p] \in Working
      /\ Owner \in Procs /\ Alives \subseteq Procs /\ Owner \notin Alives
      /\ p \in Alives \/ p = Owner
  BY <1>1, ProcsFinite DEF Orderly, LeasedInv, BaseInv, Types, ThreadTypes, Asking, Working, Procs
<1>3. pc'[p] = label /\ \A q \in Procs \ {p} : pc'[q] = pc[q]
  BY <1>1, <1>2
<1>4. ASSUME pc'[Owner] \in Asking
      PROVE  keepAlive' = None /\ \A k \in Alives : pc'[k] \notin Working
  <2>1. pc[Owner] \in Asking
    BY <1>2, <1>3, <1>4
  <2>2. keepAlive = None /\ \A k \in Alives : pc[k] \notin Working
    BY <2>1 DEF Orderly, LeasedInv
  <2> QED BY <1>1, <1>2, <1>3, <2>2
<1>5. pc'[Owner] = "drop" /\ register' => dropped'[Owner] = None
  BY <1>1, <1>2, <1>3 DEF Orderly, LeasedInv
<1>6. \A q \in Procs : pc'[q] = "put" => leaseId' # None
  BY <1>1, <1>2
<1> QED BY <1>1, <1>2, <1>4, <1>5, <1>6 DEF LeasedInv

\* The lease is forgotten when nobody is about to put.
LEMMA LeasedForget ==
    ASSUME Orderly, NEW p \in Procs, Undo(p) \/ (p = Owner /\ RevokeLease)
    PROVE  LeasedInv'
<1>1. /\ pc[p] \in {"undo", "revoke"}
      /\ pc[p] = "revoke" => p = Owner
      /\ pc' = [pc EXCEPT ![p] = "idle"]
      /\ key' \in {key, Absent}
      /\ UNCHANGED <<register, keepAlive, dropped>>
  BY DEF Undo, RevokeLease, Revoke, Without, Goto
<1>2. /\ pc \in [Procs -> Labels] /\ key # None /\ Absent # None
      /\ Owner \in Procs /\ Alives \subseteq Procs /\ Owner \notin Alives
      /\ p \in Alives \/ p = Owner
  BY ProcsFinite, ProviderAssumption DEF Orderly, LeasedInv, BaseInv, Types, ThreadTypes, None, Procs
<1>3. pc'[p] = "idle" /\ \A q \in Procs \ {p} : pc'[q] = pc[q]
  BY <1>1, <1>2
<1>4. ASSUME pc'[Owner] \in Asking
      PROVE  keepAlive' = None /\ \A k \in Alives : pc'[k] \notin Working
  <2>1. pc[Owner] \in Asking /\ p # Owner
    BY <1>2, <1>3, <1>4 DEF Asking
  <2>2. keepAlive = None /\ \A k \in Alives : pc[k] \notin Working
    BY <2>1 DEF Orderly, LeasedInv
  <2> QED BY <1>1, <1>2, <1>3, <2>1, <2>2 DEF Working, Asking
<1>5. pc'[Owner] = "drop" /\ register' => dropped'[Owner] = None
  BY <1>1, <1>2, <1>3 DEF Orderly, LeasedInv
<1>6. ASSUME NEW q \in Procs, pc'[q] = "put"
      PROVE  FALSE
  <2>1. q # p /\ pc[q] = "put"
    BY <1>3, <1>6
  <2>2. pc[q] \in Asking
    BY <2>1 DEF Asking
  <2>3. CASE pc[p] = "undo"
    BY <2>1, <2>2, <2>3, OneAsks DEF Asking
  <2>4. CASE pc[p] = "revoke"
    <3>1. p = Owner /\ ~register /\ q \in Alives
      BY <1>1, <1>2, <2>1, <2>4 DEF Orderly, BaseInv, Places, Procs
    <3> QED BY <2>2, <2>4, <3>1 DEF Orderly, Withdrawn
  <2> QED BY <1>1, <2>3, <2>4
<1> QED BY <1>1, <1>2, <1>4, <1>5, <1>6 DEF LeasedInv

LEMMA LeasedInstall ==
    ASSUME Orderly, NEW p \in Procs, Install(p)
    PROVE  LeasedInv'
<1>1. /\ pc[p] = "install" /\ pc' = [pc EXCEPT ![p] = "drop"]
      /\ dropped' = [dropped EXCEPT ![p] = keepAlive]
      /\ UNCHANGED <<key, leaseId, register>>
  BY DEF Install, Goto, etcdVars
<1>2. /\ pc[p] \in Asking /\ pc[p] \in Working /\ "drop" \notin Working /\ "drop" \notin Asking
  BY <1>1 DEF Asking, Working
<1>3. p = Owner => keepAlive = None
  BY <1>2 DEF Orderly, LeasedInv
<1>4. /\ p = Owner => dropped'[p] = None
      /\ p # Owner => dropped'[Owner] = dropped[Owner]
  BY <1>1, <1>3, ProcsFinite DEF Orderly, BaseInv, Types, AliveTypes
<1> QED BY <1>1, <1>2, <1>4, LeasedMove

LEMMA LeasedHandler ==
    ASSUME Orderly, NEW p \in Alives, Drop(p) \/ HandlerError(p) \/ Fail(p)
    PROVE  LeasedInv'
<1>1. PICK label \in {"idle", "grant", "handler"} :
          /\ pc' = [pc EXCEPT ![p] = label]
          /\ label # "idle" => pc[p] = "handler" \/ p \in beating
          /\ UNCHANGED <<key, leaseId, register, dropped, keepAlive>>
  <2>1. p # Owner
    BY ProcsFinite
  <2>2. CASE Drop(p)
    BY <2>1, <2>2 DEF Drop, Goto, etcdVars, memberVars
  <2>3. CASE HandlerError(p)
    BY <2>3 DEF HandlerError, Retry, Goto, etcdVars, memberVars
  <2>4. CASE Fail(p)
    BY <2>4 DEF Fail, Goto, etcdVars, memberVars
  <2> QED BY <2>2, <2>3, <2>4
<1>2. p \in beating => p = keepAlive
  BY DEF Orderly, BaseInv, Newest
<1>3. p \in Procs /\ p # Owner /\ label # "put" /\ "idle" \notin Working
  BY <1>1, ProcsFinite DEF Working, Asking
<1>4. label \in Working => pc[p] \in Working \/ keepAlive = p
  BY <1>1, <1>2, <1>3 DEF Working
<1> QED BY <1>1, <1>3, <1>4, LeasedMove

LEMMA LeasedOwner ==
    ASSUME Orderly, Drop(Owner) \/ UnRegister \/ Cancel \/ Reset
    PROVE  LeasedInv'
<1>1. PICK label \in {"idle", "cancel", "revoke", "reset", "drop"} :
          /\ pc' = [pc EXCEPT ![Owner] = label]
          /\ label = "drop" => ~register'
          /\ UNCHANGED <<key, leaseId>>
  <2>1. CASE Drop(Owner) \/ UnRegister \/ Cancel
    BY <2>1 DEF Drop, UnRegister, Withdrawal, Cancel, Goto, etcdVars, memberVars
  <2>2. CASE Reset
    <3>1. ~register
      BY <2>2 DEF Reset, Orderly, BaseInv, Places
    <3> QED BY <2>2, <3>1 DEF Reset, Goto, etcdVars
  <2> QED BY <2>1, <2>2
<1>2. label \notin Asking /\ label # "put" /\ Owner \in Procs
  BY <1>1, ProcsFinite DEF Asking
<1> QED BY <1>1, <1>2, LeasedMove

\* Register, when none is in force, finds nobody at work.
LEMMA LeasedRegister ==
    ASSUME Orderly, Register, orderly'
    PROVE  LeasedInv'
<1>1. /\ pc[Owner] = "idle" /\ pc' = [pc EXCEPT ![Owner] = "grant"] /\ ~register
      /\ UNCHANGED <<key, leaseId, dropped, keepAlive>>
  BY DEF Register, Goto, etcdVars, aliveVars
<1>2. /\ pc \in [Procs -> Labels] /\ Owner \in Procs /\ Owner \notin Alives /\ Free
      /\ Alives \subseteq Procs /\ \A k \in Alives : k # None
  BY <1>1, ProcsFinite DEF Orderly, BaseInv, Types, ThreadTypes, Free, None, Owner
<1>3. pc'[Owner] = "grant" /\ \A q \in Procs \ {Owner} : pc'[q] = pc[q]
  BY <1>1, <1>2
<1>4. keepAlive = None
  BY <1>1 DEF Orderly, Withdrawn
<1>5. \A k \in Alives : pc[k] \notin Working
  BY <1>2, <1>4, Alone DEF Orderly, Busy, Current
<1>6. \A k \in Alives : pc'[k] \notin Working
  BY <1>2, <1>3, <1>5
<1>7. \A q \in Procs : pc'[q] = "put" => leaseId' # None
  BY <1>1, <1>2, <1>3 DEF Orderly, LeasedInv
<1>8. key' # None
  BY <1>1 DEF Orderly, LeasedInv
<1> QED BY <1>1, <1>3, <1>4, <1>6, <1>7, <1>8 DEF LeasedInv

LEMMA LeasedStep ==
    ASSUME BaseInv, WithdrawalInv, LeasedInv, [Next]_vars
    PROVE  LeasedInv'
<1>0. orderly' => orderly
  BY DEF Next, Step, DoRegister, Expire, LeaseGrant, Put, Undo, Install, Drop, HandlerError, Fail,
         Register, UnRegister, Cancel, Reset, RevokeLease, vars
<1> SUFFICES ASSUME waits', orderly'
             PROVE  LeasedInv'
  BY DEF LeasedInv
<1>1. Orderly
  BY <1>0, WaitsStays DEF Orderly, WithdrawalInv
<1>2. ASSUME NEW l \in Leases, Expire(l)
      PROVE  LeasedInv'
  <2>1. /\ key' \in {key, Absent}
        /\ UNCHANGED <<keepAlive, pc, dropped, register, leaseId, waits, orderly>>
    BY <1>2 DEF Expire, Without, memberVars
  <2>2. Absent # None
    BY ProviderAssumption DEF None
  <2> QED BY <1>1, <2>1, <2>2 DEF Orderly, LeasedInv
<1>3. ASSUME NEW p \in Procs, Step(p)
      PROVE  LeasedInv'
  <2>1. p = Owner \/ p \in Alives
    BY DEF Procs
  <2> QED BY <1>1, <1>3, <2>1, LeasedGrant, LeasedPut, LeasedForget, LeasedInstall, LeasedHandler,
             LeasedOwner DEF Step, DoRegister, HandlerError
<1>4. ASSUME NEW k \in Alives, Fail(k)
      PROVE  LeasedInv'
  BY <1>1, <1>4, LeasedHandler
<1>5. ASSUME UNCHANGED vars
      PROVE  LeasedInv'
  BY <1>1, <1>5 DEF vars, etcdVars, memberVars, Orderly, LeasedInv
<1> QED BY <1>1, <1>2, <1>3, <1>4, <1>5, LeasedOwner, LeasedRegister DEF Next

LEMMA LeasedInit ==
    ASSUME Init
    PROVE  LeasedInv
BY ProcsFinite, ProviderAssumption DEF Init, LeasedInv, Asking, None

\* The key is never put under no lease, which would leave it in etcd for ever: when Cancel waits
\* for the handler and no Register is made while another is in force, _lease_id is not reset
\* between the grant of one registration and its put by another one.
THEOREM KeyIsLeased == Spec => []NoEternalKey
<1>1. Init => ProviderInv
  BY BaseInit, HeartInit, WithdrawalInit, LeasedInit DEF ProviderInv
<1>2. ProviderInv /\ [Next]_vars => ProviderInv'
  BY BaseStep, HeartStep, WithdrawalStep, LeasedStep DEF ProviderInv
<1>3. ProviderInv => NoEternalKey
  BY DEF ProviderInv, LeasedInv, NoEternalKey
<1> QED BY <1>1, <1>2, <1>3, PTL DEF Spec
=============================================================================
