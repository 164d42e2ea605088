---------------------------- MODULE EtcdWatcherProofs ----------------------------
(***************************************************************************)
(* Theorems about EtcdWatcher, for any finite set of keys, any endpoints   *)
(* and bounds, and any width of the counter.                               *)
(***************************************************************************)
EXTENDS EtcdWatcher, SequenceFacts

Maps == [Keys -> Values]

-----------------------------------------------------------------------------
(* Sequences of events.                                                    *)

\* No event is for k, or one is the last for k.
NoneFor(es, k)    == \A i \in DOMAIN es : es[i].key # k
LastFor(es, k, m) == m \in DOMAIN es /\ es[m].key = k /\ \A i \in DOMAIN es : i > m => es[i].key # k

LEMMA SomeOrNone ==
    ASSUME NEW es \in Seq(Events), NEW k \in Keys
    PROVE  NoneFor(es, k) \/ \E m \in DOMAIN es : LastFor(es, k, m)
<1>1. DOMAIN es = 1..Len(es) /\ Len(es) \in Nat
  BY LenProperties
<1>2. CASE For(es, k) = {}
  BY <1>2 DEF For, NoneFor
<1>3. CASE For(es, k) # {}
  <2> DEFINE m == Max(For(es, k))
  <2>1. m \in For(es, k) /\ \A i \in For(es, k) : i <= m
    <3>1. For(es, k) \in SUBSET Nat /\ \A i \in For(es, k) : i <= Len(es)
      BY <1>1 DEF For
    <3> QED BY <1>1, <1>3, <3>1, IndexSets
  <2> HIDE DEF m
  <2>2. m \in DOMAIN es /\ es[m].key = k
    BY <2>1 DEF For
  <2>3. ASSUME NEW i \in DOMAIN es, i > m
        PROVE  es[i].key # k
    BY <1>1, <2>1, <2>2, <2>3 DEF For
  <2> QED BY <2>2, <2>3 DEF LastFor
<1> QED BY <1>2, <1>3

\* What a map holds after some events.
LEMMA ApplyAllIs ==
    ASSUME NEW map \in Maps, NEW es \in Seq(Events)
    PROVE  /\ ApplyAll(map, es) \in Maps
           /\ \A k \in Keys : NoneFor(es, k) => ApplyAll(map, es)[k] = map[k]
           /\ \A k \in Keys, m \in DOMAIN es :
                  LastFor(es, k, m) => ApplyAll(map, es)[k] = es[m].value
<1>1. /\ DOMAIN es = 1..Len(es) /\ Len(es) \in Nat
      /\ \A i \in DOMAIN es : es[i] \in Events
  BY LenProperties, ElementOfSeq
<1>2. ASSUME NEW k \in Keys, NoneFor(es, k)
      PROVE  ApplyAll(map, es)[k] = map[k]
  BY <1>2 DEF ApplyAll, For, NoneFor
<1>3. ASSUME NEW k \in Keys, NEW m \in DOMAIN es, LastFor(es, k, m)
      PROVE  ApplyAll(map, es)[k] = es[m].value
  <2>1. For(es, k) \in SUBSET Nat /\ m \in For(es, k) /\ \A i \in For(es, k) : i <= m
    BY <1>1, <1>3 DEF For, LastFor
  <2>2. Latest(es, k) = es[m]
    BY <2>1, MaxIs DEF Latest
  <2>3. Apply(map, es[m])[k] = es[m].value
    BY <1>3 DEF LastFor, Apply, Maps
  <2> QED BY <2>1, <2>2, <2>3 DEF ApplyAll
<1>4. ASSUME NEW k \in Keys
      PROVE  ApplyAll(map, es)[k] \in Values
  <2>1. CASE NoneFor(es, k)
    BY <1>2, <2>1 DEF Maps
  <2>2. ASSUME NEW m \in DOMAIN es, LastFor(es, k, m)
        PROVE  ApplyAll(map, es)[k] \in Values
    BY <1>1, <1>3, <2>2 DEF Events
  <2> QED BY <2>1, <2>2, SomeOrNone
<1>5. ApplyAll(map, es) \in Maps
  BY <1>4 DEF ApplyAll, Maps
<1> QED BY <1>2, <1>3, <1>5

\* No events change nothing ...
LEMMA ApplyNothing ==
    ASSUME NEW map \in Maps
    PROVE  ApplyAll(map, <<>>) = map
BY DEF ApplyAll, For, Maps

\* ... and one event more is applied after the others.
LEMMA ApplyOneMore ==
    ASSUME NEW map \in Maps, NEW es \in Seq(Events), NEW e \in Events
    PROVE  ApplyAll(map, Append(es, e)) = Apply(ApplyAll(map, es), e)
<1> DEFINE more == Append(es, e)
<1>1. /\ DOMAIN es = 1..Len(es) /\ Len(es) \in Nat
      /\ more \in Seq(Events) /\ DOMAIN more = 1..(Len(es) + 1)
      /\ \A i \in DOMAIN es : more[i] = es[i]
      /\ more[Len(es) + 1] = e
  BY LenProperties, AppendProperties
<1> HIDE DEF more
<1>2. ApplyAll(map, es) \in Maps /\ ApplyAll(map, more) \in Maps /\ e.key \in Keys /\ e.value \in Values
  BY <1>1, ApplyAllIs DEF Events
<1>3. ASSUME NEW k \in Keys
      PROVE  ApplyAll(map, more)[k] = IF k = e.key THEN e.value ELSE ApplyAll(map, es)[k]
  <2>1. CASE k = e.key
    <3>1. LastFor(more, k, Len(es) + 1) /\ Len(es) + 1 \in DOMAIN more
      BY <1>1, <2>1 DEF LastFor
    <3> QED BY <1>1, <2>1, <3>1, ApplyAllIs
  <2>2. CASE k # e.key /\ NoneFor(es, k)
    <3>1. \A i \in DOMAIN more : i \in DOMAIN es \/ i = Len(es) + 1
      BY <1>1
    <3>2. NoneFor(more, k)
      BY <1>1, <2>2, <3>1 DEF NoneFor
    <3> QED BY <1>1, <2>2, <3>2, ApplyAllIs
  <2>3. ASSUME k # e.key, NEW m \in DOMAIN es, LastFor(es, k, m)
        PROVE  ApplyAll(map, more)[k] = ApplyAll(map, es)[k]
    <3>1. \A i \in DOMAIN more : i \in DOMAIN es \/ i = Len(es) + 1
      BY <1>1
    <3>2. LastFor(more, k, m) /\ m \in DOMAIN more /\ more[m] = es[m]
      BY <1>1, <2>3, <3>1 DEF LastFor
    <3> QED BY <1>1, <2>3, <3>2, ApplyAllIs
  <2> QED BY <2>1, <2>2, <2>3, SomeOrNone
<1>4. Apply(ApplyAll(map, es), e) = [k \in Keys |-> IF k = e.key THEN e.value ELSE ApplyAll(map, es)[k]]
  BY <1>2 DEF Apply, Maps
<1>5. ApplyAll(map, more) = [k \in Keys |-> ApplyAll(map, more)[k]]
  BY <1>2 DEF Maps
<1>6. ApplyAll(map, more) = Apply(ApplyAll(map, es), e)
  BY <1>3, <1>4, <1>5
<1> QED BY <1>6 DEF more

\* The events in two parts, one after the other.
LEMMA ApplyParts ==
    ASSUME NEW map \in Maps, NEW es \in Seq(Events), NEW n \in 1..Len(es)
    PROVE  /\ SubSeq(es, 1, n) \in Seq(Events) /\ SubSeq(es, n + 1, Len(es)) \in Seq(Events)
           /\ ApplyAll(map, es) =
                  ApplyAll(ApplyAll(map, SubSeq(es, 1, n)), SubSeq(es, n + 1, Len(es)))
<1> DEFINE a == SubSeq(es, 1, n)
           b == SubSeq(es, n + 1, Len(es))
<1>1. DOMAIN es = 1..Len(es) /\ Len(es) \in Nat /\ n \in Nat /\ n <= Len(es)
  BY LenProperties
<1>2. /\ a \in Seq(Events) /\ DOMAIN a = 1..n
      /\ \A i \in 1..n : a[i] = es[i]
  <2>1. a \in Seq(Events) /\ Len(a) = n /\ \A i \in 1..n : a[i] = es[i]
    BY <1>1, SubSeqProperties
  <2> QED BY <2>1, LenProperties
<1>3. /\ b \in Seq(Events) /\ DOMAIN b = 1..(Len(es) - n)
      /\ \A i \in 1..(Len(es) - n) : b[i] = es[n + i]
  <2> DEFINE l == Len(es)
  <2>1. n + 1 \in Int /\ l \in Int /\ \A i \in (n + 1)..l : es[i] \in Events
    BY <1>1, ElementOfSeq
  <2>2. /\ b \in Seq(Events)
        /\ Len(b) = IF n + 1 <= l THEN l - (n + 1) + 1 ELSE 0
        /\ \A i \in 1..(l - (n + 1) + 1) : b[i] = es[n + 1 + i - 1]
    BY <2>1, SubSeqProperties
  <2> HIDE DEF b, l
  <2>3. l \in Nat /\ n \in Nat /\ n <= l
    BY <1>1 DEF l
  <2>4. l - (n + 1) + 1 = l - n /\ Len(b) = l - n
    BY <2>2, <2>3
  <2>5. ASSUME NEW i \in 1..(l - n)
        PROVE  b[i] = es[n + i]
    <3>1. n + 1 + i - 1 = n + i
      BY <2>3
    <3> QED BY <2>2, <2>4, <3>1
  <2> QED BY <2>2, <2>4, <2>5, LenProperties DEF l
<1> HIDE DEF a, b
<1>4. /\ ApplyAll(map, a) \in Maps /\ ApplyAll(map, es) \in Maps
      /\ ApplyAll(ApplyAll(map, a), b) \in Maps
  BY <1>2, <1>3, ApplyAllIs
<1>5. \A i \in 1..(Len(es) - n) : n + i \in DOMAIN es
  BY <1>1
<1>6. \A i \in DOMAIN es : i \in 1..n \/ (i - n \in 1..(Len(es) - n) /\ n + (i - n) = i)
  BY <1>1
<1>7. ASSUME NEW k \in Keys
      PROVE  ApplyAll(ApplyAll(map, a), b)[k] = ApplyAll(map, es)[k]
  <2>1. ASSUME NEW m \in DOMAIN b, LastFor(b, k, m)
        PROVE  ApplyAll(ApplyAll(map, a), b)[k] = ApplyAll(map, es)[k]
    <3>1. n + m \in DOMAIN es /\ es[n + m].key = k /\ es[n + m] = b[m]
      BY <1>3, <1>5, <2>1 DEF LastFor
    <3>2. ASSUME NEW i \in DOMAIN es, i > n + m
          PROVE  es[i].key # k
      <4>1. i - n \in DOMAIN b /\ i - n > m /\ n + (i - n) = i
        BY <1>1, <1>3, <2>1, <3>2
      <4> QED BY <1>3, <2>1, <4>1 DEF LastFor
    <3>3. LastFor(es, k, n + m)
      BY <3>1, <3>2 DEF LastFor
    <3> QED BY <1>3, <1>4, <2>1, <3>1, <3>3, ApplyAllIs
  <2>2. ASSUME NoneFor(b, k)
        PROVE  ApplyAll(ApplyAll(map, a), b)[k] = ApplyAll(map, es)[k]
    <3>1. ApplyAll(ApplyAll(map, a), b)[k] = ApplyAll(map, a)[k]
      BY <1>3, <1>4, <2>2, ApplyAllIs
    <3>2. \A i \in DOMAIN es : i > n => es[i].key # k
      <4>1. ASSUME NEW i \in DOMAIN es, i > n
            PROVE  es[i].key # k
        <5>1. i - n \in DOMAIN b /\ n + (i - n) = i
          BY <1>1, <1>3, <4>1
        <5> QED BY <1>3, <2>2, <5>1 DEF NoneFor
      <4> QED BY <4>1
    <3>3. ASSUME NoneFor(a, k)
          PROVE  ApplyAll(map, a)[k] = ApplyAll(map, es)[k]
      <4>1. \A i \in DOMAIN es : i \in 1..n \/ i > n
        BY <1>1
      <4>2. NoneFor(es, k)
        BY <1>2, <3>2, <3>3, <4>1 DEF NoneFor
      <4> QED BY <1>2, <3>3, <4>2, ApplyAllIs
    <3>4. ASSUME NEW m \in DOMAIN a, LastFor(a, k, m)
          PROVE  ApplyAll(map, a)[k] = ApplyAll(map, es)[k]
      <4>1. m \in DOMAIN es /\ es[m] = a[m] /\ \A i \in DOMAIN es : i \in 1..n \/ i > n
        BY <1>1, <1>2
      <4>2. LastFor(es, k, m)
        BY <1>2, <3>2, <3>4, <4>1 DEF LastFor
      <4> QED BY <1>2, <3>4, <4>1, <4>2, ApplyAllIs
    <3> QED BY <1>2, <3>1, <3>3, <3>4, SomeOrNone
  <2> QED BY <1>3, <2>1, <2>2, SomeOrNone
<1>8. ApplyAll(map, es) = ApplyAll(ApplyAll(map, a), b)
  BY <1>4, <1>7 DEF Maps
<1> QED BY <1>2, <1>3, <1>8 DEF a, b

-----------------------------------------------------------------------------
(* The vector.                                                             *)

\* The vector holds what the map holds, in some order of the keys.
Listing(map, v) == \E order \in SetToSeqs(Present(map)) : v = [i \in DOMAIN order |-> map[order[i]]]

LEMMA ListingIs ==
    ASSUME NEW map \in Maps, NEW v, Listing(map, v)
    PROVE  /\ v \in Seq(Endpoints)
           /\ Len(v) <= Cardinality(Keys)
           /\ \A e \in Endpoints : Cardinality({i \in DOMAIN v : v[i] = e}) =
                                   Cardinality({k \in Keys : map[k] = e})
<1> DEFINE P == Present(map)
           n == Cardinality(P)
<1>1. PICK order \in SetToSeqs(P) : v = [i \in DOMAIN order |-> map[order[i]]]
  BY DEF Listing
<1>2. P \in SUBSET Keys /\ IsFiniteSet(Keys) /\ IsFiniteSet(P) /\ n <= Cardinality(Keys)
  <2>1. P \in SUBSET Keys /\ IsFiniteSet(Keys)
    BY WatcherAssumption DEF Present
  <2> HIDE DEF P
  <2> QED BY <2>1, FS_Subset DEF n
<1>3. \A k \in P : map[k] \in Endpoints
  BY DEF Present, Maps, Values
<1>4. \A e \in Endpoints, k \in Keys : map[k] = e => k \in P
  BY WatcherAssumption DEF Present
<1> HIDE DEF P
<1>5. /\ n \in Nat /\ order \in [1..n -> P]
      /\ \A i, j \in 1..n : i # j => order[i] # order[j]
      /\ \A k \in P : \E i \in 1..n : order[i] = k
  BY <1>2, OrderIsBijection DEF n
<1> HIDE DEF n
<1>6. v = [i \in 1..n |-> map[order[i]]]
  BY <1>1, <1>5
<1>7. v \in [1..n -> Endpoints]
  BY <1>3, <1>5, <1>6
<1>8. v \in Seq(Endpoints) /\ Len(v) = n
  BY <1>5, <1>7, LenProperties
<1>9. ASSUME NEW e \in Endpoints
      PROVE  Cardinality({i \in DOMAIN v : v[i] = e}) = Cardinality({k \in Keys : map[k] = e})
  <2> DEFINE A == {i \in DOMAIN v : v[i] = e}
             B == {k \in Keys : map[k] = e}
             f == [i \in A |-> order[i]]
  <2>1. \A i \in A : i \in 1..n /\ map[order[i]] = e
    BY <1>6
  <2>2. B \in SUBSET P /\ IsFiniteSet(B)
    <3>1. B \in SUBSET P
      BY <1>4
    <3> QED BY <1>2, <3>1, FS_Subset
  <2>3. \A i \in A : order[i] \in B
    BY <1>2, <1>5, <2>1
  <2>4. \A k \in B : \E i \in A : order[i] = k
    <3>1. ASSUME NEW k \in B
          PROVE  \E i \in A : order[i] = k
      <4>1. PICK i \in 1..n : order[i] = k
        BY <1>5, <2>2
      <4>2. i \in A
        BY <1>6, <4>1
      <4> QED BY <4>1, <4>2
    <3> QED BY <3>1
  <2>5. IsFiniteSet(A)
    <3>1. A \in SUBSET (1..n)
      BY <2>1
    <3>2. IsFiniteSet(1..n)
      BY <1>5, FS_Interval
    <3> QED BY <3>1, <3>2, FS_Subset
  <2> HIDE DEF A, B
  <2>6. f \in Bijection(A, B)
    BY <1>5, <2>1, <2>3, <2>4 DEF Bijection, Injection, Surjection, IsInjective
  <2>7. Cardinality(B) = Cardinality(A)
    BY <2>5, <2>6, FS_Bijection DEF ExistsBijection
  <2> QED BY <2>7 DEF A, B
<1> QED BY <1>2, <1>8, <1>9

-----------------------------------------------------------------------------
(* The invariants.                                                         *)

Counters == 0..(IntWrap - 1)
Picks    == [raw : Counters, slot : Nat]

Types ==
    /\ store \in Maps /\ nodeMap \in Maps /\ snapshot \in Maps
    /\ changes \in 0..MaxChanges /\ starts \in 0..MaxStarts
    /\ phase \in {"idle", "listing", "listed", "creating", "replacing"}
    /\ isRunning \in BOOLEAN
    /\ broken \in BOOLEAN /\ gap \in BOOLEAN /\ stopped \in BOOLEAN /\ dangling \in BOOLEAN
    /\ lifetime \in {"alive", "members", "dead"}
    /\ index \in Counters
    /\ streams \in Seq(Seq(Events))
    /\ recent \in Seq(Picks)

\* The vector lists the map.
Listed == Listing(nodeMap, vec)

\* How many watches there are in each phase of Start.
Watches ==
    /\ Len(streams) <= (IF phase = "replacing" THEN 2 ELSE 1)
    /\ phase = "replacing" => Len(streams) = 2
    /\ Len(streams) <= starts
    /\ phase \in {"listing", "listed", "creating"} => Len(streams) < starts
    /\ lifetime # "alive" => phase = "idle"

\* What the first Start knows of the store, while nothing goes wrong.
Lag ==
    starts = 1 /\ ~gap /\ ~broken =>
        /\ phase = "listed" => snapshot = store
        /\ phase = "creating" => nodeMap = store
        /\ streams # <<>> => ApplyAll(nodeMap, streams[1]) = store

\* The counter moves by one with each choice, or back to zero.
Rotation ==
    /\ \A i \in DOMAIN recent :
           /\ recent[i].slot = Size(recent[i].raw) % Len(vec)
           /\ index <= recent[i].raw + (Len(recent) - i) + 1
    /\ \A i, j \in DOMAIN recent : i < j => recent[j].raw <= recent[i].raw + (j - i)

WatcherInv == Types /\ Listed /\ Watches /\ Lag /\ Rotation

-----------------------------------------------------------------------------
(* The invariants are kept.                                                *)

\* The streams are sequences of events.
LEMMA StreamTypes ==
    ASSUME Types
    PROVE  /\ DOMAIN streams = 1..Len(streams) /\ Len(streams) \in Nat
           /\ \A i \in DOMAIN streams : streams[i] \in Seq(Events)
BY LenProperties, ElementOfSeq DEF Types

\* The map is built anew from an answer of etcd, from events or from nothing.
LEMMA Rebuilds ==
    ASSUME Types
    PROVE  FetchAllNodes \/ Watching \/ Stop =>
               \/ nodeMap' \in Maps /\ Listing(nodeMap', vec') /\ recent' = <<>>
               \/ UNCHANGED cacheVars
<1>1. ASSUME FetchAllNodes
      PROVE  nodeMap' \in Maps /\ Listing(nodeMap', vec') /\ recent' = <<>>
  BY <1>1 DEF FetchAllNodes, ReBuildEndPointVector, Listing, Types
<1>2. ASSUME NEW i \in DOMAIN streams, NEW n \in 1..Len(streams[i]), OnServerChange(i, n)
      PROVE  nodeMap' \in Maps /\ Listing(nodeMap', vec') /\ recent' = <<>>
  <2>1. SubSeq(streams[i], 1, n) \in Seq(Events)
    BY StreamTypes, ApplyParts DEF Types
  <2>2. nodeMap' \in Maps
    BY <1>2, <2>1, ApplyAllIs DEF OnServerChange, Types
  <2> QED BY <1>2, <2>2 DEF OnServerChange, Rebuild, ReBuildEndPointVector, Listing
<1>3. ASSUME Stop
      PROVE  \/ nodeMap' \in Maps /\ Listing(nodeMap', vec') /\ recent' = <<>>
             \/ UNCHANGED cacheVars
  <2>1. CASE isRunning
    BY <1>3, <2>1 DEF Stop, ReBuildEndPointVector, Listing, Maps, Values
  <2>2. CASE ~isRunning
    BY <1>3, <2>2 DEF Stop
  <2> QED BY <2>1, <2>2
<1> QED BY <1>1, <1>2, <1>3 DEF Watching

\* What the streams become.
LEMMA ChangedStreams ==
    ASSUME Types, NEW e \in Events
    PROVE  LET told == [i \in DOMAIN streams |-> Append(streams[i], e)]
           IN  told \in Seq(Seq(Events)) /\ Len(told) = Len(streams)
<1>1. \A i \in 1..Len(streams) : Append(streams[i], e) \in Seq(Events)
  BY StreamTypes, AppendProperties
<1> QED BY <1>1, StreamTypes, LenProperties

LEMMA ReplacedStream ==
    ASSUME Types, NEW i \in DOMAIN streams, NEW es \in Seq(Events)
    PROVE  /\ [streams EXCEPT ![i] = es] \in Seq(Seq(Events))
           /\ Len([streams EXCEPT ![i] = es]) = Len(streams)
BY ExceptSeq DEF Types

\* The counter stays within its width and grows by one at most.
LEMMA NextIndexIs ==
    ASSUME Types
    PROVE  NextIndex \in Counters /\ NextIndex <= index + 1
<1>1. IntWrap \in Nat \ {0} /\ index \in 0..(IntWrap - 1)
  BY WatcherAssumption DEF Types, Counters
<1> QED BY <1>1, Wraps DEF NextIndex, Counters

LEMMA SizeIs ==
    ASSUME NEW raw \in Counters
    PROVE  Size(raw) \in Nat
BY WatcherAssumption DEF Counters, Size

\* GetEndPoint notes its choice, and forgets the oldest one when it has enough of them.
LEMMA PickIs ==
    ASSUME Types, Listed, GetEndPoint
    PROVE  /\ Len(vec) \in Nat \ {0}
           /\ LET p == [raw |-> index, slot |-> Slot(index)]
                  n == Len(recent)
              IN  /\ p \in Picks /\ n \in Nat
                  /\ \E m \in {0, 1} :
                         /\ m <= n
                         /\ recent' \in Seq(Picks) /\ Len(recent') = n + 1 - m
                         /\ \A i \in 1..(n + 1 - m) :
                                recent'[i] = IF i + m <= n THEN recent[i + m] ELSE p
<1> DEFINE p == [raw |-> index, slot |-> Slot(index)]
           n == Len(recent)
           picks == Append(recent, p)
<1>1. vec \in Seq(Endpoints) /\ vec # <<>> /\ Len(vec) \in Nat \ {0}
  <2>1. vec \in Seq(Endpoints)
    BY ListingIs DEF Listed, Types
  <2> QED BY <2>1, EmptySeq, LenProperties DEF GetEndPoint
<1>2. p \in Picks
  <2>1. Slot(index) \in Nat
    BY <1>1, SizeIs DEF Types, Slot
  <2> QED BY <2>1 DEF Picks, Types
<1>3. n \in Nat /\ recent \in Seq(Picks) /\ Cardinality(Keys) \in Nat
  BY LenProperties, FS_CardinalityType, WatcherAssumption DEF Types
<1> HIDE DEF p
<1>4. /\ picks \in Seq(Picks) /\ Len(picks) = n + 1
      /\ \A i \in 1..n : picks[i] = recent[i]
      /\ picks[n + 1] = p
  BY <1>2, <1>3, AppendProperties
<1> HIDE DEF picks
<1>5. recent' = SubSeq(picks, IF Len(picks) > Cardinality(Keys) THEN 2 ELSE 1, Len(picks))
  BY DEF GetEndPoint, picks, p
<1>6. PICK m \in {0, 1} : recent' = SubSeq(picks, m + 1, n + 1) /\ m <= n
  <2>1. Cardinality(Keys) > 0
    <3>1. Len(vec) <= Cardinality(Keys)
      BY ListingIs DEF Listed, Types
    <3> QED BY <1>1, <1>3, <3>1
  <2>2. CASE Len(picks) > Cardinality(Keys)
    <3>1. n >= 1
      BY <1>3, <1>4, <2>1, <2>2
    <3> QED BY <1>4, <1>5, <2>2, <3>1
  <2>3. CASE ~(Len(picks) > Cardinality(Keys))
    BY <1>3, <1>4, <1>5, <2>3
  <2> QED BY <2>2, <2>3
<1>7. /\ recent' \in Seq(Picks) /\ Len(recent') = n + 1 - m
      /\ \A i \in 1..(n + 1 - m) : recent'[i] = picks[i + m]
  <2>1. m + 1 \in Int /\ n + 1 \in Int /\ \A i \in (m + 1)..(n + 1) : picks[i] \in Picks
    BY <1>3, <1>4, ElementOfSeq
  <2>2. /\ SubSeq(picks, m + 1, n + 1) \in Seq(Picks)
        /\ Len(SubSeq(picks, m + 1, n + 1)) = IF m + 1 <= n + 1 THEN (n + 1) - (m + 1) + 1 ELSE 0
        /\ \A i \in 1..((n + 1) - (m + 1) + 1) : SubSeq(picks, m + 1, n + 1)[i] = picks[m + 1 + i - 1]
    BY <2>1, SubSeqProperties
  <2> HIDE DEF n
  <2>3. (n + 1) - (m + 1) + 1 = n + 1 - m
    BY <1>3
  <2>4. \A i \in 1..(n + 1 - m) : m + 1 + i - 1 = i + m
    BY <1>3
  <2>5. m + 1 <= n + 1
    BY <1>3, <1>6
  <2> QED BY <1>6, <2>2, <2>3, <2>4, <2>5
<1>8. ASSUME NEW i \in 1..(n + 1 - m)
      PROVE  recent'[i] = IF i + m <= n THEN recent[i + m] ELSE p
  <2>1. CASE i + m <= n
    <3>1. i + m \in 1..n
      BY <1>3, <2>1
    <3> QED BY <1>4, <1>7, <2>1, <3>1
  <2>2. CASE ~(i + m <= n)
    <3>1. i + m = n + 1
      BY <1>3, <2>2
    <3> QED BY <1>4, <1>7, <2>2, <3>1
  <2> QED BY <2>1, <2>2
<1> QED BY <1>1, <1>2, <1>3, <1>6, <1>7, <1>8 DEF p

\* Every step keeps the types.
LEMMA TypesStep ==
    ASSUME Types, Listed, Watches, Next
    PROVE  Types'
<1>0. /\ nodeMap \in Maps /\ recent \in Seq(Picks) /\ <<>> \in Seq(Picks)
      /\ streams \in Seq(Seq(Events)) /\ <<>> \in Seq(Seq(Events))
  BY DEF Types
<1>13. phase = "replacing" => streams # <<>>
  <2>1. phase = "replacing" => Len(streams) = 2
    BY DEF Watches
  <2>2. Len(<<>>) = 0
    OBVIOUS
  <2> QED BY <2>1, <2>2
<1> USE DEF Types
<1>1. ASSUME NEW k \in Keys, NEW v \in Values, Change(k, v)
      PROVE  Types'
  <2>1. [key |-> k, value |-> v] \in Events
    BY DEF Events
  <2>2. streams' \in Seq(Seq(Events))
    BY <1>1, <2>1, ChangedStreams DEF Change
  <2>3. store' \in Maps /\ changes' \in 0..MaxChanges /\ gap' \in BOOLEAN
    <3>1. changes' \in 0..MaxChanges
      BY <1>1, WatcherAssumption DEF Change
    <3>2. store' \in Maps
      BY <1>1 DEF Change, Maps
    <3> QED BY <1>1, <3>1, <3>2 DEF Change
  <2> QED BY <1>1, <2>2, <2>3 DEF Change, startVars, cacheVars
<1>2. ASSUME NEW i \in DOMAIN streams, NEW n \in 1..Len(streams[i]), OnServerChange(i, n)
      PROVE  Types'
  <2>1. SubSeq(streams[i], n + 1, Len(streams[i])) \in Seq(Events)
    BY StreamTypes, ApplyParts
  <2>2. streams' \in Seq(Seq(Events))
    BY <1>2, <2>1, ReplacedStream DEF OnServerChange
  <2>3. nodeMap' \in Maps /\ recent' \in Seq(Picks)
    <3>1. Watching
      BY <1>2 DEF Watching
    <3>2. (nodeMap' \in Maps /\ recent' = <<>>) \/ UNCHANGED cacheVars
      BY <3>1, Rebuilds
    <3> QED BY <1>0, <3>2 DEF cacheVars
  <2> QED BY <1>2, <2>2, <2>3 DEF OnServerChange, storeVars, startVars
<1>3. ASSUME NEW i \in DOMAIN streams, Break(i)
      PROVE  Types'
  <2>1. <<>> \in Seq(Events)
    OBVIOUS
  <2>2. streams' \in Seq(Seq(Events))
    BY <1>3, <2>1, ReplacedStream DEF Break
  <2> QED BY <1>3, <2>2 DEF Break, storeVars, startVars, cacheVars
<1>4. CASE Start
  <2>1. starts' \in 0..MaxStarts
    BY <1>4, WatcherAssumption DEF Start
  <2> QED BY <1>4, <2>1 DEF Start, storeVars, cacheVars, ghostVars
<1>5. CASE List
  BY <1>5 DEF List, storeVars, cacheVars, ghostVars
<1>6. CASE FetchAllNodes
  <2>1. nodeMap' \in Maps /\ recent' \in Seq(Picks)
    <3>1. (nodeMap' \in Maps /\ recent' = <<>>) \/ UNCHANGED cacheVars
      BY <1>6, Rebuilds
    <3> QED BY <1>0, <3>1 DEF cacheVars
  <2> QED BY <1>6, <2>1 DEF FetchAllNodes, storeVars, ghostVars
<1>7. CASE CreateWatch
  <2>1. streams' \in Seq(Seq(Events))
    <3>1. Append(streams, <<>>) \in Seq(Seq(Events))
      <4>1. <<>> \in Seq(Events)
        OBVIOUS
      <4> QED BY <4>1, AppendProperties
    <3> QED BY <1>7, <3>1 DEF CreateWatch
  <2> QED BY <1>7, <2>1 DEF CreateWatch, storeVars, cacheVars, ghostVars
<1>8. CASE DropOldWatch
  <2>1. streams' \in Seq(Seq(Events))
    <3>1. streams # <<>>
      BY <1>8, <1>13 DEF DropOldWatch
    <3> QED BY <1>8, <3>1, HeadTailProperties DEF DropOldWatch
  <2> QED BY <1>8, <2>1 DEF DropOldWatch, storeVars, cacheVars, ghostVars
<1>9. CASE Stop
  <2>1. nodeMap' \in Maps /\ recent' \in Seq(Picks)
    <3>1. (nodeMap' \in Maps /\ recent' = <<>>) \/ UNCHANGED cacheVars
      BY <1>9, Rebuilds
    <3> QED BY <1>0, <3>1 DEF cacheVars
  <2>2. streams' \in Seq(Seq(Events))
    <3>1. streams' = <<>> \/ streams' = streams
      BY <1>9 DEF Stop
    <3> QED BY <1>0, <3>1
  <2> QED BY <1>9, <2>1, <2>2 DEF Stop, storeVars, startVars
<1>10. CASE DestroyMembers
  BY <1>10 DEF DestroyMembers, storeVars, startVars, cacheVars, ghostVars
<1>11. CASE DestroyWatch
  BY <1>11 DEF DestroyWatch, storeVars, startVars, cacheVars, ghostVars
<1>12. CASE GetEndPoint
  <2>1. recent' \in Seq(Picks)
    BY <1>12, PickIs
  <2>2. index' \in Counters
    BY <1>12, NextIndexIs DEF GetEndPoint
  <2> QED BY <1>12, <2>1, <2>2 DEF GetEndPoint, storeVars, startVars, ghostVars
<1> QED BY <1>1, <1>2, <1>3, <1>4, <1>5, <1>6, <1>7, <1>8, <1>9, <1>10, <1>11, <1>12
        DEF Next, Watching, Starting

\* Every step keeps the vector a listing of the map.
LEMMA ListedStep ==
    ASSUME Types, Listed, Next
    PROVE  Listed'
<1>1. \/ Listing(nodeMap', vec')
      \/ UNCHANGED <<nodeMap, vec>>
  <2>1. CASE FetchAllNodes \/ Watching \/ Stop
    BY <2>1, Rebuilds DEF cacheVars
  <2>2. CASE ~(FetchAllNodes \/ Watching \/ Stop)
    BY <2>2 DEF Next, Starting, Change, Break, Start, List, CreateWatch, DropOldWatch,
                DestroyMembers, DestroyWatch, GetEndPoint, cacheVars
  <2> QED BY <2>1, <2>2
<1> QED BY <1>1 DEF Listed, Listing

\* Every step keeps the number of watches what it should be.
LEMMA WatchesStep ==
    ASSUME Types, Watches, Next
    PROVE  Watches'
<1>0. Len(streams) \in Nat /\ starts \in Nat /\ Len(<<>>) = 0
  BY StreamTypes DEF Types
<1>1. ASSUME UNCHANGED startVars, lifetime' = lifetime, Len(streams') = Len(streams)
      PROVE  Watches'
  BY <1>1 DEF Watches, startVars
<1>2. ASSUME NEW k \in Keys, NEW v \in Values, Change(k, v)
      PROVE  Watches'
  <2>1. [key |-> k, value |-> v] \in Events
    BY DEF Events
  <2>2. Len(streams') = Len(streams)
    BY <1>2, <2>1, ChangedStreams DEF Change
  <2> QED BY <1>1, <1>2, <2>2 DEF Change
<1>3. ASSUME NEW i \in DOMAIN streams, NEW n \in 1..Len(streams[i]), OnServerChange(i, n)
      PROVE  Watches'
  <2>1. SubSeq(streams[i], n + 1, Len(streams[i])) \in Seq(Events)
    BY StreamTypes, ApplyParts
  <2>2. Len(streams') = Len(streams)
    BY <1>3, <2>1, ReplacedStream DEF OnServerChange
  <2> QED BY <1>1, <1>3, <2>2 DEF OnServerChange
<1>4. ASSUME NEW i \in DOMAIN streams, Break(i)
      PROVE  Watches'
  <2>1. <<>> \in Seq(Events)
    OBVIOUS
  <2>2. Len(streams') = Len(streams)
    BY <1>4, <2>1, ReplacedStream DEF Break
  <2> QED BY <1>1, <1>4, <2>2 DEF Break
<1>5. CASE Start
  BY <1>0, <1>5 DEF Start, Calling, Watches
<1>6. CASE List
  BY <1>0, <1>6 DEF List, Watches
<1>7. CASE FetchAllNodes
  BY <1>0, <1>7 DEF FetchAllNodes, Watches
<1>8. CASE CreateWatch
  <2>1. CASE streams' = Append(streams, <<>>) /\ phase' = IF streams = <<>> THEN "idle" ELSE "replacing"
    <3>1. Len(streams') = Len(streams) + 1
      <4>1. <<>> \in Seq(Events)
        OBVIOUS
      <4> QED BY <2>1, <4>1, AppendProperties DEF Types
    <3>2. streams = <<>> <=> Len(streams) = 0
      BY EmptySeq DEF Types
    <3> QED BY <1>0, <1>8, <2>1, <3>1, <3>2 DEF CreateWatch, Watches
  <2>2. CASE streams' = streams /\ phase' = "idle"
    BY <1>0, <1>8, <2>2 DEF CreateWatch, Watches
  <2> QED BY <1>8, <2>1, <2>2 DEF CreateWatch
<1>9. CASE DropOldWatch
  <2>1. Len(streams) = 2
    BY <1>9 DEF DropOldWatch, Watches
  <2>2. Len(streams') = 1
    <3>1. streams # <<>>
      <4>1. streams = <<>> <=> Len(streams) = 0
        BY EmptySeq DEF Types
      <4> QED BY <2>1, <4>1
    <3>2. Len(Tail(streams)) = Len(streams) - 1
      BY <3>1, HeadTailProperties DEF Types
    <3> QED BY <1>9, <2>1, <3>2 DEF DropOldWatch
  <2> QED BY <1>0, <1>9, <2>1, <2>2 DEF DropOldWatch, Watches
<1>10. CASE Stop
  <2>1. Len(streams') = 0 \/ Len(streams') = Len(streams)
    BY <1>0, <1>10 DEF Stop
  <2> QED BY <1>0, <1>10, <2>1 DEF Stop, Calling, Watches, startVars
<1>11. CASE DestroyMembers
  BY <1>11 DEF DestroyMembers, Calling, Watches, startVars
<1>12. CASE DestroyWatch
  <2>1. phase = "idle" /\ Len(streams') = 0
    BY <1>0, <1>12 DEF DestroyWatch, Watches
  <2> QED BY <1>0, <1>12, <2>1 DEF DestroyWatch, Watches, startVars
<1>13. CASE GetEndPoint
  BY <1>1, <1>13 DEF GetEndPoint
<1> QED BY <1>2, <1>3, <1>4, <1>5, <1>6, <1>7, <1>8, <1>9, <1>10, <1>11, <1>12, <1>13
        DEF Next, Watching, Starting

\* Every step keeps the cache behind the store by the events on their way.
LEMMA LagStep ==
    ASSUME Types, Watches, Lag, Next
    PROVE  Lag'
<1>0. ASSUME starts = 1
      PROVE  /\ streams # <<>> => DOMAIN streams = {1} /\ Len(streams) = 1
             /\ phase # "replacing"
             /\ phase \in {"listing", "listed", "creating"} => streams = <<>>
  <2>1. Len(streams) \in Nat /\ Len(streams) <= 1 /\ DOMAIN streams = 1..Len(streams)
    BY <1>0, StreamTypes DEF Watches
  <2>2. phase # "replacing"
    BY <1>0, <2>1 DEF Watches
  <2>3. phase \in {"listing", "listed", "creating"} => Len(streams) = 0
    BY <1>0, <2>1 DEF Watches
  <2>4. streams = <<>> <=> Len(streams) = 0
    BY EmptySeq DEF Types
  <2> QED BY <2>1, <2>2, <2>3, <2>4
<1>1. ASSUME UNCHANGED <<storeVars, nodeMap, snapshot, starts, phase, streams, gap, broken>>
      PROVE  Lag'
  BY <1>1 DEF Lag, storeVars
<1>2. ASSUME NEW k \in Keys, NEW v \in Values, Change(k, v)
      PROVE  Lag'
  <2> DEFINE e == [key |-> k, value |-> v]
  <2>1. e \in Events
    BY DEF Events
  <2> SUFFICES ASSUME starts = 1, ~gap, ~broken, phase \notin {"listed", "creating"}
               PROVE  streams' # <<>> => ApplyAll(nodeMap', streams'[1]) = store'
    BY <1>2 DEF Lag, Change, startVars
  <2>2. CASE streams = <<>>
    BY <1>2, <2>2 DEF Change
  <2>3. CASE streams # <<>>
    <3>1. streams[1] \in Seq(Events) /\ ApplyAll(nodeMap, streams[1]) = store
      BY <1>0, <2>3, StreamTypes DEF Lag
    <3>2. streams'[1] = Append(streams[1], e)
      BY <1>0, <1>2, <2>3 DEF Change
    <3>3. ApplyAll(nodeMap, Append(streams[1], e)) = Apply(store, e)
      BY <2>1, <3>1, ApplyOneMore DEF Types
    <3>4. store' = Apply(store, e)
      BY <1>2 DEF Change, Apply
    <3> QED BY <1>2, <3>2, <3>3, <3>4 DEF Change, cacheVars
  <2> QED BY <2>2, <2>3
<1>3. ASSUME NEW i \in DOMAIN streams, NEW n \in 1..Len(streams[i]), OnServerChange(i, n)
      PROVE  Lag'
  <2> SUFFICES ASSUME starts = 1, ~gap, ~broken
               PROVE  Lag'
    BY <1>3 DEF Lag, OnServerChange, startVars
  <2>1. streams # <<>>
    <3>1. DOMAIN streams = 1..Len(streams) /\ Len(streams) \in Nat /\ Len(streams) # 0
      BY StreamTypes
    <3> QED BY <3>1
  <2>2. i = 1 /\ phase \notin {"listed", "creating"}
    BY <1>0, <2>1
  <2>3. streams[1] \in Seq(Events) /\ ApplyAll(nodeMap, streams[1]) = store
    BY <2>1, <2>2, StreamTypes DEF Lag
  <2>4. streams'[1] = SubSeq(streams[1], n + 1, Len(streams[1]))
    BY <1>3, <2>2 DEF OnServerChange, Types
  <2>5. nodeMap' = ApplyAll(nodeMap, SubSeq(streams[1], 1, n))
    BY <1>3, <2>2 DEF OnServerChange
  <2>6. ApplyAll(nodeMap', streams'[1]) = store
    BY <2>2, <2>3, <2>4, <2>5, ApplyParts DEF Types
  <2> QED BY <1>3, <2>2, <2>6 DEF Lag, OnServerChange, storeVars, startVars
<1>4. ASSUME NEW i \in DOMAIN streams, Break(i)
      PROVE  Lag'
  BY <1>4 DEF Break, Lag
<1>5. CASE Start
  <2>1. starts' = 1 => streams = <<>>
    <3>1. starts \in Nat /\ starts' = starts + 1 /\ Len(streams) \in Nat /\ Len(streams) <= starts
      BY <1>5, StreamTypes DEF Start, Types, Watches
    <3>2. starts' = 1 => Len(streams) = 0
      BY <3>1
    <3> QED BY <3>2, EmptySeq DEF Types
  <2> QED BY <1>5, <2>1 DEF Start, Lag, ghostVars
<1>6. CASE List
  BY <1>0, <1>6 DEF List, Lag, storeVars, cacheVars, ghostVars
<1>7. CASE FetchAllNodes
  BY <1>0, <1>7 DEF FetchAllNodes, Lag, storeVars, ghostVars
<1>8. CASE CreateWatch
  <2> SUFFICES ASSUME starts = 1, ~gap, ~broken
               PROVE  streams' # <<>> => ApplyAll(nodeMap', streams'[1]) = store'
    BY <1>8 DEF CreateWatch, Lag, ghostVars
  <2>1. streams = <<>> /\ nodeMap = store
    BY <1>0, <1>8 DEF CreateWatch, Lag
  <2>2. streams' = <<>> \/ streams' = << <<>> >>
    BY <1>8, <2>1 DEF CreateWatch
  <2>3. ApplyAll(nodeMap, <<>>) = nodeMap
    BY ApplyNothing DEF Types
  <2> QED BY <1>8, <2>1, <2>2, <2>3 DEF CreateWatch, storeVars, cacheVars
<1>9. CASE DropOldWatch
  BY <1>0, <1>9 DEF DropOldWatch, Lag
<1>10. CASE Stop
  <2>1. phase' = "idle" /\ starts' = starts /\ store' = store /\ UNCHANGED <<gap, broken>>
    BY <1>10 DEF Stop, Calling, startVars, storeVars
  <2>2. streams' = <<>> \/ UNCHANGED <<streams, nodeMap>>
    BY <1>10 DEF Stop, cacheVars
  <2> QED BY <2>1, <2>2 DEF Lag
<1>11. CASE DestroyMembers
  BY <1>1, <1>11 DEF DestroyMembers, startVars, cacheVars, ghostVars
<1>12. CASE DestroyWatch
  <2>1. phase = "idle"
    BY <1>12 DEF DestroyWatch, Watches
  <2> QED BY <1>12, <2>1 DEF DestroyWatch, Lag, startVars
<1>13. CASE GetEndPoint
  BY <1>1, <1>13 DEF GetEndPoint, startVars, ghostVars
<1> QED BY <1>2, <1>3, <1>4, <1>5, <1>6, <1>7, <1>8, <1>9, <1>10, <1>11, <1>12, <1>13
        DEF Next, Watching, Starting

\* Every step keeps the choices those of the counter's last values.
LEMMA RotationStep ==
    ASSUME Types, Listed, Rotation, Next
    PROVE  Rotation'
<1>1. ASSUME recent' = <<>>
      PROVE  Rotation'
  BY <1>1 DEF Rotation
<1>2. ASSUME UNCHANGED <<vec, recent, index>>
      PROVE  Rotation'
  BY <1>2 DEF Rotation, Slot
<1>3. CASE FetchAllNodes \/ Watching \/ Stop
  <2>1. recent' = <<>> \/ UNCHANGED <<vec, recent, index>>
    <3>1. index' = index
      BY <1>3 DEF FetchAllNodes, Watching, OnServerChange, Stop
    <3> QED BY <1>3, <3>1, Rebuilds DEF cacheVars
  <2> QED BY <1>1, <1>2, <2>1
<1>4. CASE GetEndPoint
  <2> DEFINE p == [raw |-> index, slot |-> Slot(index)]
             n == Len(recent)
  <2>1. p \in Picks /\ n \in Nat /\ vec' = vec /\ p.raw = index /\ p.slot = Size(index) % Len(vec)
    BY <1>4, PickIs DEF GetEndPoint, Slot
  <2>2. PICK m \in {0, 1} :
            /\ m <= n
            /\ recent' \in Seq(Picks) /\ Len(recent') = n + 1 - m
            /\ \A i \in 1..(n + 1 - m) : recent'[i] = IF i + m <= n THEN recent[i + m] ELSE p
    BY <1>4, PickIs
  <2> HIDE DEF p
  <2>3. index \in Nat /\ index' \in Nat /\ index' <= index + 1
    BY <1>4, NextIndexIs DEF GetEndPoint, Types, Counters
  <2>4. DOMAIN recent = 1..n /\ \A i \in 1..n : recent[i] \in Picks /\ recent[i].raw \in Nat
    <3>1. DOMAIN recent = 1..n /\ \A i \in 1..n : recent[i] \in Picks
      BY LenProperties, ElementOfSeq DEF Types
    <3> QED BY <3>1 DEF Picks, Counters
  <2>5. \A i \in 1..n : /\ recent[i].slot = Size(recent[i].raw) % Len(vec)
                        /\ index <= recent[i].raw + (n - i) + 1
    BY <2>4 DEF Rotation
  <2>6. \A i, j \in 1..n : i < j => recent[j].raw <= recent[i].raw + (j - i)
    BY <2>4 DEF Rotation
  <2> HIDE DEF n
  <2>7. DOMAIN recent' = 1..(n + 1 - m)
    BY <2>1, <2>2, LenProperties
  <2>8. ASSUME NEW i \in 1..(n + 1 - m)
        PROVE  \/ i + m \in 1..n /\ recent'[i] = recent[i + m]
               \/ i = n + 1 - m /\ recent'[i] = p
    <3>1. CASE i + m <= n
      BY <2>1, <2>2, <3>1
    <3>2. CASE ~(i + m <= n)
      <4>1. i = n + 1 - m
        BY <2>1, <2>2, <3>2
      <4> QED BY <2>2, <3>2, <4>1
    <3> QED BY <3>1, <3>2
  <2>9. ASSUME NEW i \in 1..(n + 1 - m)
        PROVE  /\ recent'[i].slot = Size(recent'[i].raw) % Len(vec')
               /\ index' <= recent'[i].raw + ((n + 1 - m) - i) + 1
    <3>1. CASE i + m \in 1..n /\ recent'[i] = recent[i + m]
      <4>1. index <= recent[i + m].raw + (n - (i + m)) + 1 /\ recent[i + m].raw \in Nat
        BY <2>4, <2>5, <3>1
      <4>2. index' <= recent[i + m].raw + ((n + 1 - m) - i) + 1
        BY <2>1, <2>3, <4>1
      <4> QED BY <2>1, <2>5, <3>1, <4>2
    <3>2. CASE i = n + 1 - m /\ recent'[i] = p
      BY <2>1, <2>3, <3>2
    <3> QED BY <2>8, <3>1, <3>2
  <2>10. ASSUME NEW i \in 1..(n + 1 - m), NEW j \in 1..(n + 1 - m), i < j
         PROVE  recent'[j].raw <= recent'[i].raw + (j - i)
    <3>1. i + m \in 1..n /\ recent'[i] = recent[i + m] /\ recent[i + m].raw \in Nat
      <4>1. i # n + 1 - m
        BY <2>1, <2>10
      <4> QED BY <2>4, <2>8, <4>1
    <3>2. CASE j + m \in 1..n /\ recent'[j] = recent[j + m]
      <4>1. recent[j + m].raw <= recent[i + m].raw + ((j + m) - (i + m))
        <5>1. i + m < j + m
          BY <2>10
        <5> QED BY <2>6, <3>1, <3>2, <5>1
      <4>2. (j + m) - (i + m) = j - i
        OBVIOUS
      <4> QED BY <3>1, <3>2, <4>1, <4>2
    <3>3. CASE j = n + 1 - m /\ recent'[j] = p
      <4>1. index <= recent[i + m].raw + (n - (i + m)) + 1
        BY <2>5, <3>1
      <4>2. (n - (i + m)) + 1 = j - i
        BY <2>1, <3>3
      <4>3. recent[i + m].raw + (n - (i + m)) + 1 = recent[i + m].raw + (j - i)
        BY <2>1, <3>1, <4>2
      <4> QED BY <2>1, <3>1, <3>3, <4>1, <4>3
    <3> QED BY <2>8, <3>2, <3>3
  <2> QED BY <2>2, <2>7, <2>9, <2>10 DEF Rotation
<1>5. CASE ~(FetchAllNodes \/ Watching \/ Stop \/ GetEndPoint)
  <2>1. UNCHANGED <<vec, recent, index>>
    BY <1>5 DEF Next, Starting, Change, Break, Start, List, CreateWatch, DropOldWatch,
                DestroyMembers, DestroyWatch, cacheVars
  <2> QED BY <1>2, <2>1
<1> QED BY <1>3, <1>4, <1>5

LEMMA WatcherInitial == Init => WatcherInv
<1> SUFFICES ASSUME Init
             PROVE  WatcherInv
  OBVIOUS
<1>1. Types
  <2>1. nodeMap \in Maps /\ store \in Maps /\ snapshot \in Maps
    BY DEF Init, Maps, Values
  <2>2. index \in Counters /\ 0 \in 0..MaxChanges /\ 0 \in 0..MaxStarts
    BY WatcherAssumption DEF Init, Counters
  <2>3. streams \in Seq(Seq(Events)) /\ recent \in Seq(Picks)
    BY DEF Init
  <2> QED BY <2>1, <2>2, <2>3 DEF Init, Types
<1>2. Listed
  <2>1. Present(nodeMap) = {}
    BY DEF Init, Present
  <2>2. Cardinality({}) = 0
    BY FS_EmptySet
  <2>3. <<>> \in SetToSeqs({})
    BY <2>2 DEF SetToSeqs
  <2>4. vec = [i \in DOMAIN <<>> |-> nodeMap[<<>>[i]]]
    BY DEF Init
  <2> QED BY <2>1, <2>3, <2>4 DEF Listed, Listing
<1>3. Watches /\ Lag /\ Rotation
  BY DEF Init, Watches, Lag, Rotation
<1> QED BY <1>1, <1>2, <1>3 DEF WatcherInv

LEMMA WatcherStep == WatcherInv /\ [Next]_vars => WatcherInv'
<1> SUFFICES ASSUME WatcherInv, [Next]_vars
             PROVE  WatcherInv'
  OBVIOUS
<1>1. CASE Next
  BY <1>1, TypesStep, ListedStep, WatchesStep, LagStep, RotationStep DEF WatcherInv
<1>2. CASE UNCHANGED vars
  <2> USE <1>2 DEF vars, storeVars, startVars, cacheVars, ghostVars
  <2>1. Types' /\ Watches'
    BY DEF WatcherInv, Types, Watches
  <2>2. Listed' /\ Lag'
    BY DEF WatcherInv, Listed, Lag
  <2>3. Rotation'
    BY DEF WatcherInv, Rotation
  <2> QED BY <2>1, <2>2, <2>3 DEF WatcherInv
<1> QED BY <1>1, <1>2

-----------------------------------------------------------------------------
(* The theorems.                                                           *)

\* The invariant of the watcher: types, the vector a listing of the map, how many watches there
\* are, what the first Start knows of the store, and how the counter moves.
THEOREM WatcherInvariant == Spec => []WatcherInv
<1>1. Init => WatcherInv
  BY WatcherInitial
<1>2. WatcherInv /\ [Next]_vars => WatcherInv'
  BY WatcherStep
<1> QED BY <1>1, <1>2, PTL DEF Spec

\* The types: there are two watches at most, and the vector is no longer than the keys allow.
THEOREM WatcherTypes == Spec => []TypeOK
<1>1. WatcherInv => TypeOK
  <2> SUFFICES ASSUME WatcherInv
               PROVE  TypeOK
    OBVIOUS
  <2>1. vec \in Seq(Endpoints) /\ Len(vec) <= Cardinality(Keys)
    BY ListingIs DEF WatcherInv, Types, Listed
  <2>2. Len(streams) <= 2
    BY StreamTypes DEF WatcherInv, Watches
  <2> QED BY <2>1, <2>2 DEF WatcherInv, Types, TypeOK, Maps, Counters
<1> QED BY <1>1, WatcherInvariant, PTL

\* GetEndPoint and GetAllEndpoints serve each node of the map once, and while the watch of a
\* first Start is undisturbed the map lags behind etcd by the events on their way and by
\* nothing else: FetchAllNodes and OnServerChange lose nothing between them.
THEOREM CacheLags == Spec => []CacheLagsByEvents
<1>1. WatcherInv => CacheLagsByEvents
  <2> SUFFICES ASSUME WatcherInv
               PROVE  CacheLagsByEvents
    OBVIOUS
  <2>1. ContainersAgree
    BY ListingIs DEF WatcherInv, Types, Listed, ContainersAgree
  <2>2. Undisturbed => ApplyAll(nodeMap, streams[1]) = store
    BY DEF WatcherInv, Lag, Undisturbed
  <2> QED BY <2>1, <2>2 DEF CacheLagsByEvents
<1> QED BY <1>1, WatcherInvariant, PTL

\* GetEndPoint goes round: no endpoint twice before every other, while the vector is not
\* rebuilt and the counter neither wraps nor changes its sign, whatever its width.
THEOREM EndpointsRotate == Spec => []RoundRobin
<1>1. WatcherInv => RoundRobin
  <2> SUFFICES ASSUME WatcherInv,
                      NEW i \in DOMAIN recent, NEW j \in DOMAIN recent,
                      i < j, j - i < Len(vec), recent[i].raw < recent[j].raw,
                      Negative(recent[i].raw) = Negative(recent[j].raw)
               PROVE  recent[i].slot # recent[j].slot
    BY DEF RoundRobin
  <2> DEFINE x == recent[i].raw
             y == recent[j].raw
             l == Len(vec)
  <2>1. x \in Counters /\ y \in Counters /\ x \in Nat /\ y \in Nat /\ i \in Nat /\ j \in Nat
    <3>1. /\ recent \in Seq(Picks) /\ DOMAIN recent = 1..Len(recent) /\ Len(recent) \in Nat
          /\ recent[i] \in Picks /\ recent[j] \in Picks
      BY LenProperties, ElementOfSeq DEF WatcherInv, Types
    <3> QED BY <3>1 DEF Picks, Counters
  <2>2. l \in Nat /\ l > 0
    <3>1. l \in Nat
      BY ListingIs, LenProperties DEF WatcherInv, Types, Listed
    <3> QED BY <2>1, <3>1
  <2>3. recent[i].slot = Size(x) % l /\ recent[j].slot = Size(y) % l /\ y <= x + (j - i)
    BY DEF WatcherInv, Rotation
  <2> HIDE DEF x, y, l
  <2>4. y - x \in 1..(l - 1)
    <3>1. x < y /\ j - i < l
      BY DEF x, y, l
    <3> QED BY <2>1, <2>2, <2>3, <3>1
  <2>5. Size(y) = Size(x) + (y - x) /\ Size(x) \in Nat
    <3>1. Negative(x) = Negative(y)
      BY DEF x, y
    <3>2. SizeWrap \in Int /\ IntWrap \in Int /\ x \in Int /\ y \in Int
      BY <2>1, WatcherAssumption
    <3>3. Size(y) = Size(x) + (y - x)
      BY <3>1, <3>2 DEF Size
    <3> QED BY <2>1, <3>3, SizeIs
  <2> QED BY <2>2, <2>3, <2>4, <2>5, RemaindersDiffer
<1> QED BY <1>1, WatcherInvariant, PTL
=============================================================================
