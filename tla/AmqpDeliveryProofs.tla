--------------------------- MODULE AmqpDeliveryProofs ---------------------------
(***************************************************************************)
(* Theorems about AmqpDelivery, for any messages, prefetch window, mode    *)
(* and use of the contexts, and for any number of clients.                 *)
(***************************************************************************)
EXTENDS AmqpDelivery, SequenceFacts, FiniteSetTheorems

(* The invariants.                                                         *)

AnyTag      == Nat \ {0}
AnyDelivery == [tag : AnyTag, msg : Messages, again : BOOLEAN]
AnyContext  == [tag : AnyTag, msg : Messages, again : BOOLEAN, settled : BOOLEAN, calls : 0..MaxCalls]
AnyFrame    == [op : {"ack", "reject"}, tag : AnyTag, multiple : BOOLEAN, requeue : BOOLEAN]

\* The types, but for the bound on the tags.
BrokerTypes ==
    /\ noAck \in BOOLEAN /\ unknownTag \in BOOLEAN
    /\ queue \in Seq(Messages)
    /\ unsettled \in Seq(AnyDelivery)
    /\ ~noAck => Len(unsettled) <= Prefetch
    /\ tags \in Nat
    /\ seen \cup acked \cup discarded \subseteq Messages

ClientTypes ==
    /\ inbound \in Seq(AnyDelivery) /\ outbound \in Seq(AnyFrame)
    /\ channel \in {"open", "closing", "closed"}
    /\ sessions \in 1..MaxSessions
    /\ context \in AnyContext \cup {NoContext}
    /\ kept \subseteq [tag : AnyTag, settled : BOOLEAN]
    /\ done \cup called \cup refused \subseteq Messages
    /\ misused \in BOOLEAN

\* A channel that is not open carries nothing to the broker, one that is closed nothing at all.
Closed ==
    /\ channel # "open" => outbound = <<>> /\ unsettled = <<>>
    /\ channel = "closed" => inbound = <<>> /\ context = NoContext
    /\ noAck => unsettled = <<>>

\* The last tag that a callback was called with.
Delivered == tags - Len(inbound)

\* Deliveries arrive in the order of their tags, and only what arrived is settled.
Wire ==
    /\ Len(inbound) <= tags
    /\ \A i \in DOMAIN inbound : inbound[i].tag = Delivered + i
    /\ context # NoContext => context.tag = Delivered
    /\ \A k \in kept : k.tag <= Delivered
    /\ \A i \in DOMAIN outbound : outbound[i].tag <= Delivered

\* What the broker waits for is in the order of the tags.
Ordered(s) == \A i, j \in DOMAIN s : i < j => s[i].tag < s[j].tag

\* It is on its way, in a callback, or a callback is done with it.
Waits(d) ==
    /\ d.tag <= tags
    /\ d.tag > Delivered => inbound[d.tag - Delivered] = d
    /\ d.tag <= Delivered =>
           d.msg \in done \/ (context # NoContext /\ d.tag = context.tag /\ d.msg = context.msg)

\* An acknowledgement covers nothing that no callback is done with.
Covered == \A i \in DOMAIN outbound : \A d \in ToSet(unsettled) :
               outbound[i].op = "ack" /\ d.tag <= outbound[i].tag => d.msg \in done

HandledInv ==
    /\ BrokerTypes /\ ClientTypes
    /\ Closed /\ Wire /\ Ordered(unsettled) /\ Covered /\ SettledAfterHandling
    /\ \A d \in ToSet(unsettled) : Waits(d)

\* The tags the broker waits for.
Expected == {d.tag : d \in ToSet(unsettled)}

\* Unless the application misuses a context, each tag is settled once, and what is not settled yet
\* the broker waits for.
HonestInv ==
    /\ ~unknownTag
    /\ noAck => outbound = <<>>
    /\ Ordered(outbound)
    /\ \A i \in DOMAIN outbound : outbound[i].tag \in Expected
    /\ ~noAck /\ channel = "open" => \A i \in DOMAIN inbound : inbound[i].tag \in Expected
    /\ ~noAck /\ channel = "open" /\ context # NoContext /\ ~context.settled =>
           /\ context.tag \in Expected
           /\ \A i \in DOMAIN outbound : outbound[i].tag < context.tag

OnceInv == ~misused => HonestInv

\* What is on its way unmarked was not handed out before.
MarkedInv ==
    /\ called \subseteq seen
    /\ \A i \in DOMAIN inbound :
           /\ inbound[i].msg \in seen
           /\ ~inbound[i].again => /\ inbound[i].msg \notin called
                                   /\ \A j \in DOMAIN inbound : j < i => inbound[j].msg # inbound[i].msg

-----------------------------------------------------------------------------
(* Sequences of deliveries and frames.                                     *)

\* The elements of a sequence are those at its positions.
LEMMA Elements ==
    ASSUME NEW S, NEW s \in Seq(S)
    PROVE  /\ Len(s) \in Nat /\ DOMAIN s = 1..Len(s)
           /\ \A i \in DOMAIN s : s[i] \in S /\ s[i] \in ToSet(s)
           /\ \A e \in ToSet(s) : e \in S /\ \E i \in DOMAIN s : s[i] = e
<1>1. Len(s) \in Nat /\ DOMAIN s = 1..Len(s) /\ \A i \in 1..Len(s) : s[i] \in S
  BY LenProperties, ElementOfSeq
<1> QED BY <1>1 DEF ToSet

\* What comes behind all others keeps the order.
LEMMA OrderedAppend ==
    ASSUME NEW S, NEW s \in Seq(S), NEW e \in S, Ordered(s),
           \A i \in DOMAIN s : s[i].tag < e.tag
    PROVE  Ordered(Append(s, e))
<1>1. /\ Len(s) \in Nat /\ DOMAIN s = 1..Len(s) /\ DOMAIN Append(s, e) = 1..(Len(s) + 1)
      /\ \A i \in 1..Len(s) : Append(s, e)[i] = s[i]
      /\ Append(s, e)[Len(s) + 1] = e
  BY AppendProperties, LenProperties
<1>2. ASSUME NEW i \in 1..(Len(s) + 1), NEW j \in 1..(Len(s) + 1), i < j
      PROVE  i \in 1..Len(s) /\ (j \in 1..Len(s) \/ j = Len(s) + 1)
  BY <1>1, <1>2
<1> QED BY <1>1, <1>2 DEF Ordered

LEMMA OrderedTail ==
    ASSUME NEW S, NEW s \in Seq(S), Ordered(s), s # <<>>
    PROVE  /\ Ordered(Tail(s))
           /\ \A i \in DOMAIN Tail(s) : Head(s).tag < Tail(s)[i].tag
<1>1. /\ Len(s) \in Nat /\ Len(s) > 0 /\ DOMAIN s = 1..Len(s)
      /\ Head(s) = s[1] /\ DOMAIN Tail(s) = 1..(Len(s) - 1)
      /\ \A i \in 1..(Len(s) - 1) : Tail(s)[i] = s[i + 1]
  BY HeadTailProperties, EmptySeq, LenProperties
<1>2. \A i \in 1..(Len(s) - 1) : i + 1 \in DOMAIN s /\ 1 \in DOMAIN s /\ 1 < i + 1
  BY <1>1
<1>3. \A i, j \in 1..(Len(s) - 1) : i < j => i + 1 < j + 1
  BY <1>1
<1> QED BY <1>1, <1>2, <1>3 DEF Ordered

\* What an ack or a reject settles, and what it leaves.
Hit(s, i, multiple) == IF multiple THEN SubSeq(s, 1, i) ELSE <<s[i]>>
Rest(s, i, multiple) == IF multiple THEN SubSeq(s, i + 1, Len(s)) ELSE RemoveAt(s, i)

LEMMA SettledParts ==
    ASSUME NEW s \in Seq(AnyDelivery), Ordered(s), NEW i \in DOMAIN s, NEW multiple \in BOOLEAN
    PROVE  /\ Hit(s, i, multiple) \in Seq(AnyDelivery)
           /\ \A d \in ToSet(Hit(s, i, multiple)) : d \in ToSet(s) /\ d.tag <= s[i].tag
           /\ Rest(s, i, multiple) \in Seq(AnyDelivery) /\ Ordered(Rest(s, i, multiple))
           /\ Len(Rest(s, i, multiple)) <= Len(s)
           /\ ToSet(Rest(s, i, multiple)) \subseteq ToSet(s)
           /\ \A d \in ToSet(s) : d.tag > s[i].tag => d \in ToSet(Rest(s, i, multiple))
<1> DEFINE n == Len(s)
           hit == Hit(s, i, multiple)
           rest == Rest(s, i, multiple)
<1>0. /\ hit = (IF multiple THEN SubSeq(s, 1, i) ELSE <<s[i]>>)
      /\ rest = (IF multiple THEN SubSeq(s, i + 1, Len(s)) ELSE RemoveAt(s, i))
  BY DEF Hit, Rest
<1> HIDE DEF hit, rest
<1>1. n \in Nat /\ DOMAIN s = 1..n /\ i \in 1..n /\ \A k \in 1..n : s[k] \in AnyDelivery
  BY Elements
<1>2. \A k \in 1..n : s[k].tag \in Nat /\ s[k] \in ToSet(s)
  BY <1>1, Elements DEF AnyDelivery, AnyTag
<1>3. CASE multiple
  <2>1. /\ hit \in Seq(AnyDelivery) /\ Len(hit) = i
        /\ \A k \in 1..i : hit[k] = s[k]
    BY <1>0, <1>1, <1>3, SubSeqProperties
  <2>2. \A d \in ToSet(hit) : d \in ToSet(s) /\ d.tag <= s[i].tag
    <3>1. ASSUME NEW d \in ToSet(hit)
          PROVE  d \in ToSet(s) /\ d.tag <= s[i].tag
      <4>1. PICK k \in 1..i : d = s[k]
        <5>1. DOMAIN hit = 1..i
          BY ONLY <2>1, LenProperties
        <5> QED BY ONLY <2>1, <3>1, <5>1 DEF ToSet
      <4>2. k \in 1..n /\ (k = i \/ k < i)
        BY <1>1
      <4> QED BY <1>1, <1>2, <4>1, <4>2 DEF Ordered
    <3> QED BY <3>1
  <2>3. /\ rest \in Seq(AnyDelivery) /\ Len(rest) = n - i
        /\ \A k \in 1..(n - i) : rest[k] = s[k + i]
    <3>1. i + 1 \in Int /\ n \in Int /\ \A k \in (i + 1)..n : s[k] \in AnyDelivery
      BY <1>1
    <3>2. /\ rest \in Seq(AnyDelivery)
          /\ Len(rest) = IF i + 1 <= n THEN n - (i + 1) + 1 ELSE 0
          /\ \A k \in 1..(n - (i + 1) + 1) : rest[k] = s[i + 1 + k - 1]
      BY <1>0, <1>3, <3>1, SubSeqProperties
    <3> HIDE DEF n
    <3>3. n - (i + 1) + 1 = n - i /\ (~(i + 1 <= n) => n - i = 0)
      BY <1>1
    <3>4. \A k \in 1..(n - i) : i + 1 + k - 1 = k + i
      BY <1>1
    <3> QED BY <3>2, <3>3, <3>4
  <2>4. \A d \in ToSet(s) : d.tag > s[i].tag => d \in ToSet(rest)
    <3>1. ASSUME NEW d \in ToSet(s), d.tag > s[i].tag
          PROVE  d \in ToSet(rest)
      <4>1. PICK k \in 1..n : d = s[k]
        BY <1>1, Elements
      <4>2. ~(k < i) /\ k # i
        BY <1>1, <1>2, <3>1, <4>1 DEF Ordered
      <4>3. k - i \in 1..(n - i) /\ (k - i) + i = k
        BY <1>1, <4>2
      <4>4. rest[k - i] = d /\ DOMAIN rest = 1..(n - i)
        BY <2>3, <4>1, <4>3, Elements
      <4> QED BY ONLY <4>3, <4>4 DEF ToSet
    <3> QED BY <3>1
  <2>5. ToSet(rest) \subseteq ToSet(s)
    <3>1. \A k \in 1..(n - i) : k + i \in 1..n
      BY <1>1
    <3>2. DOMAIN rest = 1..(n - i)
      BY <2>3, Elements
    <3> QED BY ONLY <1>2, <2>3, <3>1, <3>2 DEF ToSet
  <2>6. Ordered(rest)
    <3>1. \A k, l \in 1..(n - i) : k + i \in 1..n /\ l + i \in 1..n /\ (k < l => k + i < l + i)
      BY <1>1
    <3>2. DOMAIN rest = 1..(n - i)
      BY <2>3, Elements
    <3>3. \A k, l \in 1..(n - i) : k < l => s[k + i].tag < s[l + i].tag
      BY <1>1, <3>1 DEF Ordered
    <3> QED BY ONLY <2>3, <3>2, <3>3 DEF Ordered
  <2>7. Len(rest) <= n
    BY <1>1, <2>3
  <2> QED BY <2>1, <2>2, <2>3, <2>4, <2>5, <2>6, <2>7 DEF hit, rest
<1>4. CASE ~multiple
  <2>1. hit = <<s[i]>> /\ rest = RemoveAt(s, i)
    BY <1>0, <1>4
  <2>2. hit \in Seq(AnyDelivery) /\ ToSet(hit) = {s[i]}
    BY <1>1, <2>1 DEF ToSet
  <2>3. \A d \in ToSet(hit) : d \in ToSet(s) /\ d.tag <= s[i].tag
    BY <1>1, <1>2, <2>2
  <2>4. /\ rest \in Seq(AnyDelivery) /\ Len(rest) = n - 1
        /\ \A k \in 1..(n - 1) : rest[k] = IF k <= i - 1 THEN s[k] ELSE s[k + 1]
    BY <1>1, <2>1, RemoveAtProperties
  <2>5. DOMAIN rest = 1..(n - 1)
    BY <2>4, Elements
  <2>6. \A d \in ToSet(s) : d.tag > s[i].tag => d \in ToSet(rest)
    <3>1. ASSUME NEW d \in ToSet(s), d.tag > s[i].tag
          PROVE  d \in ToSet(rest)
      <4>1. PICK k \in 1..n : d = s[k]
        BY <1>1, Elements
      <4>2. ~(k < i) /\ k # i
        BY <1>1, <1>2, <3>1, <4>1 DEF Ordered
      <4>3. k - 1 \in 1..(n - 1) /\ ~(k - 1 <= i - 1) /\ (k - 1) + 1 = k
        BY <1>1, <4>2
      <4>4. rest[k - 1] = d
        BY <2>4, <4>1, <4>3
      <4> QED BY ONLY <2>5, <4>3, <4>4 DEF ToSet
    <3> QED BY <3>1
  <2> DEFINE place(k) == IF k <= i - 1 THEN k ELSE k + 1
  <2>7. \A k \in 1..(n - 1) : place(k) \in 1..n /\ rest[k] = s[place(k)]
    <3>1. \A k \in 1..(n - 1) : place(k) \in 1..n
      BY <1>1
    <3> QED BY <2>4, <3>1
  <2>8. \A k, l \in 1..(n - 1) : k < l => place(k) < place(l)
    BY <1>1
  <2> HIDE DEF place
  <2>9. ToSet(rest) \subseteq ToSet(s)
    BY ONLY <1>2, <2>5, <2>7 DEF ToSet
  <2>10. Ordered(rest)
    <3>1. \A k, l \in 1..(n - 1) : k < l => s[place(k)].tag < s[place(l)].tag
      BY <1>1, <2>7, <2>8 DEF Ordered
    <3> QED BY ONLY <2>5, <2>7, <3>1 DEF Ordered
  <2>11. Len(rest) <= n
    BY ONLY <1>1, <2>4
  <2> QED BY <2>2, <2>3, <2>4, <2>6, <2>9, <2>10, <2>11 DEF hit, rest
<1> QED BY <1>3, <1>4 DEF hit, rest

-----------------------------------------------------------------------------
(* What is settled was handled.                                            *)

\* What the invariant says of lengths, positions and tags, in numbers.
LEMMA Positions ==
    ASSUME HandledInv
    PROVE  /\ Len(inbound) \in Nat /\ tags \in Nat /\ Delivered \in Nat /\ Delivered <= tags
           /\ tags = Delivered + Len(inbound)
           /\ DOMAIN inbound = 1..Len(inbound) /\ DOMAIN outbound = 1..Len(outbound)
           /\ DOMAIN unsettled = 1..Len(unsettled)
           /\ \A i \in DOMAIN inbound : inbound[i] \in AnyDelivery
           /\ \A i \in DOMAIN outbound : outbound[i] \in AnyFrame
           /\ \A d \in ToSet(unsettled) : d \in AnyDelivery /\ d.tag \in Nat /\ d.msg \in Messages
<1>1. /\ inbound \in Seq(AnyDelivery) /\ outbound \in Seq(AnyFrame)
      /\ unsettled \in Seq(AnyDelivery) /\ tags \in Nat /\ Len(inbound) <= tags
  BY DEF HandledInv, BrokerTypes, ClientTypes, Wire
<1>2. /\ Len(inbound) \in Nat
      /\ DOMAIN inbound = 1..Len(inbound) /\ DOMAIN outbound = 1..Len(outbound)
      /\ DOMAIN unsettled = 1..Len(unsettled)
      /\ \A i \in DOMAIN inbound : inbound[i] \in AnyDelivery
      /\ \A i \in DOMAIN outbound : outbound[i] \in AnyFrame
      /\ \A d \in ToSet(unsettled) : d \in AnyDelivery
  BY <1>1, Elements
<1>3. \A d \in AnyDelivery : d.tag \in Nat /\ d.msg \in Messages
  BY DEF AnyDelivery, AnyTag
<1>4. Delivered \in Nat /\ Delivered <= tags /\ tags = Delivered + Len(inbound)
  BY <1>1, <1>2 DEF Delivered
<1> QED BY <1>1, <1>2, <1>3, <1>4

\* A context is not NoContext.
LEMMA ContextIsOne ==
    /\ \A c \in AnyContext : c # NoContext
    /\ \A d \in AnyDelivery : NewContext(d) \in AnyContext
<1>1. \A c \in AnyContext :
          c \in [tag : Nat, msg : Messages, again : BOOLEAN, settled : BOOLEAN, calls : Nat]
  BY DeliveryAssumption DEF AnyContext, AnyTag
<1>2. \A c \in AnyContext : c # NoContext
  BY <1>1, DeliveryAssumption
<1>3. \A d \in AnyDelivery : NewContext(d) \in AnyContext
  BY DeliveryAssumption DEF NewContext, AnyDelivery, AnyContext
<1> QED BY <1>2, <1>3

\* A frame that covers only what callbacks are done with.
Sending(frame) ==
    /\ Send(frame)
    /\ frame \in AnyFrame /\ frame.tag <= Delivered
    /\ frame.op = "ack" => \A d \in ToSet(unsettled) : d.tag <= frame.tag => d.msg \in done'

\* A use of a context: it stays the same context or, when it is given up, its message is done.
LEMMA UseKeeps ==
    ASSUME HandledInv,
           UNCHANGED <<brokerVars, inbound, channel, sessions>>,
           \/ context' = NoContext /\ (context # NoContext => context.msg \in done')
           \/ /\ context # NoContext /\ context' \in AnyContext
              /\ context'.tag = context.tag /\ context'.msg = context.msg,
           done \subseteq done', done' \cup called' \cup refused' \subseteq Messages,
           misused' \in BOOLEAN,
           kept' \subseteq [tag : AnyTag, settled : BOOLEAN], \A k \in kept' : k.tag <= Delivered,
           outbound' = outbound \/ \E frame \in AnyFrame : Sending(frame)
    PROVE  HandledInv'
<1>1. UNCHANGED <<noAck, queue, unsettled, tags, seen, acked, discarded, unknownTag>>
  BY DEF brokerVars
<1>2. Delivered' = Delivered
  BY <1>1 DEF Delivered
<1>3. ASSUME NEW i \in DOMAIN outbound'
      PROVE  /\ outbound'[i] \in AnyFrame /\ outbound'[i].tag <= Delivered
             /\ \A d \in ToSet(unsettled) :
                    outbound'[i].op = "ack" /\ d.tag <= outbound'[i].tag => d.msg \in done'
  <2>1. \A k \in DOMAIN outbound :
            /\ outbound[k] \in AnyFrame /\ outbound[k].tag <= Delivered
            /\ \A d \in ToSet(unsettled) :
                   outbound[k].op = "ack" /\ d.tag <= outbound[k].tag => d.msg \in done'
    BY Positions DEF HandledInv, Wire, Covered
  <2>2. CASE outbound' = outbound
    BY <1>3, <2>1, <2>2
  <2>3. ASSUME NEW frame \in AnyFrame, Sending(frame), outbound' = Append(outbound, frame)
        PROVE  outbound'[i] = frame \/ (i \in DOMAIN outbound /\ outbound'[i] = outbound[i])
    <3>1. outbound \in Seq(AnyFrame)
      BY DEF HandledInv, ClientTypes
    <3>2. /\ DOMAIN outbound' = 1..(Len(outbound) + 1) /\ Len(outbound) \in Nat
          /\ DOMAIN outbound = 1..Len(outbound)
          /\ outbound'[Len(outbound) + 1] = frame
          /\ \A k \in 1..Len(outbound) : outbound'[k] = outbound[k]
      BY <2>3, <3>1, AppendProperties, LenProperties
    <3> QED BY <1>3, <3>2
  <2> QED BY <1>3, <2>1, <2>2, <2>3 DEF Sending, Send
<1>4. outbound' \in Seq(AnyFrame) /\ (channel # "open" => outbound' = <<>>)
  BY AppendProperties DEF HandledInv, ClientTypes, Closed, Sending, Send
<1>5. BrokerTypes'
  BY <1>1 DEF HandledInv, BrokerTypes
<1>6. ClientTypes'
  BY <1>4 DEF HandledInv, ClientTypes
<1>7. Closed'
  BY <1>1, <1>4 DEF HandledInv, Closed
<1>8. Wire'
  BY <1>1, <1>2, <1>3, ContextIsOne DEF HandledInv, Wire
<1>9. Covered' /\ Ordered(unsettled)' /\ SettledAfterHandling'
  BY <1>1, <1>3 DEF HandledInv, Covered, SettledAfterHandling, Ordered
<1>10. ASSUME NEW d \in ToSet(unsettled)
       PROVE  Waits(d)'
  <2>1. Waits(d)
    BY DEF HandledInv
  <2> QED BY <1>1, <1>2, <2>1, ContextIsOne DEF Waits
<1> QED BY <1>1, <1>5, <1>6, <1>7, <1>8, <1>9, <1>10 DEF HandledInv

\* The context in progress is for the last tag that was delivered.
LEMMA InProgress ==
    ASSUME HandledInv, context # NoContext
    PROVE  /\ context \in AnyContext
           /\ context.tag \in AnyTag /\ context.tag = Delivered /\ context.msg \in Messages
           /\ context.settled \in BOOLEAN /\ context.calls \in 0..MaxCalls
<1>1. context \in AnyContext /\ context.tag = Delivered
  BY DEF HandledInv, ClientTypes, Wire
<1> QED BY <1>1 DEF AnyContext

\* Once its message is done, an acknowledgement of it, or of all up to it, covers nothing else.
LEMMA AckCovers ==
    ASSUME HandledInv, NEW tag \in AnyTag, tag <= Delivered, NEW multiple \in BOOLEAN,
           done \subseteq done', context # NoContext => context.msg \in done'
    PROVE  /\ AckFrame(tag, multiple) \in AnyFrame
           /\ AckFrame(tag, multiple).tag = tag
           /\ \A d \in ToSet(unsettled) : d.tag <= tag => d.msg \in done'
<1>1. AckFrame(tag, multiple) \in AnyFrame /\ AckFrame(tag, multiple).tag = tag
  BY DEF AckFrame, AnyFrame
<1>2. ASSUME NEW d \in ToSet(unsettled), d.tag <= tag
      PROVE  d.msg \in done'
  <2>1. d.tag <= Delivered
    BY <1>2, Positions DEF AnyTag
  <2> QED BY <2>1 DEF HandledInv, Waits
<1> QED BY <1>1, <1>2

LEMMA AcknowlegedKeeps ==
    ASSUME HandledInv, NEW multiple \in BOOLEAN, Acknowleged(multiple)
    PROVE  HandledInv'
<1>1. context # NoContext /\ context.calls < MaxCalls
  BY DEF Acknowleged, Calling
<1>2. /\ UNCHANGED <<brokerVars, inbound, channel, sessions, kept, called, refused>>
      /\ done' = done \cup {context.msg} /\ misused' = (misused \/ noAck)
      /\ Send(AckFrame(context.tag, multiple))
      /\ context' = [context EXCEPT !.settled = TRUE, !.calls = @ + 1]
  BY DEF Acknowleged
<1>3. /\ context' \in AnyContext
      /\ context'.tag = context.tag /\ context'.msg = context.msg
  <2>1. context \in AnyContext /\ context.calls + 1 \in 0..MaxCalls
    BY <1>1, InProgress, DeliveryAssumption
  <2> QED BY <1>2, <2>1 DEF AnyContext
<1>4. Sending(AckFrame(context.tag, multiple))
  BY <1>1, <1>2, InProgress, Positions, AckCovers DEF Sending
<1>5. AckFrame(context.tag, multiple) \in AnyFrame
  BY <1>4 DEF Sending
<1>6. /\ done \subseteq done' /\ done' \cup called' \cup refused' \subseteq Messages
      /\ misused' \in BOOLEAN
  BY <1>1, <1>2, InProgress DEF HandledInv, ClientTypes, BrokerTypes
<1>7. kept' \subseteq [tag : AnyTag, settled : BOOLEAN] /\ \A k \in kept' : k.tag <= Delivered
  BY <1>2 DEF HandledInv, ClientTypes, Wire
<1> QED BY <1>1, <1>2, <1>3, <1>4, <1>5, <1>6, <1>7, UseKeeps

LEMMA RejectKeeps ==
    ASSUME HandledInv, NEW requeue \in BOOLEAN, NEW multiple \in BOOLEAN,
           Reject(requeue, multiple)
    PROVE  HandledInv'
<1> DEFINE frame == [op |-> "reject", tag |-> context.tag, multiple |-> multiple,
                     requeue |-> requeue]
<1>1. context # NoContext /\ context.calls < MaxCalls
  BY DEF Reject, Calling
<1>2. /\ UNCHANGED <<brokerVars, inbound, channel, sessions, kept, done, called>>
      /\ \/ Send(frame) /\ misused' = TRUE /\ UNCHANGED refused
         \/ refused' = refused \cup {context.msg} /\ UNCHANGED <<outbound, misused>>
      /\ context' = [context EXCEPT !.calls = @ + 1]
  BY DEF Reject
<1>3. /\ context' \in AnyContext
      /\ context'.tag = context.tag /\ context'.msg = context.msg
  BY <1>1, <1>2, InProgress, DeliveryAssumption DEF AnyContext
<1>4. frame \in AnyFrame /\ frame.tag <= Delivered /\ frame.op # "ack"
  BY <1>1, InProgress, Positions DEF AnyFrame
<1>5. outbound' = outbound \/ Sending(frame)
  BY <1>2, <1>4 DEF Sending
<1> HIDE DEF frame
<1>6. /\ done' \cup called' \cup refused' \subseteq Messages
      /\ misused' \in BOOLEAN
  BY <1>1, <1>2, InProgress DEF HandledInv, ClientTypes
<1>7. kept' \subseteq [tag : AnyTag, settled : BOOLEAN] /\ \A k \in kept' : k.tag <= Delivered
  BY <1>2 DEF HandledInv, ClientTypes, Wire
<1> QED BY <1>1, <1>2, <1>3, <1>4, <1>5, <1>6, <1>7, UseKeeps

LEMMA KeepKeeps ==
    ASSUME HandledInv, Keep
    PROVE  HandledInv'
<1>1. context # NoContext /\ context.calls < MaxCalls
  BY DEF Keep, Calling
<1>2. /\ UNCHANGED <<brokerVars, inbound, outbound, channel, sessions, done, called, refused, misused>>
      /\ kept' = kept \cup {[tag |-> context.tag, settled |-> context.settled]}
      /\ context' = [context EXCEPT !.calls = @ + 1]
  BY DEF Keep, wireVars, historyVars
<1>3. /\ context' \in AnyContext
      /\ context'.tag = context.tag /\ context'.msg = context.msg
  BY <1>1, <1>2, InProgress, DeliveryAssumption DEF AnyContext
<1>4. /\ done' \cup called' \cup refused' \subseteq Messages
      /\ misused' \in BOOLEAN
  BY <1>2 DEF HandledInv, ClientTypes
<1>5. kept' \subseteq [tag : AnyTag, settled : BOOLEAN] /\ \A k \in kept' : k.tag <= Delivered
  BY <1>1, <1>2, InProgress, Positions DEF HandledInv, ClientTypes, Wire
<1> QED BY <1>1, <1>2, <1>3, <1>4, <1>5, UseKeeps

LEMMA AcknowlegeKeptKeeps ==
    ASSUME HandledInv, NEW k \in kept, AcknowlegeKept(k)
    PROVE  HandledInv'
<1>1. /\ context = NoContext /\ context' = NoContext
      /\ UNCHANGED <<brokerVars, inbound, channel, sessions, done, called, refused>>
      /\ misused' = TRUE
      /\ Send(AckFrame(k.tag, FALSE))
      /\ kept' = (kept \ {k}) \cup {[k EXCEPT !.settled = TRUE]}
  BY DEF AcknowlegeKept
<1>2. k \in [tag : AnyTag, settled : BOOLEAN] /\ k.tag \in AnyTag /\ k.tag <= Delivered
  BY DEF HandledInv, ClientTypes, Wire
<1>3. Sending(AckFrame(k.tag, FALSE)) /\ AckFrame(k.tag, FALSE) \in AnyFrame
  BY <1>1, <1>2, AckCovers DEF Sending
<1>4. done' \cup called' \cup refused' \subseteq Messages
  BY <1>1 DEF HandledInv, ClientTypes
<1>5. kept' \subseteq [tag : AnyTag, settled : BOOLEAN] /\ \A l \in kept' : l.tag <= Delivered
  BY <1>1, <1>2 DEF HandledInv, ClientTypes, Wire
<1> QED BY <1>1, <1>3, <1>4, <1>5, UseKeeps

LEMMA CallbackReturnKeeps ==
    ASSUME HandledInv, CallbackReturn
    PROVE  HandledInv'
<1>1. /\ context # NoContext /\ context' = NoContext
      /\ UNCHANGED <<brokerVars, inbound, channel, sessions, kept, called, refused, misused>>
      /\ done' = done \cup {context.msg}
      /\ Send(AckFrame(context.tag, FALSE)) \/ outbound' = outbound
  BY DEF CallbackReturn, AckTag
<1>2. AckFrame(context.tag, FALSE) \in AnyFrame
      /\ (Send(AckFrame(context.tag, FALSE)) => Sending(AckFrame(context.tag, FALSE)))
  <2>1. context.tag \in AnyTag /\ context.tag <= Delivered
    BY <1>1, InProgress, Positions
  <2>2. context.msg \in done' /\ done \subseteq done'
    BY <1>1
  <2> QED BY <2>1, <2>2, AckCovers DEF Sending
<1>3. done' \cup called' \cup refused' \subseteq Messages /\ misused' \in BOOLEAN
  BY <1>1, InProgress DEF HandledInv, ClientTypes
<1>4. kept' \subseteq [tag : AnyTag, settled : BOOLEAN] /\ \A l \in kept' : l.tag <= Delivered
  BY <1>1 DEF HandledInv, ClientTypes, Wire
<1> QED BY <1>1, <1>2, <1>3, <1>4, UseKeeps

\* A message leaves the queue for the client and, unless it is done at once, for what is unsettled.
LEMMA PushKeeps ==
    ASSUME HandledInv, Push
    PROVE  HandledInv'
<1> DEFINE m == Head(queue)
           d == [tag |-> tags + 1, msg |-> m, again |-> m \in seen]
           n == Len(inbound)
<1>1. queue \in Seq(Messages) /\ m \in Messages /\ Tail(queue) \in Seq(Messages)
  BY HeadTailProperties DEF Push, HandledInv, BrokerTypes
<1>2. d \in AnyDelivery /\ d.tag = tags + 1
  BY <1>1, Positions DEF AnyDelivery, AnyTag
<1>3. /\ channel = "open" /\ (noAck \/ Len(unsettled) < Prefetch)
      /\ inbound' = Append(inbound, d)
      /\ unsettled' = IF noAck THEN unsettled ELSE Append(unsettled, d)
      /\ acked' = IF noAck THEN acked \cup {m} ELSE acked
      /\ seen' = seen \cup {m}
      /\ queue' = Tail(queue) /\ tags' = tags + 1
      /\ UNCHANGED <<noAck, discarded, unknownTag, outbound, channel, sessions, context, kept,
                     done, called, refused, misused>>
  BY DEF Push, historyVars
<1>4. /\ inbound \in Seq(AnyDelivery) /\ unsettled \in Seq(AnyDelivery) /\ tags \in Nat
      /\ n \in Nat /\ Len(unsettled) \in Nat /\ n <= tags
      /\ noAck \in BOOLEAN /\ Prefetch \in Nat
  BY Elements, DeliveryAssumption DEF HandledInv, BrokerTypes, ClientTypes, Wire
<1> HIDE DEF d, m
<1>5. /\ inbound' \in Seq(AnyDelivery) /\ Len(inbound') = n + 1
      /\ DOMAIN inbound = 1..n /\ DOMAIN inbound' = 1..(n + 1)
      /\ inbound'[n + 1] = d
      /\ \A i \in 1..n : inbound'[i] = inbound[i]
  BY <1>2, <1>3, <1>4, AppendProperties, LenProperties
<1>6. /\ unsettled' \in Seq(AnyDelivery)
      /\ Len(unsettled') = IF noAck THEN Len(unsettled) ELSE Len(unsettled) + 1
      /\ ToSet(unsettled') \subseteq ToSet(unsettled) \cup {d}
  BY <1>2, <1>3, <1>4, AppendProperties, ToSetAppend
<1>7. Delivered' = Delivered /\ Delivered \in Nat /\ d.tag = Delivered + (n + 1)
  BY <1>2, <1>3, <1>4, <1>5 DEF Delivered
<1> HIDE DEF n
<1>8. BrokerTypes'
  BY <1>1, <1>3, <1>4, <1>6 DEF HandledInv, BrokerTypes
<1>9. ClientTypes'
  BY <1>3, <1>5 DEF HandledInv, ClientTypes
<1>10. Closed'
  BY <1>3, <1>4 DEF HandledInv, Closed
<1>11. Wire'
  <2>1. n + 1 <= tags + 1 /\ \A i \in 1..(n + 1) : i \in 1..n \/ i = n + 1
    BY <1>4 DEF n
  <2>2. \A i \in 1..(n + 1) : inbound'[i].tag = Delivered + i
    BY <1>5, <1>7, <2>1 DEF HandledInv, Wire
  <2> QED BY <1>3, <1>5, <1>7, <2>1, <2>2 DEF HandledInv, Wire
<1>12. Ordered(unsettled')
  <2>1. \A i \in DOMAIN unsettled : unsettled[i].tag < d.tag
    <3>1. \A i \in DOMAIN unsettled : Waits(unsettled[i]) /\ unsettled[i].tag \in Nat
      BY <1>4, Elements, Positions DEF HandledInv
    <3> QED BY <1>2, <1>4, <3>1 DEF Waits
  <2> QED BY <1>2, <1>3, <1>4, <2>1, OrderedAppend DEF HandledInv
<1>13. Covered'
  <2>1. \A i \in DOMAIN outbound : ~(d.tag <= outbound[i].tag)
    <3>1. \A i \in DOMAIN outbound : outbound[i].tag \in Nat /\ outbound[i].tag <= Delivered
      BY Positions DEF HandledInv, Wire, AnyFrame, AnyTag
    <3> QED BY <1>2, <1>4, <3>1, Positions
  <2> QED BY <1>3, <1>6, <2>1 DEF HandledInv, Covered
<1>14. SettledAfterHandling'
  BY <1>3 DEF HandledInv, SettledAfterHandling
<1>15. ASSUME NEW e \in ToSet(unsettled')
       PROVE  Waits(e)'
  <2>1. CASE e = d
    <3>1. d.tag - Delivered = n + 1 /\ d.tag > Delivered /\ d.tag <= tags'
      BY <1>2, <1>3, <1>7, <1>4 DEF n
    <3> QED BY <1>5, <1>7, <2>1, <3>1 DEF Waits
  <2>2. CASE e \in ToSet(unsettled)
    <3>1. Waits(e) /\ e.tag \in Nat
      BY <2>2, Positions DEF HandledInv
    <3>2. e.tag <= tags' /\ (e.tag > Delivered => e.tag - Delivered \in 1..n)
      <4>1. e.tag <= tags /\ tags = Delivered + n
        BY <3>1, Positions DEF Waits, n
      <4> QED BY <1>3, <1>4, <1>7, <3>1, <4>1
    <3> QED BY <1>3, <1>5, <1>7, <3>1, <3>2 DEF Waits
  <2> QED BY <1>6, <2>1, <2>2
<1> QED BY <1>8, <1>9, <1>10, <1>11, <1>12, <1>13, <1>14, <1>15 DEF HandledInv

\* The messages of deliveries.
LEMMA MessagesThere ==
    ASSUME NEW s \in Seq(AnyDelivery)
    PROVE  /\ MessagesOf(s) \in Seq(Messages)
           /\ \A m \in ToSet(MessagesOf(s)) : \E d \in ToSet(s) : m = d.msg
<1>1. Len(s) \in Nat /\ DOMAIN s = 1..Len(s) /\ \A i \in 1..Len(s) : s[i] \in AnyDelivery
  BY Elements
<1>2. MessagesOf(s) = [i \in 1..Len(s) |-> s[i].msg]
  BY <1>1 DEF MessagesOf
<1>3. \A i \in 1..Len(s) : s[i].msg \in Messages
  BY <1>1 DEF AnyDelivery
<1>4. MessagesOf(s) \in Seq(Messages)
  BY <1>1, <1>2, <1>3
<1>5. DOMAIN MessagesOf(s) = 1..Len(s) /\ \A i \in 1..Len(s) : MessagesOf(s)[i] = s[i].msg
  BY <1>2
<1> QED BY <1>1, <1>4, <1>5 DEF ToSet

\* The broker stops listening: nothing is unsettled any more.
LEMMA BrokerClosesKeeps ==
    ASSUME HandledInv, BrokerCloses,
           UNCHANGED <<noAck, tags, seen, acked, discarded, inbound, sessions, context, kept,
                       done, called, refused, misused>>,
           unknownTag' \in BOOLEAN
    PROVE  HandledInv'
<1>1. channel' = "closing" /\ unsettled' = <<>> /\ outbound' = <<>>
      /\ queue' = MessagesOf(unsettled) \o queue
  BY DEF BrokerCloses
<1>2. MessagesOf(unsettled) \in Seq(Messages) /\ queue \in Seq(Messages)
  BY MessagesThere DEF HandledInv, BrokerTypes
<1>3. queue' \in Seq(Messages)
  BY <1>1, <1>2, ConcatProperties
<1>4. ToSet(unsettled') = {} /\ DOMAIN unsettled' = {} /\ DOMAIN outbound' = {} /\ Len(unsettled') = 0
  BY <1>1 DEF ToSet
<1>5. Delivered' = Delivered
  BY DEF Delivered
<1>6. BrokerTypes'
  BY <1>1, <1>3, <1>4, DeliveryAssumption DEF HandledInv, BrokerTypes
<1>7. ClientTypes'
  BY <1>1 DEF HandledInv, ClientTypes
<1>8. Closed' /\ Ordered(unsettled') /\ Covered' /\ SettledAfterHandling'
  BY <1>1, <1>4 DEF HandledInv, Closed, Ordered, Covered, SettledAfterHandling
<1>9. Wire'
  BY <1>4, <1>5 DEF HandledInv, Wire
<1> QED BY <1>4, <1>6, <1>7, <1>8, <1>9 DEF HandledInv

\* What a frame settles.
LEMMA SettleKeeps ==
    ASSUME HandledInv, Settle
    PROVE  HandledInv'
<1> DEFINE f == Head(outbound)
           at == {i \in DOMAIN unsettled : unsettled[i].tag = f.tag}
           hit(i) == Hit(unsettled, i, f.multiple)
<1>1. /\ channel = "open" /\ outbound # <<>>
      /\ UNCHANGED <<noAck, tags, seen, inbound, sessions, context, kept, done, called, refused,
                     misused>>
      /\ \/ \E i \in at :
               /\ unsettled' = Rest(unsettled, i, f.multiple)
               /\ queue' = IF f.requeue THEN MessagesOf(hit(i)) \o queue ELSE queue
               /\ acked' = IF f.op = "ack" THEN acked \cup ToSet(MessagesOf(hit(i))) ELSE acked
               /\ discarded' = IF f.op = "reject" /\ ~f.requeue
                                 THEN discarded \cup ToSet(MessagesOf(hit(i))) ELSE discarded
               /\ outbound' = Tail(outbound)
               /\ UNCHANGED <<channel, unknownTag>>
         \/ BrokerCloses /\ unknownTag' = TRUE /\ UNCHANGED <<acked, discarded>>
  BY DEF Settle, Hit, Rest, historyVars
<1>2. CASE BrokerCloses /\ unknownTag' = TRUE /\ UNCHANGED <<acked, discarded>>
  BY <1>1, <1>2, BrokerClosesKeeps
<1>3. /\ outbound \in Seq(AnyFrame) /\ f \in AnyFrame /\ f = outbound[1] /\ 1 \in DOMAIN outbound
      /\ Tail(outbound) \in Seq(AnyFrame)
      /\ \A k \in DOMAIN Tail(outbound) :
             k + 1 \in DOMAIN outbound /\ Tail(outbound)[k] = outbound[k + 1]
  <2>1. outbound \in Seq(AnyFrame)
    BY DEF HandledInv, ClientTypes
  <2>2. /\ Len(outbound) \in Nat /\ Len(outbound) > 0 /\ DOMAIN outbound = 1..Len(outbound)
        /\ f \in AnyFrame /\ f = outbound[1] /\ Tail(outbound) \in Seq(AnyFrame)
        /\ Len(Tail(outbound)) = Len(outbound) - 1
        /\ \A k \in 1..(Len(outbound) - 1) : Tail(outbound)[k] = outbound[k + 1]
    BY <1>1, <2>1, HeadTailProperties, EmptySeq, LenProperties
  <2>3. DOMAIN Tail(outbound) = 1..(Len(outbound) - 1)
    BY <2>2, LenProperties
  <2> HIDE DEF f
  <2> QED BY <2>1, <2>2, <2>3
<1>4. f.multiple \in BOOLEAN /\ f.tag \in AnyTag
  BY <1>3 DEF AnyFrame
<1> HIDE DEF f
<1>5. ASSUME NEW i \in at,
             unsettled' = Rest(unsettled, i, f.multiple),
             queue' = IF f.requeue THEN MessagesOf(hit(i)) \o queue ELSE queue,
             acked' = IF f.op = "ack" THEN acked \cup ToSet(MessagesOf(hit(i))) ELSE acked,
             discarded' = IF f.op = "reject" /\ ~f.requeue
                            THEN discarded \cup ToSet(MessagesOf(hit(i))) ELSE discarded,
             outbound' = Tail(outbound),
             UNCHANGED <<channel, unknownTag>>
      PROVE  HandledInv'
  <2>1. unsettled \in Seq(AnyDelivery) /\ Ordered(unsettled) /\ i \in DOMAIN unsettled
        /\ unsettled[i].tag = f.tag /\ Len(unsettled) \in Nat
    BY LenProperties DEF HandledInv, BrokerTypes
  <2>2. /\ hit(i) \in Seq(AnyDelivery)
        /\ \A d \in ToSet(hit(i)) : d \in ToSet(unsettled) /\ d.tag <= f.tag
        /\ unsettled' \in Seq(AnyDelivery) /\ Ordered(unsettled')
        /\ Len(unsettled') <= Len(unsettled) /\ Len(unsettled') \in Nat
        /\ ToSet(unsettled') \subseteq ToSet(unsettled)
    BY <1>4, <1>5, <2>1, SettledParts, LenProperties
  <2> HIDE DEF hit
  <2>3. /\ MessagesOf(hit(i)) \in Seq(Messages)
        /\ \A m \in ToSet(MessagesOf(hit(i))) : \E d \in ToSet(hit(i)) : m = d.msg
    BY <2>2, MessagesThere
  <2>4. f.op = "ack" => ToSet(MessagesOf(hit(i))) \subseteq done
    BY <1>3, <2>2, <2>3 DEF HandledInv, Covered
  <2>5. ToSet(MessagesOf(hit(i))) \subseteq Messages
    BY <2>3, Elements
  <2>6. queue' \in Seq(Messages)
    BY <1>5, <2>3, ConcatProperties DEF HandledInv, BrokerTypes
  <2>7. Delivered' = Delivered
    BY <1>1 DEF Delivered
  <2>8. BrokerTypes'
    <3>1. ~noAck => Len(unsettled') <= Prefetch
      BY <2>1, <2>2, DeliveryAssumption DEF HandledInv, BrokerTypes
    <3>2. acked' \subseteq Messages /\ discarded' \subseteq Messages
      BY <1>5, <2>5 DEF HandledInv, BrokerTypes
    <3> QED BY <1>1, <1>5, <2>2, <2>6, <3>1, <3>2 DEF HandledInv, BrokerTypes
  <2>9. ClientTypes'
    BY <1>1, <1>3, <1>5 DEF HandledInv, ClientTypes
  <2>10. Closed'
    <3>1. ~noAck
      BY <2>1 DEF HandledInv, Closed
    <3> QED BY <1>1, <1>5, <3>1 DEF HandledInv, Closed
  <2>11. Wire'
    <3>1. \A k \in DOMAIN outbound' : outbound'[k].tag <= Delivered
      BY <1>3, <1>5 DEF HandledInv, Wire
    <3> QED BY <1>1, <1>5, <2>7, <3>1 DEF HandledInv, Wire
  <2>12. Covered'
    BY <1>1, <1>3, <1>5, <2>2 DEF HandledInv, Covered
  <2>13. SettledAfterHandling'
    BY <1>1, <1>5, <2>4 DEF HandledInv, SettledAfterHandling
  <2>14. \A d \in ToSet(unsettled') : Waits(d)'
    BY <1>1, <2>2, <2>7 DEF HandledInv, Waits
  <2> QED BY <2>2, <2>8, <2>9, <2>10, <2>11, <2>12, <2>13, <2>14 DEF HandledInv
<1> QED BY <1>1, <1>2, <1>5

\* The callback gets the delivery that is next.
LEMMA OnMessageKeeps ==
    ASSUME HandledInv, OnMessage
    PROVE  HandledInv'
<1> DEFINE d == Head(inbound)
           n == Len(inbound)
<1>1. /\ channel # "closed" /\ context = NoContext /\ inbound # <<>>
      /\ context' = NewContext(d)
      /\ called' = called \cup {d.msg}
      /\ inbound' = Tail(inbound)
      /\ UNCHANGED <<noAck, queue, unsettled, tags, seen, acked, discarded, unknownTag, outbound,
                     channel, sessions, kept, done, refused, misused>>
  BY DEF OnMessage, brokerVars
<1>2. inbound \in Seq(AnyDelivery) /\ tags \in Nat /\ n \in Nat /\ n <= tags
  BY LenProperties DEF HandledInv, BrokerTypes, ClientTypes, Wire
<1>3. /\ n > 0 /\ d \in AnyDelivery /\ d = inbound[1] /\ 1 \in DOMAIN inbound
      /\ DOMAIN inbound = 1..n /\ DOMAIN inbound' = 1..(n - 1)
      /\ inbound' \in Seq(AnyDelivery) /\ Len(inbound') = n - 1
      /\ \A i \in 1..(n - 1) : inbound'[i] = inbound[i + 1]
  BY <1>1, <1>2, HeadTailProperties, EmptySeq, LenProperties
<1> HIDE DEF d, n
<1>4. Delivered' = Delivered + 1 /\ Delivered \in Nat /\ Delivered + n = tags
  BY <1>1, <1>2, <1>3 DEF Delivered, n
<1>5. /\ context' \in AnyContext /\ context' # NoContext
      /\ context'.tag = d.tag /\ context'.msg = d.msg
      /\ d.tag = Delivered + 1 /\ d.msg \in Messages
  <2>1. context' \in AnyContext /\ context' # NoContext
    BY <1>1, <1>3, ContextIsOne
  <2>2. d.tag = Delivered + 1
    BY <1>3 DEF HandledInv, Wire
  <2> QED BY <1>1, <1>3, <2>1, <2>2 DEF NewContext, AnyDelivery
<1>6. BrokerTypes'
  BY <1>1 DEF HandledInv, BrokerTypes
<1>7. ClientTypes'
  BY <1>1, <1>3, <1>5 DEF HandledInv, ClientTypes
<1>8. Closed' /\ Ordered(unsettled') /\ Covered' /\ SettledAfterHandling'
  BY <1>1 DEF HandledInv, Closed, Ordered, Covered, SettledAfterHandling
<1>9. Wire'
  <2>1. \A i \in 1..(n - 1) : inbound'[i].tag = Delivered + 1 + i
    <3>1. \A i \in 1..(n - 1) : i + 1 \in 1..n /\ Delivered + (i + 1) = Delivered + 1 + i
      BY <1>2, <1>4
    <3> QED BY <1>3, <3>1 DEF HandledInv, Wire
  <2>2. n - 1 <= tags
    BY <1>2
  <2>3. \A k \in kept : k.tag <= Delivered + 1
    BY <1>4 DEF HandledInv, ClientTypes, Wire, AnyTag
  <2>4. \A i \in DOMAIN outbound : outbound[i].tag <= Delivered + 1
    BY <1>4, Positions DEF HandledInv, Wire, AnyFrame, AnyTag
  <2> QED BY <1>1, <1>3, <1>4, <1>5, <2>1, <2>2, <2>3, <2>4 DEF Wire
<1>10. ASSUME NEW e \in ToSet(unsettled)
       PROVE  Waits(e)'
  <2>1. Waits(e) /\ e.tag \in Nat /\ e.tag <= tags
    BY Positions DEF HandledInv, Waits
  <2>2. CASE e.tag <= Delivered
    BY <1>1, <1>4, <2>1, <2>2 DEF Waits
  <2>3. CASE e.tag = Delivered + 1
    <3>1. e.tag > Delivered /\ e.tag - Delivered = 1
      BY <1>4, <2>3
    <3>2. e = d
      BY <1>3, <2>1, <3>1 DEF Waits
    <3> QED BY <1>1, <1>4, <1>5, <2>1, <2>3, <3>2 DEF Waits
  <2>4. CASE e.tag > Delivered + 1
    <3>1. /\ e.tag > Delivered
          /\ e.tag - (Delivered + 1) \in 1..(n - 1)
          /\ e.tag - Delivered = (e.tag - (Delivered + 1)) + 1
      BY <1>2, <1>4, <2>1, <2>4
    <3>2. inbound'[e.tag - (Delivered + 1)] = e
      BY <1>3, <2>1, <3>1 DEF Waits
    <3>3. ~(e.tag <= Delivered + 1)
      BY <1>4, <2>1, <2>4
    <3> QED BY <1>1, <1>4, <2>1, <3>2, <3>3 DEF Waits
  <2> QED BY <1>4, <2>1, <2>2, <2>3, <2>4
<1> QED BY <1>1, <1>6, <1>7, <1>8, <1>9, <1>10 DEF HandledInv

\* The channel is closed for the client too: nothing arrives any more.
LEMMA CloseSeenKeeps ==
    ASSUME HandledInv, CloseSeen
    PROVE  HandledInv'
<1>1. /\ channel = "closing" /\ context = NoContext /\ channel' = "closed" /\ inbound' = <<>>
      /\ UNCHANGED <<noAck, queue, unsettled, tags, seen, acked, discarded, unknownTag, outbound,
                     sessions, context, kept, done, called, refused, misused>>
  BY DEF CloseSeen, brokerVars, historyVars
<1>2. unsettled = <<>> /\ outbound = <<>>
  BY <1>1 DEF HandledInv, Closed
<1>3. /\ ToSet(unsettled) = {} /\ DOMAIN outbound = {} /\ DOMAIN inbound' = {}
      /\ Len(inbound') = 0 /\ DOMAIN unsettled = {}
  BY <1>1, <1>2 DEF ToSet
<1>4. Delivered' = tags /\ tags \in Nat /\ Delivered <= tags /\ Delivered \in Nat
  BY <1>1, <1>3, Positions DEF Delivered
<1>5. BrokerTypes'
  BY <1>1 DEF HandledInv, BrokerTypes
<1>6. ClientTypes'
  BY <1>1 DEF HandledInv, ClientTypes
<1>7. Closed' /\ Ordered(unsettled') /\ Covered' /\ SettledAfterHandling'
  BY <1>1, <1>2, <1>3 DEF HandledInv, Closed, Ordered, Covered, SettledAfterHandling
<1>8. Wire'
  <2>1. \A k \in kept : k.tag <= tags
    BY <1>4 DEF HandledInv, ClientTypes, Wire, AnyTag
  <2> QED BY <1>1, <1>3, <1>4, <2>1 DEF Wire
<1> QED BY <1>1, <1>3, <1>5, <1>6, <1>7, <1>8 DEF HandledInv

\* A new client starts with nothing of the old one.
LEMMA ResubscribeKeeps ==
    ASSUME HandledInv, Resubscribe
    PROVE  HandledInv'
<1>1. /\ channel = "closed" /\ channel' = "open" /\ tags' = 0 /\ kept' = {}
      /\ sessions < MaxSessions /\ sessions' = sessions + 1
      /\ UNCHANGED <<noAck, queue, unsettled, seen, acked, discarded, unknownTag, inbound,
                     outbound, context, done, called, refused, misused>>
  BY DEF Resubscribe, historyVars
<1>2. unsettled = <<>> /\ outbound = <<>> /\ inbound = <<>> /\ context = NoContext
  BY <1>1 DEF HandledInv, Closed
<1>3. /\ ToSet(unsettled) = {} /\ DOMAIN outbound = {} /\ DOMAIN inbound = {}
      /\ Len(inbound) = 0 /\ DOMAIN unsettled = {}
  BY <1>2 DEF ToSet
<1>4. Delivered' = 0
  BY <1>1, <1>3 DEF Delivered
<1>5. BrokerTypes'
  BY <1>1 DEF HandledInv, BrokerTypes
<1>6. ClientTypes'
  BY <1>1, DeliveryAssumption DEF HandledInv, ClientTypes
<1>7. Closed' /\ Ordered(unsettled') /\ Covered' /\ SettledAfterHandling'
  BY <1>1, <1>2, <1>3 DEF HandledInv, Closed, Ordered, Covered, SettledAfterHandling
<1>8. Wire'
  BY <1>1, <1>2, <1>3, <1>4 DEF Wire
<1> QED BY <1>1, <1>3, <1>5, <1>6, <1>7, <1>8 DEF HandledInv

LEMMA HandledInitial == Init => HandledInv
<1> SUFFICES ASSUME Init PROVE HandledInv
  OBVIOUS
<1> USE DEF Init
<1>1. SetToSeq(Messages) \in Seq(Messages)
  <2>1. Cardinality(Messages) \in Nat
    BY DeliveryAssumption, FS_CardinalityType
  <2>2. \E f \in [1..Cardinality(Messages) -> Messages] : IsInjective(f)
    BY DeliveryAssumption, FS_CardinalityType DEF ExistsBijection, Bijection, Injection
  <2>3. SetToSeq(Messages) \in [1..Cardinality(Messages) -> Messages]
    BY <2>2 DEF SetToSeq
  <2> QED BY <2>1, <2>3
<1>2. /\ ToSet(unsettled) = {} /\ DOMAIN outbound = {} /\ DOMAIN inbound = {}
      /\ Len(inbound) = 0 /\ Len(unsettled) = 0 /\ DOMAIN unsettled = {}
  BY DEF ToSet
<1>3. BrokerTypes
  <2>1. noAck \in BOOLEAN /\ unknownTag \in BOOLEAN
    BY DeliveryAssumption
  <2>2. Len(unsettled) <= Prefetch /\ tags \in Nat /\ unsettled \in Seq(AnyDelivery)
    BY <1>2, DeliveryAssumption
  <2>3. queue \in Seq(Messages) /\ seen \cup acked \cup discarded \subseteq Messages
    BY <1>1
  <2> QED BY <2>1, <2>2, <2>3 DEF BrokerTypes
<1>4. ClientTypes
  <2>1. sessions \in 1..MaxSessions
    BY DeliveryAssumption
  <2>2. inbound \in Seq(AnyDelivery) /\ outbound \in Seq(AnyFrame)
    OBVIOUS
  <2>3. misused \in BOOLEAN /\ done \cup called \cup refused \subseteq Messages
    OBVIOUS
  <2>4. channel = "open" /\ context = NoContext /\ kept = {}
    OBVIOUS
  <2> QED BY ONLY <2>1, <2>2, <2>3, <2>4 DEF ClientTypes
<1>5. Closed /\ Ordered(unsettled) /\ Covered /\ SettledAfterHandling
  BY <1>2 DEF Closed, Ordered, Covered, SettledAfterHandling
<1>6. Wire
  BY <1>2 DEF Wire, Delivered
<1> QED BY <1>2, <1>3, <1>4, <1>5, <1>6 DEF HandledInv

LEMMA HandledStep == HandledInv /\ [Next]_vars => HandledInv'
<1> SUFFICES ASSUME HandledInv, [Next]_vars PROVE HandledInv'
  OBVIOUS
<1>1. CASE Push
  BY <1>1, PushKeeps
<1>2. CASE Settle
  BY <1>2, SettleKeeps
<1>3. CASE ConnectionLost
  BY <1>3, BrokerClosesKeeps DEF ConnectionLost, historyVars, HandledInv, BrokerTypes
<1>4. CASE \E multiple \in BOOLEAN : Acknowleged(multiple)
  BY <1>4, AcknowlegedKeeps
<1>5. CASE \E requeue, multiple \in BOOLEAN : Reject(requeue, multiple)
  BY <1>5, RejectKeeps
<1>6. CASE Keep
  BY <1>6, KeepKeeps
<1>7. CASE \E k \in kept : AcknowlegeKept(k)
  BY <1>7, AcknowlegeKeptKeeps
<1>8. CASE OnMessage
  BY <1>8, OnMessageKeeps
<1>9. CASE CallbackReturn
  BY <1>9, CallbackReturnKeeps
<1>10. CASE CloseSeen
  BY <1>10, CloseSeenKeeps
<1>11. CASE Resubscribe
  BY <1>11, ResubscribeKeeps
<1>12. CASE UNCHANGED vars
  <2>1. UNCHANGED <<noAck, queue, unsettled, tags, seen, acked, discarded, unknownTag, inbound,
                    outbound, channel, sessions, context, kept, done, called, refused, misused>>
    BY <1>12 DEF vars, brokerVars, wireVars, historyVars
  <2> QED BY <2>1 DEF HandledInv, BrokerTypes, ClientTypes, Closed, Wire, Delivered, Ordered,
                      Covered, SettledAfterHandling, Waits
<1> QED BY <1>1, <1>2, <1>3, <1>4, <1>5, <1>6, <1>7, <1>8, <1>9, <1>10, <1>11, <1>12 DEF Next

\* Where a delivery, a context and an acknowledgement can be, and that only handled messages are
\* acknowledged: the invariant the others rest on.
THEOREM DeliveryInvariant == Spec => []HandledInv
BY HandledInitial, HandledStep, PTL DEF Spec

\* At least once: without noack the broker takes for done only messages that a callback returned
\* from or acknowledged, for any use of the contexts and whatever is lost.
THEOREM HandledFirst == Spec => []SettledAfterHandling
<1>1. HandledInv => SettledAfterHandling
  BY DEF HandledInv
<1> QED BY <1>1, DeliveryInvariant, PTL

\* A sequence whose elements are all in a smaller set.
LEMMA SeqOfSubset ==
    ASSUME NEW S, NEW s \in Seq(S), NEW T, \A e \in ToSet(s) : e \in T
    PROVE  s \in Seq(T)
<1>1. Len(s) \in Nat /\ DOMAIN s = 1..Len(s) /\ \A i \in 1..Len(s) : s[i] \in T
  BY Elements
<1>2. s = [i \in 1..Len(s) |-> s[i]]
  BY <1>1, SeqDef
<1> QED BY <1>1, <1>2

\* The type invariant of a subscription.
THEOREM DeliveryTypes == Spec => []TypeOK
<1>1. HandledInv => TypeOK
  <2> SUFFICES ASSUME HandledInv PROVE TypeOK
    OBVIOUS
  <2>1. /\ unsettled \in Seq(AnyDelivery) /\ inbound \in Seq(AnyDelivery)
        /\ outbound \in Seq(AnyFrame) /\ tags \in Nat
    BY DEF HandledInv, BrokerTypes, ClientTypes
  <2>2. \A t \in AnyTag : t <= tags => t \in Used
    BY <2>1 DEF AnyTag, Used
  <2>3. \A d \in AnyDelivery : d.tag <= tags => d \in Deliveries
    BY <2>2 DEF AnyDelivery, Deliveries
  <2>4. unsettled \in Seq(Deliveries)
    <3>1. \A d \in ToSet(unsettled) : d \in Deliveries
      BY <2>3, Positions DEF HandledInv, Waits
    <3> QED BY <2>1, <3>1, SeqOfSubset
  <2>5. inbound \in Seq(Deliveries)
    <3>1. \A i \in DOMAIN inbound : inbound[i].tag <= tags
      BY Positions DEF HandledInv, Wire
    <3>2. \A d \in ToSet(inbound) : d \in Deliveries
      BY <2>1, <2>3, <3>1, Elements
    <3> QED BY <2>1, <3>2, SeqOfSubset
  <2>6. outbound \in Seq(Frames)
    <3>1. \A i \in DOMAIN outbound : outbound[i].tag \in AnyTag /\ outbound[i].tag <= tags
      BY Positions DEF HandledInv, Wire, AnyFrame, AnyTag
    <3>2. \A g \in AnyFrame : g.tag \in Used => g \in Frames
      BY DEF AnyFrame, Frames
    <3>3. \A g \in ToSet(outbound) : g \in Frames
      BY <2>1, <2>2, <3>1, <3>2, Elements
    <3> QED BY <2>1, <3>3, SeqOfSubset
  <2>7. context \in Contexts \cup {NoContext}
    <3>1. CASE context # NoContext
      <4>1. context \in AnyContext /\ context.tag \in Used
        BY <2>2, <3>1, InProgress, Positions
      <4> QED BY <4>1 DEF AnyContext, Contexts
    <3> QED BY <3>1
  <2>8. kept \subseteq [tag : Used, settled : BOOLEAN]
    <3>1. \A k \in kept : k \in [tag : AnyTag, settled : BOOLEAN] /\ k.tag <= tags
      BY Positions DEF HandledInv, ClientTypes, Wire, AnyTag
    <3> QED BY <2>2, <3>1
  <2> QED BY <2>1, <2>4, <2>5, <2>6, <2>7, <2>8
          DEF TypeOK, HandledInv, BrokerTypes, ClientTypes
<1> QED BY <1>1, DeliveryInvariant, PTL

-----------------------------------------------------------------------------
(* No tag is settled twice.                                                *)

\* A use of a context that is not a misuse sends at most one acknowledgement, which settles it.
LEMMA HonestUse ==
    ASSUME HandledInv, HonestInv,
           UNCHANGED <<noAck, unsettled, unknownTag, inbound, channel>>,
           \/ /\ outbound' = outbound
              /\ \/ context' = NoContext
                 \/ /\ context # NoContext /\ context'.tag = context.tag
                    /\ context'.settled = context.settled
           \/ /\ context # NoContext /\ ~noAck /\ ~context.settled
              /\ \E multiple \in BOOLEAN : Send(AckFrame(context.tag, multiple))
              /\ context' = NoContext \/ context'.settled
    PROVE  HonestInv'
<1>1. CASE outbound' = outbound
  <2>1. Expected' = Expected
    BY DEF Expected
  <2>2. /\ ~unknownTag' /\ (noAck' => outbound' = <<>>) /\ Ordered(outbound')
        /\ \A i \in DOMAIN outbound' : outbound'[i].tag \in Expected'
        /\ ~noAck' /\ channel' = "open" => \A i \in DOMAIN inbound' : inbound'[i].tag \in Expected'
    BY <1>1, <2>1 DEF HonestInv
  <2>3. ~noAck' /\ channel' = "open" /\ context' # NoContext /\ ~context'.settled =>
            context'.tag \in Expected' /\ \A i \in DOMAIN outbound' : outbound'[i].tag < context'.tag
    BY <1>1, <2>1 DEF HonestInv
  <2> QED BY <2>2, <2>3 DEF HonestInv
<1>2. CASE outbound' # outbound
  <2>1. /\ channel = "open" /\ context # NoContext /\ ~noAck /\ ~context.settled
        /\ context' = NoContext \/ context'.settled
    BY <1>2 DEF Send
  <2>2. PICK multiple \in BOOLEAN : outbound' = Append(outbound, AckFrame(context.tag, multiple))
    BY <1>2 DEF Send
  <2> DEFINE f == AckFrame(context.tag, multiple)
  <2>3. f \in AnyFrame /\ f.tag = context.tag
    BY <2>1, InProgress DEF AckFrame, AnyFrame
  <2> HIDE DEF f
  <2>4. context.tag \in Expected /\ \A i \in DOMAIN outbound : outbound[i].tag < f.tag
    BY <2>1, <2>3 DEF HonestInv
  <2>5. outbound \in Seq(AnyFrame) /\ outbound' = Append(outbound, f)
    BY <2>2 DEF HandledInv, ClientTypes, f
  <2>6. Ordered(outbound')
    BY <2>3, <2>4, <2>5, OrderedAppend DEF HonestInv
  <2>7. \A i \in DOMAIN outbound' : outbound'[i] = f \/ (i \in DOMAIN outbound /\ outbound'[i] = outbound[i])
    <3>1. /\ DOMAIN outbound' = 1..(Len(outbound) + 1) /\ Len(outbound) \in Nat
          /\ DOMAIN outbound = 1..Len(outbound)
          /\ outbound'[Len(outbound) + 1] = f
          /\ \A k \in 1..Len(outbound) : outbound'[k] = outbound[k]
      BY <2>3, <2>5, AppendProperties, LenProperties
    <3> QED BY <3>1
  <2>8. Expected' = Expected
    BY DEF Expected
  <2>9. \A i \in DOMAIN outbound' : outbound'[i].tag \in Expected'
    BY <2>3, <2>4, <2>7, <2>8 DEF HonestInv
  <2> QED BY <2>1, <2>6, <2>8, <2>9 DEF HonestInv
<1> QED BY <1>1, <1>2

LEMMA UsesOnce ==
    ASSUME HandledInv, OnceInv,
           \/ \E multiple \in BOOLEAN : Acknowleged(multiple)
           \/ \E requeue, multiple \in BOOLEAN : Reject(requeue, multiple)
           \/ Keep
           \/ \E k \in kept : AcknowlegeKept(k)
           \/ CallbackReturn
    PROVE  OnceInv'
<1> SUFFICES ASSUME ~misused' PROVE HonestInv'
  BY DEF OnceInv
<1>1. misused \in BOOLEAN /\ noAck \in BOOLEAN
  BY DEF HandledInv, ClientTypes, BrokerTypes
<1>2. ASSUME NEW multiple \in BOOLEAN, Acknowleged(multiple)
      PROVE  HonestInv'
  <2>1. /\ context # NoContext /\ ~context.settled
        /\ Send(AckFrame(context.tag, multiple))
        /\ context' = [context EXCEPT !.settled = TRUE, !.calls = @ + 1]
        /\ misused' = (misused \/ noAck)
        /\ UNCHANGED <<noAck, unsettled, unknownTag, inbound, channel>>
    BY <1>2 DEF Acknowleged, Calling, brokerVars
  <2>2. context'.settled = TRUE
    BY <2>1, InProgress DEF AnyContext
  <2>3. HonestInv /\ ~noAck
    BY <1>1, <2>1 DEF OnceInv
  <2> QED BY <2>1, <2>2, <2>3, HonestUse
<1>3. ASSUME NEW requeue \in BOOLEAN, NEW multiple \in BOOLEAN, Reject(requeue, multiple)
      PROVE  HonestInv'
  <2>1. /\ context # NoContext /\ outbound' = outbound
        /\ context' = [context EXCEPT !.calls = @ + 1]
        /\ misused' = misused
        /\ UNCHANGED <<noAck, unsettled, unknownTag, inbound, channel>>
    BY <1>3 DEF Reject, Calling, brokerVars
  <2>2. context'.settled = context.settled /\ context'.tag = context.tag
    BY <2>1, InProgress DEF AnyContext
  <2> QED BY <2>1, <2>2, HonestUse DEF OnceInv
<1>4. ASSUME Keep
      PROVE  HonestInv'
  <2>1. /\ context # NoContext /\ outbound' = outbound
        /\ context' = [context EXCEPT !.calls = @ + 1]
        /\ misused' = misused
        /\ UNCHANGED <<noAck, unsettled, unknownTag, inbound, channel>>
    BY <1>4 DEF Keep, Calling, brokerVars, wireVars, historyVars
  <2>2. context'.settled = context.settled /\ context'.tag = context.tag
    BY <2>1, InProgress DEF AnyContext
  <2> QED BY <2>1, <2>2, HonestUse DEF OnceInv
<1>5. ASSUME NEW k \in kept, AcknowlegeKept(k)
      PROVE  HonestInv'
  BY <1>5 DEF AcknowlegeKept
<1>6. ASSUME CallbackReturn
      PROVE  HonestInv'
  <2>1. /\ context # NoContext /\ context' = NoContext
        /\ outbound' = outbound \/ (~noAck /\ ~context.settled /\ Send(AckFrame(context.tag, FALSE)))
        /\ misused' = misused
        /\ UNCHANGED <<noAck, unsettled, unknownTag, inbound, channel>>
    BY <1>6 DEF CallbackReturn, AckOwed, AckTag, brokerVars
  <2> QED BY <2>1, HonestUse DEF OnceInv
<1> QED BY <1>2, <1>3, <1>4, <1>5, <1>6

LEMMA PushOnce ==
    ASSUME HandledInv, OnceInv, Push
    PROVE  OnceInv'
<1> DEFINE d == [tag |-> tags + 1, msg |-> Head(queue), again |-> Head(queue) \in seen]
<1>1. /\ inbound' = Append(inbound, d)
      /\ unsettled' = IF noAck THEN unsettled ELSE Append(unsettled, d)
      /\ tags' = tags + 1
      /\ UNCHANGED <<noAck, unknownTag, outbound, channel, context, misused>>
  BY DEF Push, historyVars
<1>2. /\ d \in AnyDelivery
      /\ inbound \in Seq(AnyDelivery) /\ unsettled \in Seq(AnyDelivery)
  <2>1. Head(queue) \in Messages
    BY HeadTailProperties DEF Push, HandledInv, BrokerTypes
  <2> QED BY <2>1, Positions DEF AnyDelivery, AnyTag, HandledInv, BrokerTypes, ClientTypes
<1> HIDE DEF d
<1> SUFFICES ASSUME HonestInv PROVE HonestInv'
  BY <1>1 DEF OnceInv
<1>3. ~noAck => ToSet(unsettled') = ToSet(unsettled) \cup {d}
  BY <1>1, <1>2, ToSetAppend
<1>4. Expected \subseteq Expected'
  <2>1. ToSet(unsettled) \subseteq ToSet(unsettled')
    BY <1>1, <1>3
  <2> QED BY <2>1 DEF Expected
<1>5. \A i \in DOMAIN inbound' : inbound'[i] = d \/ (i \in DOMAIN inbound /\ inbound'[i] = inbound[i])
  <2>1. /\ DOMAIN inbound' = 1..(Len(inbound) + 1) /\ Len(inbound) \in Nat
        /\ DOMAIN inbound = 1..Len(inbound)
        /\ inbound'[Len(inbound) + 1] = d
        /\ \A k \in 1..Len(inbound) : inbound'[k] = inbound[k]
    BY <1>1, <1>2, AppendProperties, LenProperties
  <2> QED BY <2>1
<1>6. ~noAck /\ channel = "open" => \A i \in DOMAIN inbound' : inbound'[i].tag \in Expected'
  <2>1. ~noAck => d.tag \in Expected'
    BY <1>3 DEF Expected
  <2> QED BY <1>4, <1>5, <2>1 DEF HonestInv
<1>7. \A i \in DOMAIN outbound' : outbound'[i].tag \in Expected'
  BY <1>1, <1>4 DEF HonestInv
<1>8. ~noAck /\ channel = "open" /\ context # NoContext /\ ~context.settled =>
          context.tag \in Expected' /\ \A i \in DOMAIN outbound : outbound[i].tag < context.tag
  BY <1>4 DEF HonestInv
<1>9. ~unknownTag /\ (noAck => outbound = <<>>) /\ Ordered(outbound)
  BY DEF HonestInv
<1> QED BY <1>1, <1>6, <1>7, <1>8, <1>9 DEF HonestInv

LEMMA SettleOnce ==
    ASSUME HandledInv, OnceInv, Settle
    PROVE  OnceInv'
<1> DEFINE f == Head(outbound)
           at == {i \in DOMAIN unsettled : unsettled[i].tag = f.tag}
<1>1. /\ channel = "open" /\ outbound # <<>>
      /\ UNCHANGED <<noAck, tags, inbound, context, misused>>
      /\ \/ \E i \in at : /\ unsettled' = Rest(unsettled, i, f.multiple)
                          /\ outbound' = Tail(outbound)
                          /\ UNCHANGED <<channel, unknownTag>>
         \/ at = {}
  BY DEF Settle, Rest, historyVars
<1> SUFFICES ASSUME HonestInv PROVE HonestInv'
  BY <1>1 DEF OnceInv
<1>2. /\ outbound \in Seq(AnyFrame) /\ unsettled \in Seq(AnyDelivery) /\ Ordered(unsettled)
  BY DEF HandledInv, ClientTypes, BrokerTypes
<1>3. /\ f \in AnyFrame /\ f = outbound[1] /\ 1 \in DOMAIN outbound
      /\ Tail(outbound) \in Seq(AnyFrame)
      /\ \A k \in DOMAIN Tail(outbound) :
             k + 1 \in DOMAIN outbound /\ Tail(outbound)[k] = outbound[k + 1]
  <2>1. /\ Len(outbound) \in Nat /\ Len(outbound) > 0 /\ DOMAIN outbound = 1..Len(outbound)
        /\ f \in AnyFrame /\ f = outbound[1] /\ Tail(outbound) \in Seq(AnyFrame)
        /\ Len(Tail(outbound)) = Len(outbound) - 1
        /\ \A k \in 1..(Len(outbound) - 1) : Tail(outbound)[k] = outbound[k + 1]
    BY <1>1, <1>2, HeadTailProperties, EmptySeq, LenProperties
  <2>2. DOMAIN Tail(outbound) = 1..(Len(outbound) - 1)
    BY <2>1, LenProperties
  <2> HIDE DEF f
  <2> QED BY <2>1, <2>2
<1>4. Ordered(Tail(outbound)) /\ \A k \in DOMAIN Tail(outbound) : f.tag < Tail(outbound)[k].tag
  BY <1>1, <1>2, OrderedTail DEF HonestInv
<1>5. at # {}
  <2>1. \E d \in ToSet(unsettled) : d.tag = f.tag
    BY <1>3 DEF HonestInv, Expected
  <2> QED BY <1>2, <2>1, Elements
<1>6. f.multiple \in BOOLEAN /\ f.tag \in Nat
  BY <1>3 DEF AnyFrame, AnyTag
<1> HIDE DEF f
<1>7. PICK i \in at : /\ unsettled' = Rest(unsettled, i, f.multiple)
                      /\ outbound' = Tail(outbound)
                      /\ UNCHANGED <<channel, unknownTag>>
  BY <1>1, <1>5
<1>8. \A d \in ToSet(unsettled) : d.tag > f.tag => d \in ToSet(unsettled')
  BY <1>2, <1>6, <1>7, SettledParts
<1> HIDE DEF at
<1>9. ~noAck
  BY <1>1 DEF HonestInv
<1>10. \A tag \in Nat : tag \in Expected /\ f.tag < tag => tag \in Expected'
  BY <1>6, <1>8 DEF Expected
<1>11. \A k \in DOMAIN outbound' : outbound'[k].tag \in Expected'
  <2>1. ASSUME NEW k \in DOMAIN outbound'
        PROVE  outbound'[k].tag \in Expected'
    <3>1. /\ k + 1 \in DOMAIN outbound /\ outbound'[k] = outbound[k + 1]
          /\ f.tag < outbound'[k].tag
      BY <1>3, <1>4, <1>7, <2>1
    <3>2. outbound'[k].tag \in Nat /\ outbound'[k].tag \in Expected
      BY <3>1, Positions DEF HonestInv, AnyFrame, AnyTag
    <3> QED BY <1>10, <3>1, <3>2
  <2> QED BY <2>1
<1>12. \A k \in DOMAIN inbound : inbound[k].tag \in Expected'
  <2>1. ASSUME NEW k \in DOMAIN inbound
        PROVE  inbound[k].tag \in Expected'
    <3>1. inbound[k].tag \in Expected /\ inbound[k].tag \in Nat
      BY <1>1, <1>9, Positions DEF HonestInv, AnyDelivery, AnyTag
    <3>2. inbound[k].tag = Delivered + k /\ f.tag <= Delivered /\ k > 0
      BY <1>3, Positions DEF HandledInv, Wire
    <3>3. f.tag < inbound[k].tag
      BY <1>6, <3>1, <3>2, Positions
    <3> QED BY <1>10, <3>1, <3>3
  <2> QED BY <2>1
<1>13. context # NoContext /\ ~context.settled =>
           context.tag \in Expected' /\ \A k \in DOMAIN outbound' : outbound'[k].tag < context.tag
  <2> SUFFICES ASSUME context # NoContext, ~context.settled
               PROVE  context.tag \in Expected' /\ \A k \in DOMAIN outbound' : outbound'[k].tag < context.tag
    OBVIOUS
  <2>1. context.tag \in Expected /\ \A k \in DOMAIN outbound : outbound[k].tag < context.tag
    BY <1>1, <1>9 DEF HonestInv
  <2>2. context.tag \in Nat
    BY InProgress DEF AnyTag
  <2> QED BY <1>3, <1>7, <1>10, <2>1, <2>2
<1> QED BY <1>1, <1>4, <1>7, <1>9, <1>11, <1>12, <1>13 DEF HonestInv

\* A channel that closes.
LEMMA ClosedOnce ==
    ASSUME HandledInv, OnceInv, ConnectionLost \/ CloseSeen
    PROVE  OnceInv'
<1>1. /\ UNCHANGED <<noAck, unknownTag, misused>> /\ channel' # "open" /\ outbound' = <<>>
  BY DEF ConnectionLost, BrokerCloses, CloseSeen, brokerVars, historyVars, HandledInv, Closed
<1>2. DOMAIN outbound' = {} /\ Ordered(outbound')
  BY <1>1 DEF Ordered
<1> QED BY <1>1, <1>2 DEF OnceInv, HonestInv

LEMMA OnMessageOnce ==
    ASSUME HandledInv, OnceInv, OnMessage
    PROVE  OnceInv'
<1> DEFINE d == Head(inbound)
<1>1. /\ inbound # <<>> /\ context' = NewContext(d) /\ inbound' = Tail(inbound)
      /\ UNCHANGED <<noAck, unsettled, unknownTag, outbound, channel, misused>>
  BY DEF OnMessage, brokerVars
<1> SUFFICES ASSUME HonestInv PROVE HonestInv'
  BY <1>1 DEF OnceInv
<1>2. /\ d = inbound[1] /\ 1 \in DOMAIN inbound
      /\ \A k \in DOMAIN inbound' : k + 1 \in DOMAIN inbound /\ inbound'[k] = inbound[k + 1]
  <2>1. inbound \in Seq(AnyDelivery)
    BY DEF HandledInv, ClientTypes
  <2>2. /\ Len(inbound) \in Nat /\ Len(inbound) > 0 /\ DOMAIN inbound = 1..Len(inbound)
        /\ d = inbound[1]
        /\ DOMAIN inbound' = 1..(Len(inbound) - 1)
        /\ \A k \in 1..(Len(inbound) - 1) : inbound'[k] = inbound[k + 1]
    BY <1>1, <2>1, HeadTailProperties, EmptySeq, LenProperties
  <2> HIDE DEF d
  <2> QED BY <2>2
<1> HIDE DEF d
<1>3. Expected' = Expected
  BY <1>1 DEF Expected
<1>4. context'.tag = d.tag
  BY <1>1 DEF NewContext
<1>5. \A i \in DOMAIN outbound : outbound[i].tag < d.tag
  <2>1. d.tag = Delivered + 1
    BY <1>2 DEF HandledInv, Wire
  <2>2. \A i \in DOMAIN outbound : outbound[i].tag \in Nat /\ outbound[i].tag <= Delivered
    BY Positions DEF HandledInv, Wire, AnyFrame, AnyTag
  <2> QED BY <2>1, <2>2, Positions
<1>6. ~noAck /\ channel = "open" =>
          d.tag \in Expected /\ \A k \in DOMAIN inbound' : inbound'[k].tag \in Expected
  BY <1>2 DEF HonestInv
<1>7. /\ ~unknownTag /\ (noAck => outbound = <<>>) /\ Ordered(outbound)
      /\ \A i \in DOMAIN outbound : outbound[i].tag \in Expected
  BY DEF HonestInv
<1> QED BY <1>1, <1>3, <1>4, <1>5, <1>6, <1>7 DEF HonestInv

LEMMA ResubscribeOnce ==
    ASSUME HandledInv, OnceInv, Resubscribe
    PROVE  OnceInv'
<1>1. /\ channel = "closed"
      /\ UNCHANGED <<noAck, unsettled, unknownTag, inbound, outbound, context, misused>>
  BY DEF Resubscribe, historyVars
<1>2. outbound' = <<>> /\ inbound' = <<>> /\ context' = NoContext
  BY <1>1 DEF HandledInv, Closed
<1>3. DOMAIN outbound' = {} /\ DOMAIN inbound' = {} /\ Ordered(outbound')
  BY <1>2 DEF Ordered
<1> QED BY <1>1, <1>2, <1>3 DEF OnceInv, HonestInv

LEMMA OnceStep == HandledInv /\ OnceInv /\ [Next]_vars => OnceInv'
<1> SUFFICES ASSUME HandledInv, OnceInv, [Next]_vars PROVE OnceInv'
  OBVIOUS
<1>1. CASE UNCHANGED vars
  <2>1. UNCHANGED <<noAck, unsettled, unknownTag, inbound, outbound, channel, context, misused>>
    BY <1>1 DEF vars, brokerVars, wireVars, historyVars
  <2> QED BY <2>1 DEF OnceInv, HonestInv, Ordered, Expected
<1> QED BY <1>1, UsesOnce, PushOnce, SettleOnce, ClosedOnce, OnMessageOnce, ResubscribeOnce DEF Next

\* Unless the application misuses a context, the broker gets no tag that it does not wait for: the
\* client settles every tag once, and none with noack, whatever frames are under way.
THEOREM EachTagOnce == Spec => []SettledOnce
<1>1. Init => OnceInv
  <2> SUFFICES ASSUME Init PROVE OnceInv
    OBVIOUS
  <2>1. /\ outbound = <<>> /\ inbound = <<>> /\ context = NoContext /\ unknownTag = FALSE
    BY DEF Init
  <2>2. DOMAIN outbound = {} /\ DOMAIN inbound = {} /\ Ordered(outbound)
    BY <2>1 DEF Ordered
  <2> QED BY <2>1, <2>2 DEF OnceInv, HonestInv
<1>2. OnceInv => SettledOnce
  BY DEF OnceInv, HonestInv, SettledOnce
<1> QED BY <1>1, <1>2, OnceStep, DeliveryInvariant, PTL DEF Spec

-----------------------------------------------------------------------------
(* A duplicate is marked.                                                  *)

LEMMA PushMarked ==
    ASSUME HandledInv, MarkedInv, Push
    PROVE  MarkedInv'
<1> DEFINE m == Head(queue)
           d == [tag |-> tags + 1, msg |-> m, again |-> m \in seen]
           n == Len(inbound)
<1>1. /\ inbound' = Append(inbound, d) /\ seen' = seen \cup {m} /\ called' = called
      /\ d.msg = m /\ (~d.again => m \notin seen)
  BY DEF Push, historyVars
<1>2. d \in AnyDelivery /\ inbound \in Seq(AnyDelivery)
  <2>1. m \in Messages
    BY HeadTailProperties DEF Push, HandledInv, BrokerTypes
  <2> QED BY <2>1, Positions DEF AnyDelivery, AnyTag, HandledInv, ClientTypes
<1> HIDE DEF d
<1>3. /\ DOMAIN inbound' = 1..(n + 1) /\ n \in Nat /\ DOMAIN inbound = 1..n
      /\ inbound'[n + 1] = d
      /\ \A k \in 1..n : inbound'[k] = inbound[k]
  BY <1>1, <1>2, AppendProperties, LenProperties
<1> HIDE DEF n, m
<1>4. ASSUME NEW i \in 1..(n + 1)
      PROVE  /\ inbound'[i].msg \in seen'
             /\ ~inbound'[i].again =>
                    /\ inbound'[i].msg \notin called'
                    /\ \A j \in 1..(n + 1) : j < i => inbound'[j].msg # inbound'[i].msg
  <2>1. CASE i \in 1..n
    <3>1. \A j \in 1..(n + 1) : j < i => j \in 1..n
      BY <1>3, <2>1
    <3> QED BY <1>1, <1>3, <2>1, <3>1 DEF MarkedInv
  <2>2. CASE i = n + 1
    <3>1. \A j \in 1..(n + 1) : j < i => j \in 1..n
      BY <1>3, <2>2
    <3> QED BY <1>1, <1>3, <2>2, <3>1 DEF MarkedInv
  <2> QED BY <1>3, <2>1, <2>2
<1>5. called' \subseteq seen'
  BY <1>1 DEF MarkedInv
<1> QED BY <1>3, <1>4, <1>5 DEF MarkedInv

LEMMA OnMessageMarked ==
    ASSUME HandledInv, MarkedInv, OnMessage
    PROVE  /\ MarkedInv'
           /\ context'.msg \in called => context'.again
<1> DEFINE d == Head(inbound)
           n == Len(inbound)
<1>1. /\ inbound # <<>> /\ context' = NewContext(d) /\ inbound' = Tail(inbound)
      /\ called' = called \cup {d.msg} /\ seen' = seen
  BY DEF OnMessage, brokerVars
<1>2. /\ n \in Nat /\ n > 0 /\ DOMAIN inbound = 1..n /\ DOMAIN inbound' = 1..(n - 1)
      /\ d = inbound[1] /\ 1 \in 1..n /\ d \in AnyDelivery
      /\ \A k \in 1..(n - 1) : inbound'[k] = inbound[k + 1]
  <2>1. inbound \in Seq(AnyDelivery)
    BY DEF HandledInv, ClientTypes
  <2> QED BY <1>1, <2>1, HeadTailProperties, EmptySeq, LenProperties
<1>3. context'.msg = d.msg /\ context'.again = d.again /\ d.again \in BOOLEAN
  BY <1>1, <1>2 DEF NewContext, AnyDelivery
<1> HIDE DEF d, n
<1>4. d.msg \in seen /\ (~d.again => d.msg \notin called)
  BY <1>2 DEF MarkedInv
<1>5. ASSUME NEW i \in 1..(n - 1)
      PROVE  /\ inbound'[i].msg \in seen'
             /\ ~inbound'[i].again =>
                    /\ inbound'[i].msg \notin called'
                    /\ \A j \in 1..(n - 1) : j < i => inbound'[j].msg # inbound'[i].msg
  <2>1. i + 1 \in 1..n /\ 1 < i + 1
    BY <1>2
  <2>2. \A j \in 1..(n - 1) : j < i => j + 1 \in 1..n /\ j + 1 < i + 1
    BY <1>2
  <2>3. ~inbound[i + 1].again =>
            /\ inbound[i + 1].msg \notin called /\ inbound[i + 1].msg # d.msg
            /\ \A j \in 1..(n - 1) : j < i => inbound[j + 1].msg # inbound[i + 1].msg
    BY <1>2, <2>1, <2>2 DEF MarkedInv
  <2> QED BY <1>1, <1>2, <2>1, <2>3 DEF MarkedInv
<1>6. called' \subseteq seen'
  BY <1>1, <1>4 DEF MarkedInv
<1>7. MarkedInv'
  BY <1>2, <1>5, <1>6 DEF MarkedInv
<1> QED BY <1>3, <1>4, <1>7

LEMMA MarkedStep == HandledInv /\ MarkedInv /\ [Next]_vars => MarkedInv'
<1> SUFFICES ASSUME HandledInv, MarkedInv, [Next]_vars PROVE MarkedInv'
  OBVIOUS
<1>1. CASE UNCHANGED <<called, seen, inbound>>
  BY <1>1 DEF MarkedInv
<1>2. CASE CloseSeen
  <2>1. inbound' = <<>> /\ called' = called /\ seen' = seen
    BY <1>2 DEF CloseSeen, brokerVars, historyVars
  <2> QED BY <2>1 DEF MarkedInv
<1> QED BY <1>1, <1>2, PushMarked, OnMessageMarked
        DEF Next, Settle, ConnectionLost, BrokerCloses, Acknowleged, Reject, Keep,
            AcknowlegeKept, CallbackReturn, Resubscribe, vars, brokerVars, wireVars, historyVars

\* A message that a callback gets a second time is marked as redelivered, after any losses.
THEOREM DuplicatesMarked == Spec => DuplicateIsMarked
<1> DEFINE Marks == \A m \in called :
               context = NoContext /\ context' # NoContext /\ context'.msg = m => context'.again
<1>1. Init => MarkedInv
  BY DEF Init, MarkedInv
<1>2. HandledInv /\ MarkedInv /\ [Next]_vars => [Marks]_vars
  <2> SUFFICES ASSUME HandledInv, MarkedInv, Next, context = NoContext, context' # NoContext
               PROVE  context'.msg \in called => context'.again
    OBVIOUS
  <2>1. OnMessage
    BY DEF Next, Push, Settle, ConnectionLost, Acknowleged, Reject, Keep, Calling, AcknowlegeKept,
           CallbackReturn, CloseSeen, Resubscribe
  <2> QED BY <2>1, OnMessageMarked
<1>3. DuplicateIsMarked <=> [][Marks]_vars
  BY DEF DuplicateIsMarked
<1> HIDE DEF Marks
<1> QED BY <1>1, <1>2, <1>3, MarkedStep, DeliveryInvariant, PTL DEF Spec
=============================================================================
