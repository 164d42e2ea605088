----------------------------- MODULE AmqpDelivery -----------------------------
(***************************************************************************)
(* One subscription: the messages of a queue, the consumer callback that   *)
(* MessageQueueClient::Consume installs, and the DeliveryContext with      *)
(* which the application settles a message                                 *)
(* (src/src/utils/AmqpUtil.cpp, AmqpUtil.h).                               *)
(*                                                                         *)
(* The broker is external: it hands out messages under growing tags, as    *)
(* many unsettled ones as setQos allows, marks what it hands out again,    *)
(* closes the channel on a tag that is not outstanding, and puts back what *)
(* a closed channel leaves unsettled.  Frames travel in order both ways.   *)
(* The client never reopens a channel: Resubscribe is a new client.        *)
(* A copy of a context is used on the network thread (through PostTask).   *)
(***************************************************************************)
EXTENDS Naturals, Sequences, SequencesExt, FiniteSets

CONSTANTS Messages,
          NoContext,
          Prefetch,     \* prefetchMessagCount
          Modes,        \* values of enableAutomicAckonwledge (noack)
          Behaviours,   \* what callbacks do with a context: "ack", "reject", "keep"
          MaxCalls,     \* bound on the calls a callback makes on its context
          MaxSessions   \* bound on the clients that subscribe, one after the other

ASSUME DeliveryAssumption ==
    /\ IsFiniteSet(Messages)
    /\ NoContext \notin [tag : Nat, msg : Messages, again : BOOLEAN, settled : BOOLEAN, calls : Nat]
    /\ Prefetch \in Nat \ {0} /\ MaxCalls \in Nat /\ MaxSessions \in Nat \ {0}
    /\ Modes \subseteq BOOLEAN
    /\ Behaviours \subseteq {"ack", "reject", "keep"}

VARIABLES
    noAck,       \* the mode of the subscription
    queue,       \* the broker's queue
    unsettled,   \* what the broker handed out and waits for, in the order of the tags
    tags,        \* delivery tags used on this channel
    seen,        \* messages that were handed out before
    inbound,     \* deliveries on their way to the client
    outbound,    \* acks and rejects on their way to the broker
    channel,     \* "open"; "closing": the client does not know yet; "closed"
    context,     \* the DeliveryContext of the callback in progress
    kept,        \* copies of contexts the application kept
    sessions,    \* clients so far
    acked,       \* history: messages the broker takes for done
    discarded,   \* history: messages that were rejected for good
    done,        \* history: messages a callback acknowledged or returned from
    called,      \* history: messages a callback was called with
    refused,     \* history: messages a callback rejected and did not acknowledge
    unknownTag,  \* history: the broker got a tag that was not outstanding
    misused      \* history: the application settled what was settled, or had no right to

brokerVars  == <<noAck, queue, unsettled, tags, seen, acked, discarded, unknownTag>>
wireVars    == <<inbound, outbound, channel, sessions>>
historyVars == <<done, called, refused, misused>>
vars == <<brokerVars, wireVars, context, kept, historyVars>>

Used       == 1..tags
Deliveries == [tag : Used, msg : Messages, again : BOOLEAN]
Contexts   == [tag : Used, msg : Messages, again : BOOLEAN, settled : BOOLEAN, calls : 0..MaxCalls]
Frames     == [op : {"ack", "reject"}, tag : Used, multiple : BOOLEAN, requeue : BOOLEAN]

TypeOK ==
    /\ queue \in Seq(Messages)
    /\ unsettled \in Seq(Deliveries) /\ inbound \in Seq(Deliveries)
    /\ noAck \in BOOLEAN
    /\ ~noAck => Len(unsettled) <= Prefetch
    /\ outbound \in Seq(Frames)
    /\ tags \in Nat /\ sessions \in 1..MaxSessions
    /\ channel \in {"open", "closing", "closed"}
    /\ context \in Contexts \cup {NoContext}
    /\ kept \subseteq [tag : Used, settled : BOOLEAN]
    /\ seen \cup acked \cup discarded \cup done \cup called \cup refused \subseteq Messages
    /\ unknownTag \in BOOLEAN /\ misused \in BOOLEAN

Init ==
    /\ noAck \in Modes
    /\ queue = SetToSeq(Messages)   \* they are named in the order of the queue
    /\ unsettled = <<>> /\ tags = 0 /\ seen = {}
    /\ inbound = <<>> /\ outbound = <<>> /\ channel = "open" /\ sessions = 1
    /\ context = NoContext /\ kept = {}
    /\ acked = {} /\ discarded = {} /\ done = {} /\ called = {} /\ refused = {}
    /\ unknownTag = FALSE /\ misused = FALSE

-----------------------------------------------------------------------------
(* The broker.                                                             *)

\* With noack a message is done when it is handed out, and setQos does not count.
Push ==
    /\ channel = "open"
    /\ queue # <<>>
    /\ noAck \/ Len(unsettled) < Prefetch
    /\ LET m == Head(queue)
           d == [tag |-> tags + 1, msg |-> m, again |-> m \in seen]
       IN /\ inbound' = Append(inbound, d)
          /\ unsettled' = IF noAck THEN unsettled ELSE Append(unsettled, d)
          /\ acked' = IF noAck THEN acked \cup {m} ELSE acked
          /\ seen' = seen \cup {m}
    /\ queue' = Tail(queue)
    /\ tags' = tags + 1
    /\ UNCHANGED <<noAck, discarded, unknownTag, outbound, channel, sessions, context, kept,
                   historyVars>>

MessagesOf(deliveries) == [i \in DOMAIN deliveries |-> deliveries[i].msg]

\* The broker puts back what is unsettled and does not listen any more.
BrokerCloses ==
    /\ channel' = "closing"
    /\ queue' = MessagesOf(unsettled) \o queue
    /\ unsettled' = <<>>
    /\ outbound' = <<>>

\* Unsettled messages are in the order of their tags: multiple settles them up to the tag.
Settle ==
    /\ channel = "open"
    /\ outbound # <<>>
    /\ LET f  == Head(outbound)
           at == {i \in DOMAIN unsettled : unsettled[i].tag = f.tag}
       IN \/ \E i \in at :
               LET hit  == IF f.multiple THEN SubSeq(unsettled, 1, i) ELSE <<unsettled[i]>>
                   messages == ToSet(MessagesOf(hit))
               IN /\ unsettled' = IF f.multiple THEN SubSeq(unsettled, i + 1, Len(unsettled))
                                                ELSE RemoveAt(unsettled, i)
                  /\ queue' = IF f.requeue THEN MessagesOf(hit) \o queue ELSE queue
                  /\ acked' = IF f.op = "ack" THEN acked \cup messages ELSE acked
                  /\ discarded' = IF f.op = "reject" /\ ~f.requeue
                                    THEN discarded \cup messages ELSE discarded
                  /\ outbound' = Tail(outbound)
                  /\ UNCHANGED <<channel, unknownTag>>
          \/ /\ at = {}
             /\ BrokerCloses
             /\ unknownTag' = TRUE
             /\ UNCHANGED <<acked, discarded>>
    /\ UNCHANGED <<noAck, tags, seen, inbound, sessions, context, kept, historyVars>>

ConnectionLost ==
    /\ channel = "open"
    /\ BrokerCloses
    /\ UNCHANGED <<noAck, tags, seen, acked, discarded, unknownTag, inbound, sessions, context,
                   kept, historyVars>>

-----------------------------------------------------------------------------
(* DeliveryContext.                                                        *)

\* What is sent on a closed channel goes nowhere.
Send(frame) ==
    outbound' = IF channel = "open" THEN Append(outbound, frame) ELSE outbound

AckFrame(tag, multiple) ==
    [op |-> "ack", tag |-> tag, multiple |-> multiple, requeue |-> FALSE]

Calling(behaviour) ==
    /\ context # NoContext
    /\ behaviour \in Behaviours
    /\ context.calls < MaxCalls

\* Acknowleged, on a context that is not settled; on another one it does nothing.
Acknowleged(multiple) ==
    /\ Calling("ack")
    /\ ~context.settled
    /\ Send(AckFrame(context.tag, multiple))
    /\ context' = [context EXCEPT !.settled = TRUE, !.calls = @ + 1]
    /\ done' = done \cup {context.msg}
    /\ misused' = (misused \/ noAck)
    /\ UNCHANGED <<brokerVars, inbound, channel, sessions, kept, called, refused>>

\* Reject, whose guard is _isAcknowledgedOrRejected, not its negation.
Reject(requeue, multiple) ==
    /\ Calling("reject")
    /\ IF context.settled
         THEN /\ Send([op |-> "reject", tag |-> context.tag, multiple |-> multiple,
                       requeue |-> requeue])
              /\ misused' = TRUE
              /\ UNCHANGED refused
         ELSE /\ refused' = refused \cup {context.msg}
              /\ UNCHANGED <<outbound, misused>>
    /\ context' = [context EXCEPT !.calls = @ + 1]
    /\ UNCHANGED <<brokerVars, inbound, channel, sessions, kept, done, called>>

\* The class can be copied; the copy has a flag of its own.
Keep ==
    /\ Calling("keep")
    /\ kept' = kept \cup {[tag |-> context.tag, settled |-> context.settled]}
    /\ context' = [context EXCEPT !.calls = @ + 1]
    /\ UNCHANGED <<brokerVars, wireVars, historyVars>>

\* A task that acknowledges a copy, some time later.
AcknowlegeKept(k) ==
    /\ context = NoContext
    /\ ~k.settled
    /\ Send(AckFrame(k.tag, FALSE))
    /\ kept' = (kept \ {k}) \cup {[k EXCEPT !.settled = TRUE]}
    /\ misused' = TRUE
    /\ UNCHANGED <<brokerVars, inbound, channel, sessions, context, done, called, refused>>

-----------------------------------------------------------------------------
(* The onMessage handler of Consume.                                       *)

\* Mutant: the constructor forgets isRedelivered.
NewContext_ForgetsRedelivery(d) ==
    [tag |-> d.tag, msg |-> d.msg, again |-> FALSE, settled |-> FALSE, calls |-> 0]

NewContext(d) ==
    [tag |-> d.tag, msg |-> d.msg, again |-> d.again, settled |-> FALSE, calls |-> 0]

\* Mutant: the message is acknowledged before the callback gets it.
OnMessage_AcksFirst ==
    /\ channel # "closed"
    /\ context = NoContext
    /\ inbound # <<>>
    /\ context' = [NewContext(Head(inbound)) EXCEPT !.settled = TRUE]
    /\ Send(AckFrame(Head(inbound).tag, FALSE))
    /\ called' = called \cup {Head(inbound).msg}
    /\ inbound' = Tail(inbound)
    /\ UNCHANGED <<brokerVars, channel, sessions, kept, done, refused, misused>>

OnMessage ==
    /\ channel # "closed"
    /\ context = NoContext
    /\ inbound # <<>>
    /\ context' = NewContext(Head(inbound))
    /\ called' = called \cup {Head(inbound).msg}
    /\ inbound' = Tail(inbound)
    /\ UNCHANGED <<brokerVars, outbound, channel, sessions, kept, done, refused, misused>>

\* Mutants: no test of the acknowledgement mode; no acknowledgement.
AckOwed_Always == ~context.settled
AckOwed_Never  == FALSE
\* Mutant: a tag too many.
AckTag_Next == context.tag + 1

\* What the callback left unsettled is acknowledged after it, unless noack is on.
AckOwed == ~noAck /\ ~context.settled
AckTag  == context.tag

CallbackReturn ==
    /\ context # NoContext
    /\ IF AckOwed THEN Send(AckFrame(AckTag, FALSE)) ELSE UNCHANGED outbound
    /\ context' = NoContext
    /\ done' = done \cup {context.msg}
    /\ UNCHANGED <<brokerVars, inbound, channel, sessions, kept, called, refused, misused>>

\* The client learns that the channel is closed; what it did not read is lost.
CloseSeen ==
    /\ channel = "closing"
    /\ context = NoContext
    /\ channel' = "closed"
    /\ inbound' = <<>>
    /\ UNCHANGED <<brokerVars, outbound, sessions, context, kept, historyVars>>

\* A client that is started afterwards; the copies belong to the old channel.
Resubscribe ==
    /\ channel = "closed"
    /\ sessions < MaxSessions
    /\ channel' = "open"
    /\ sessions' = sessions + 1
    /\ tags' = 0
    /\ kept' = {}
    /\ UNCHANGED <<noAck, queue, unsettled, seen, acked, discarded, unknownTag, inbound,
                   outbound, context, historyVars>>

-----------------------------------------------------------------------------
Next ==
    \/ Push \/ Settle \/ ConnectionLost
    \/ \E multiple \in BOOLEAN : Acknowleged(multiple)
    \/ \E requeue, multiple \in BOOLEAN : Reject(requeue, multiple)
    \/ Keep
    \/ \E k \in kept : AcknowlegeKept(k)
    \/ OnMessage \/ CallbackReturn \/ CloseSeen \/ Resubscribe

Spec == Init /\ [][Next]_vars

\* The broker hands out and listens, the loop reads, and callbacks come to an end.
FairSpec ==
    /\ Spec
    /\ WF_vars(Push) /\ WF_vars(Settle)
    /\ WF_vars(OnMessage) /\ WF_vars(CallbackReturn)

-----------------------------------------------------------------------------
\* At least once: the broker takes a message for done only after a callback returned
\* from it or acknowledged it itself, whatever is lost on the way.
SettledAfterHandling == ~noAck => acked \subseteq done

\* A message that a callback gets a second time carries isRedelivered, with which the
\* application can tell a duplicate.
DuplicateIsMarked ==
    [][\A m \in called : context = NoContext /\ context' # NoContext /\ context'.msg = m
           => context'.again]_vars

\* The client itself settles no tag twice and none in noack mode, which would make the
\* broker close the channel: unless the application misuses a context, the broker gets no
\* tag that it does not wait for (_isAcknowledgedOrRejected, enableAutomicAckonwledge).
SettledOnce == ~misused => ~unknownTag

\* While the channel stands, every message is handled and acknowledged in the end: the
\* automatic acknowledgement keeps the prefetch window moving.
EveryMessageSettled ==
    <>[](channel = "open") => \A m \in Messages : <>(m \in acked)

\* A message that the callback rejected is not acknowledged (README: NACK through the
\* DeliveryContext).  The code does not keep this.
RejectedIsNotAcked == refused \cap acked = {}
=============================================================================
