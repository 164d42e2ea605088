----------------------- MODULE MessageQueueClientProofs -----------------------
(***************************************************************************)
(* Theorems about MessageQueueClient, for every set of callers, calls and  *)
(* kinds of calls: its types, its wake-ups, that it implements Mailbox     *)
(* (the task queue and the batch the network thread swapped out of it are  *)
(* one FIFO box in which no task is lost, repeated or reordered), that no  *)
(* promise is set twice, that what Declare and Consume report is true, and *)
(* where the message of a Publish that returned true is.                   *)
(***************************************************************************)
EXTENDS MessageQueueClient, SequenceFacts

-----------------------------------------------------------------------------
(* Type correctness.  First the four ways in which a step moves a thread.  *)

LEMMA EnterType ==
    ASSUME ThreadTypeOK, NEW t \in Threads, NEW c \in Calls,
           NEW l \in Labels, Enter(t, c, l)
    PROVE  ThreadTypeOK'
BY DEF Enter, ThreadTypeOK, Labels

LEMMA AnswerType ==
    ASSUME ThreadTypeOK, NEW c \in Calls, NEW v \in {"true", "false", "void"}, Answer(c, v)
    PROVE  ThreadTypeOK'
BY DEF Answer, ThreadTypeOK

LEMMA GotoType ==
    ASSUME ThreadTypeOK, NEW t \in Threads, pc[t] # "idle", NEW l \in Labels, Goto(t, l)
    PROVE  ThreadTypeOK'
BY DEF Goto, ThreadTypeOK, Labels

LEMMA ReturnType ==
    ASSUME ThreadTypeOK, NEW t \in Threads, pc[t] # "idle",
           NEW v \in {"true", "false", "void"}, Return(t, v)
    PROVE  ThreadTypeOK'
BY DEF Return, ThreadTypeOK, Labels

LEMMA AfterPostType ==
    ASSUME TypeOK, NEW t \in Threads, pc[t] # "idle", AfterPost(t)
    PROVE  ThreadTypeOK'
BY GotoType, ReturnType DEF AfterPost, TypeOK, Labels

LEMMA AfterJoinType ==
    ASSUME TypeOK, NEW t \in Threads, pc[t] # "idle", AfterJoin(t)
    PROVE  ThreadTypeOK'
BY GotoType, ReturnType DEF AfterJoin, TypeOK, Labels

\* What the network thread and the broker do moves no thread.
LEMMA NetworkFrame ==
    ASSUME Network \/ Broker
    PROVE  UNCHANGED callerVars
BY DEF Network, Broker, Connect, AsyncFire, RunPublish, RunRpc, RunStop, TakeTask, BatchEnd,
       CallbackReturn, LoopDrains, Exit, ChannelReady, ChannelError, DeliverMessage,
       BrokerReply, NetGoto, callerVars

\* Every step keeps each thread at a place of the code, with a call if it is in one.
LEMMA ThreadType ==
    ASSUME TypeOK, Next
    PROVE  ThreadTypeOK'
<1> USE DEF Labels
<1>1. ASSUME NEW t \in Threads, NEW c \in Calls, Call(t, c)
      PROVE  ThreadTypeOK'
  BY <1>1, EnterType, AnswerType DEF Call, CallStart, CallStop, CallDestroy, CallWait,
     CallPublish, CallRpc, TypeOK
<1>2. ASSUME NEW t \in Threads, Proceed(t)
      PROVE  ThreadTypeOK'
  <2>1. CASE Spawn(t) \/ Push(t)
    BY <2>1, GotoType DEF Spawn, Push, TypeOK
  <2>2. CASE SpawnOverJoinable(t) \/ JoinSelf(t) \/ JoinTwice(t)
    BY <2>2 DEF SpawnOverJoinable, JoinSelf, JoinTwice, Crash, TypeOK, ThreadTypeOK, threadVars
  <2>3. CASE PostCheck(t) \/ Notify(t)
    BY <2>3, GotoType, AfterPostType DEF PostCheck, Notify, TypeOK
  <2>4. CASE Answered(t)
    <3>1. promise[cur[t]] \in {"true", "false"}
      BY <2>4 DEF Answered, TypeOK, ThreadTypeOK, TaskTypeOK
    <3> QED BY <2>4, <3>1, ReturnType DEF Answered, TypeOK
  <2>5. CASE TimedOut(t) \/ Free(t)
    BY <2>5, ReturnType DEF TimedOut, Free, TypeOK
  <2>6. CASE JoinCheck(t) \/ JoinDone(t)
    BY <2>6, GotoType, AfterJoinType DEF JoinCheck, JoinDone, TypeOK
  <2> QED BY <1>2, <2>1, <2>2, <2>3, <2>4, <2>5, <2>6 DEF Proceed
<1>3. CASE Network \/ Broker
  BY <1>3, NetworkFrame DEF callerVars, threadVars, TypeOK, ThreadTypeOK
<1> QED BY <1>1, <1>2, <1>3 DEF Next

LEMMA FlagType ==
    ASSUME TypeOK, Next
    PROVE  FlagTypeOK'
<1> USE DEF TypeOK, FlagTypeOK, networkVars, callerVars, shared
<1>1. ASSUME NEW t \in Threads, NEW c \in Calls, Call(t, c)
      PROVE  FlagTypeOK'
  BY <1>1 DEF Call, CallStart, CallStop, CallDestroy, CallWait, CallPublish, CallRpc
<1>2. ASSUME NEW t \in Threads, Proceed(t)
      PROVE  FlagTypeOK'
  BY <1>2 DEF Proceed, Spawn, SpawnOverJoinable, PostCheck, Push, Notify, AsyncSend, Answered,
     TimedOut, JoinCheck, JoinDone, JoinSelf, JoinTwice, Free, Crash
<1>3. CASE Network
  BY <1>3 DEF Network, Connect, AsyncFire, RunPublish, RunRpc, RunStop, TakeTask, BatchEnd,
     CallbackReturn, LoopDrains, Exit, NetGoto
<1>4. CASE Broker
  BY <1>4 DEF Broker, ChannelReady, ChannelError, DeliverMessage, BrokerReply, NetGoto
<1> QED BY <1>1, <1>2, <1>3, <1>4 DEF Next

LEMMA StageType ==
    ASSUME TypeOK, Next
    PROVE  StageTypeOK'
<1> USE DEF TypeOK, StageTypeOK, networkVars, callerVars, channelVars, shared
<1>1. ASSUME NEW t \in Threads, NEW c \in Calls, Call(t, c)
      PROVE  StageTypeOK'
  BY <1>1 DEF Call, CallStart, CallStop, CallDestroy, CallWait, CallPublish, CallRpc
<1>2. ASSUME NEW t \in Threads, Proceed(t)
      PROVE  StageTypeOK'
  BY <1>2 DEF Proceed, Spawn, SpawnOverJoinable, PostCheck, Push, Notify, Answered,
     TimedOut, JoinCheck, JoinDone, JoinSelf, JoinTwice, Free, Crash
<1>3. CASE Network
  BY <1>3 DEF Network, Connect, AsyncFire, RunPublish, RunRpc, RunStop, TakeTask, BatchEnd,
     CallbackReturn, LoopDrains, Exit, NetGoto, Fulfil
<1>4. CASE Broker
  BY <1>4 DEF Broker, ChannelReady, ChannelError, DeliverMessage, BrokerReply, NetGoto, Fulfil
<1> QED BY <1>1, <1>2, <1>3, <1>4 DEF Next

LEMMA TaskType ==
    ASSUME TypeOK, Next
    PROVE  TaskTypeOK'
<1> USE DEF TypeOK, TaskTypeOK, networkVars, callerVars, channelVars, callVars, historyVars,
            shared
<1>1. ASSUME NEW t \in Threads, NEW c \in Calls, Call(t, c)
      PROVE  TaskTypeOK'
  <2>1. Checking \subseteq Calls
    BY DEF Checking, ThreadTypeOK
  <2>2. /\ kind' \in [Calls -> AllKinds \cup {"none"}]
        /\ reentrant' \subseteq Calls /\ overtaken' \subseteq Calls
    BY <1>1, <2>1 DEF Call, CallStart, CallStop, CallDestroy, CallWait, CallPublish, CallRpc,
       Issue, AllKinds
  <2> QED BY <1>1, <2>2 DEF Call, CallStart, CallStop, CallDestroy, CallWait, CallPublish, CallRpc
<1>2. ASSUME NEW t \in Threads, Proceed(t)
      PROVE  TaskTypeOK'
  <2>1. CASE Push(t)
    BY <2>1, AppendProperties DEF Push, ThreadTypeOK
  <2>2. CASE Spawn(t)
    BY <2>2 DEF Spawn, ThreadTypeOK
  <2> QED BY <1>2, <2>1, <2>2 DEF Proceed, SpawnOverJoinable, PostCheck, Notify, Answered,
     TimedOut, JoinCheck, JoinDone, JoinSelf, JoinTwice, Free, Crash
<1>3. CASE Network
  <2>1. ASSUME TakeTask
        PROVE  Head(batch) \in Calls /\ batch' \in Seq(Calls) /\ ran' \in Seq(Calls)
    BY <2>1, HeadTailProperties, AppendProperties DEF TakeTask
  <2>2. CASE RunPublish
    BY <2>1, <2>2 DEF RunPublish, TakeTask
  <2>3. CASE RunRpc
    <3>1. awaiting' \in [Calls -> 0..3]
      <4>1. Stages(kind[Head(batch)]) \in 0..3
        BY DEF Stages
      <4>2. \/ awaiting' = [awaiting EXCEPT ![Head(batch)] = Stages(kind[Head(batch)])]
            \/ awaiting' = awaiting
        BY <2>3 DEF RunRpc
      <4> HIDE DEF TaskTypeOK
      <4>3. awaiting \in [Calls -> 0..3]
        BY DEF TaskTypeOK
      <4> QED BY <4>1, <4>2, <4>3
    <3>2. promise' \in [Calls -> {"unset", "true", "false"}]
      BY <2>3, <2>1 DEF RunRpc, Fulfil
    <3> QED BY <2>1, <2>3, <3>1, <3>2 DEF RunRpc, TakeTask
  <2>4. CASE RunStop
    BY <2>1, <2>4 DEF RunStop, TakeTask
  <2>5. CASE AsyncFire
    BY <2>5, EmptySeq DEF AsyncFire, SwapQueues
  <2> QED BY <1>3, <2>2, <2>3, <2>4, <2>5 DEF Network, Connect, BatchEnd, CallbackReturn,
     LoopDrains, Exit, NetGoto
<1>4. CASE Broker
  <2>1. CASE ChannelReady \/ ChannelError \/ DeliverMessage
    BY <2>1 DEF ChannelReady, ChannelError, DeliverMessage, NetGoto, Fulfil
  <2>2. ASSUME NEW c \in Calls, BrokerReply(c)
        PROVE  TaskTypeOK'
    <3>1. awaiting' \in [Calls -> 0..3]
      BY <2>2 DEF BrokerReply
    <3>2. promise' \in [Calls -> {"unset", "true", "false"}]
      BY <2>2 DEF BrokerReply, Fulfil
    <3> QED BY <2>2, <3>1, <3>2 DEF BrokerReply
  <2> QED BY <1>4, <2>1, <2>2 DEF Broker
<1> QED BY <1>1, <1>2, <1>3, <1>4 DEF Next

\* In every reachable state every variable has its type, and a thread inside a
\* call has a call.
THEOREM TypeCorrect == Spec => []TypeOK
<1>1. Init => TypeOK
  <2> SUFFICES ASSUME Init PROVE TypeOK
    OBVIOUS
  <2>1. ThreadTypeOK
    BY DEF Init, ThreadTypeOK, Labels
  <2>2. FlagTypeOK /\ StageTypeOK
    BY DEF Init, FlagTypeOK, StageTypeOK
  <2>3. TaskTypeOK
    BY EmptySeq DEF Init, TaskTypeOK
  <2> QED BY <2>1, <2>2, <2>3 DEF TypeOK
<1>2. TypeOK /\ [Next]_vars => TypeOK'
  <2> SUFFICES ASSUME TypeOK, [Next]_vars PROVE TypeOK'
    OBVIOUS
  <2>1. CASE Next
    BY <2>1, ThreadType, FlagType, StageType, TaskType DEF TypeOK
  <2>2. CASE UNCHANGED vars
    <3> USE DEF TypeOK, ThreadTypeOK, FlagTypeOK, StageTypeOK, TaskTypeOK
    <3> QED BY <2>2 DEF vars, shared, networkVars, channelVars, historyVars, threadVars, callVars
  <2> QED BY <2>1, <2>2
<1> QED BY <1>1, <1>2, PTL DEF Spec

-----------------------------------------------------------------------------
(* No lost wake-up.                                                        *)

\* A thread that is about to ev_async_send stays there until it does.
LEMMA NotifierStays ==
    ASSUME TypeOK, Next, NEW u \in Threads, pc[u] = "notify"
    PROVE  pc'[u] = "notify" \/ notified' = TRUE
<1>1. ASSUME NEW t \in Threads, NEW c \in Calls, Call(t, c)
      PROVE  pc'[u] = "notify"
  <2>1. pc[t] = "idle" /\ t # u
    BY <1>1 DEF Call, CallStart, CallStop, CallDestroy, CallWait, CallPublish, CallRpc, Issue
  <2> QED BY <1>1, <2>1 DEF Call, CallStart, CallStop, CallDestroy, CallWait, CallPublish,
             CallRpc, Enter, Answer, TypeOK, ThreadTypeOK
<1>2. ASSUME NEW t \in Threads, Proceed(t)
      PROVE  pc'[u] = "notify" \/ notified' = TRUE
  <2>1. CASE Notify(t)
    BY <2>1 DEF Notify, AsyncSend
  <2>2. CASE SpawnOverJoinable(t) \/ JoinSelf(t) \/ JoinTwice(t)
    BY <2>2 DEF SpawnOverJoinable, JoinSelf, JoinTwice, Crash, threadVars
  <2>3. CASE t # u
    BY <1>2, <2>1, <2>2, <2>3 DEF Proceed, Spawn, PostCheck, Push, Answered, TimedOut, JoinCheck,
       JoinDone, Free, AfterPost, AfterJoin, Goto, Return, TypeOK, ThreadTypeOK
  <2>4. CASE t = u
    BY <1>2, <2>1, <2>2, <2>4 DEF Proceed, Spawn, PostCheck, Push, Answered, TimedOut, JoinCheck,
       JoinDone, Free
  <2> QED BY <2>3, <2>4
<1>3. CASE Network \/ Broker
  BY <1>3, NetworkFrame DEF callerVars, threadVars
<1> QED BY <1>1, <1>2, <1>3 DEF Next

LEMMA WakeupStep ==
    ASSUME TypeOK, NoLostWakeup, Next
    PROVE  NoLostWakeup'
<1>1. CASE \E t \in Threads : Push(t)
  <2>1. PICK t \in Threads : Push(t)
    BY <1>1
  <2>2. pc'[t] = "notify"
    BY <2>1 DEF Push, Goto, TypeOK, ThreadTypeOK
  <2> QED BY <2>2 DEF NoLostWakeup
<1>2. CASE AsyncFire
  BY <1>2 DEF AsyncFire, SwapQueues, NoLostWakeup
<1>3. ASSUME ~(\E t \in Threads : Push(t)), ~AsyncFire
      PROVE  /\ queue' = queue
             /\ watching' => watching
             /\ notified => notified'
  <2> USE DEF networkVars, callerVars, shared
  <2>1. ASSUME NEW t \in Threads, NEW c \in Calls, Call(t, c)
        PROVE  UNCHANGED <<queue, watching, notified>>
    BY <2>1 DEF Call, CallStart, CallStop, CallDestroy, CallWait, CallPublish, CallRpc
  <2>2. ASSUME NEW t \in Threads, Proceed(t)
        PROVE  UNCHANGED <<queue, watching>> /\ (notified => notified')
    BY <1>3, <2>2 DEF Proceed, Spawn, SpawnOverJoinable, PostCheck, Notify, AsyncSend, Answered,
       TimedOut, JoinCheck, JoinDone, JoinSelf, JoinTwice, Free, Crash
  <2>3. CASE Network
    BY <1>3, <2>3 DEF Network, Connect, RunPublish, RunRpc, RunStop, TakeTask, BatchEnd,
       CallbackReturn, LoopDrains, Exit, NetGoto
  <2>4. CASE Broker
    <3>1. UNCHANGED <<queue, watching, notified>>
      BY <2>4 DEF Broker, ChannelReady, ChannelError, DeliverMessage, BrokerReply, NetGoto
    <3> QED BY <3>1
  <2> QED BY <2>1, <2>2, <2>3, <2>4 DEF Next
<1>4. CASE ~(\E t \in Threads : Push(t)) /\ ~AsyncFire
  BY <1>3, <1>4, NotifierStays DEF NoLostWakeup
<1> QED BY <1>1, <1>2, <1>4

\* PostTask and OnAsyncNotificationTriggered lose no wake-up, whatever the number of
\* posting threads: with TypeOK the property is inductive as it stands.
THEOREM NoWakeupLost == Spec => []NoLostWakeup
<1>1. Init => NoLostWakeup
  BY DEF Init, NoLostWakeup
<1>2. TypeOK /\ NoLostWakeup /\ [Next]_vars => NoLostWakeup'
  <2> SUFFICES ASSUME TypeOK, NoLostWakeup, [Next]_vars PROVE NoLostWakeup'
    OBVIOUS
  <2>1. CASE UNCHANGED vars
    BY <2>1 DEF vars, shared, networkVars, threadVars, NoLostWakeup
  <2> QED BY <2>1, WakeupStep
<1> QED BY <1>1, <1>2, TypeCorrect, PTL DEF Spec

-----------------------------------------------------------------------------
(* The refinement of Mailbox.                                              *)

Posted == ToSet(batch \o queue) \cup ToSet(ran)

\* Two threads are never in the same call.
Ownership ==
    /\ \A t, u \in Threads :
           t # u /\ pc[t] # "idle" /\ pc[u] # "idle" => cur[t] # cur[u]
    /\ \A t \in Threads : pc[t] # "idle" => kind[cur[t]] # "none"

\* A call whose task was not pushed yet is in no queue; the batch is empty unless
\* the network thread is running it.
PostedOnce ==
    /\ net # "batch" => batch = <<>>
    /\ \A t \in Threads : pc[t] \in {"check", "push"} => cur[t] \notin Posted
    /\ \A c \in Posted : kind[c] # "none"

\* A std::thread that is not joinable stands for no running network thread.
NoThreadUnjoined == ~joinable => net \in {"none", "done"}

RefinementInv == TypeOK /\ Ownership /\ NoThreadUnjoined /\ PostedOnce

-----------------------------------------------------------------------------
(* How a step changes the calls and the boxes.                             *)

LEMMA BoxTypes ==
    ASSUME TypeOK
    PROVE  /\ batch \in Seq(Calls) /\ queue \in Seq(Calls) /\ ran \in Seq(Calls)
           /\ batch \o queue \in Seq(Calls)
           /\ Posted = ToSet(batch) \cup ToSet(queue) \cup ToSet(ran)
BY ToSetConcat, ConcatProperties DEF TypeOK, TaskTypeOK, Posted

\* What a call does: thread t, which was idle, gets a call nobody made before or
\* stays idle; no box changes.
LEMMA CallEffect ==
    ASSUME TypeOK, NEW t \in Threads, NEW c \in Calls, Call(t, c)
    PROVE  /\ pc[t] = "idle" /\ kind[c] = "none"
           /\ \E k \in AllKinds : kind' = [kind EXCEPT ![c] = k]
           /\ \/ \E l \in Labels : /\ pc' = [pc EXCEPT ![t] = l]
                                   /\ cur' = [cur EXCEPT ![t] = c]
              \/ UNCHANGED <<pc, cur>>
           /\ UNCHANGED <<queue, batch, ran, net>>
<1> USE DEF Issue, Enter, Answer, AllKinds, Labels, networkVars, historyVars, shared
<1>1. CASE CallStart(t, c)
  BY <1>1 DEF CallStart
<1>2. CASE CallStop(t, c)
  BY <1>2 DEF CallStop
<1>3. CASE CallDestroy(t, c)
  BY <1>3 DEF CallDestroy
<1>4. CASE CallWait(t, c)
  BY <1>4 DEF CallWait
<1>5. CASE CallPublish(t, c)
  BY <1>5 DEF CallPublish
<1>6. CASE CallRpc(t, c)
  BY <1>6 DEF CallRpc
<1> QED BY <1>1, <1>2, <1>3, <1>4, <1>5, <1>6 DEF Call

\* What a step inside a call does to the threads: t moves on, to "push" only from
\* "check" and never to "check"; its call stays its own unless it becomes idle.
LEMMA ProceedEffect ==
    ASSUME TypeOK, NEW t \in Threads, Proceed(t)
    PROVE  /\ pc[t] # "idle"
           /\ \A u \in Threads \ {t} : pc'[u] = pc[u] /\ cur'[u] = cur[u]
           /\ pc'[t] # "idle" => cur'[t] = cur[t]
           /\ pc'[t] = "push" => pc[t] = "check"
           /\ pc'[t] # "check"
              \/ UNCHANGED threadVars
           /\ kind' = kind
<1> USE DEF Goto, Return, AfterPost, AfterJoin, callVars, threadVars, TypeOK, ThreadTypeOK
<1>1. CASE Spawn(t) \/ Push(t)
  BY <1>1 DEF Spawn, Push
<1>2. CASE SpawnOverJoinable(t) \/ JoinSelf(t) \/ JoinTwice(t)
  BY <1>2 DEF SpawnOverJoinable, JoinSelf, JoinTwice, Crash
<1>3. CASE PostCheck(t)
  BY <1>3 DEF PostCheck
<1>4. CASE Notify(t)
  BY <1>4 DEF Notify
<1>5. CASE Answered(t) \/ TimedOut(t) \/ Free(t)
  BY <1>5 DEF Answered, TimedOut, Free
<1>6. CASE JoinCheck(t)
  BY <1>6 DEF JoinCheck
<1>7. CASE JoinDone(t)
  BY <1>7 DEF JoinDone
<1> QED BY <1>1, <1>2, <1>3, <1>4, <1>5, <1>6, <1>7 DEF Proceed

\* Among those steps only Push changes a box.
LEMMA ProceedBoxes ==
    ASSUME NEW t \in Threads, Proceed(t), ~Push(t)
    PROVE  /\ UNCHANGED <<queue, batch, ran>>
           /\ net' = net \/ (~joinable /\ net' = "connecting")
<1> USE DEF networkVars, historyVars, shared
<1>1. CASE Spawn(t)
  BY <1>1 DEF Spawn
<1>2. CASE SpawnOverJoinable(t) \/ JoinSelf(t) \/ JoinTwice(t)
  BY <1>2 DEF SpawnOverJoinable, JoinSelf, JoinTwice, Crash
<1>3. CASE PostCheck(t) \/ Notify(t) \/ Answered(t) \/ TimedOut(t)
  BY <1>3 DEF PostCheck, Notify, Answered, TimedOut
<1>4. CASE JoinCheck(t) \/ JoinDone(t) \/ Free(t)
  BY <1>4 DEF JoinCheck, JoinDone, Free
<1> QED BY <1>1, <1>2, <1>3, <1>4 DEF Proceed

\* A task taken from the batch moves to the end of ran.
LEMMA TakeEffect ==
    ASSUME TypeOK, TakeTask
    PROVE  /\ batch \o queue # <<>>
           /\ ran' = Append(ran, Head(batch \o queue))
           /\ batch' \o queue' = Tail(batch \o queue)
           /\ Posted' = Posted
<1>1. batch # <<>> /\ queue' = queue /\ batch' = Tail(batch) /\ ran' = Append(ran, Head(batch))
  BY DEF TakeTask
<1>2. /\ batch \o queue # <<>> /\ Head(batch \o queue) = Head(batch)
      /\ Tail(batch \o queue) = Tail(batch) \o queue
  BY <1>1, BoxTypes, ConcatTake
<1>3. Head(batch) \in Calls /\ Tail(batch) \in Seq(Calls)
  BY <1>1, BoxTypes, HeadTailProperties
<1>4. ToSet(batch) = ToSet(Tail(batch)) \cup {Head(batch)}
  BY <1>1, BoxTypes, ToSetHeadTail
<1>5. ToSet(ran') = ToSet(ran) \cup {Head(batch)}
  BY <1>1, <1>3, BoxTypes, ToSetAppend
<1>6. ToSet(batch' \o queue') = ToSet(Tail(batch)) \cup ToSet(queue)
  <2>1. ToSet(Tail(batch) \o queue) = ToSet(Tail(batch)) \cup ToSet(queue)
    <3>1. queue \in Seq(Calls)
      BY BoxTypes
    <3> QED BY <1>3, <3>1, ToSetConcat
  <2> QED BY <1>1, <2>1
<1>7. Posted' = ToSet(Tail(batch)) \cup ToSet(queue) \cup ToSet(ran) \cup {Head(batch)}
  BY <1>5, <1>6 DEF Posted
<1> QED BY <1>1, <1>2, <1>4, <1>7, BoxTypes

\* A pushed task goes to the end of the box.
LEMMA PushEffect ==
    ASSUME TypeOK, NEW t \in Threads, Push(t)
    PROVE  /\ cur[t] \in Calls
           /\ batch' \o queue' = Append(batch \o queue, cur[t])
           /\ UNCHANGED <<batch, ran, net, kind, cur>>
           /\ Posted' = Posted \cup {cur[t]}
<1>1. cur[t] \in Calls
  BY DEF Push, TypeOK, ThreadTypeOK
<1>2. queue' = Append(queue, cur[t]) /\ UNCHANGED <<batch, ran, net, kind, cur>>
  BY DEF Push, Goto, networkVars, historyVars, callVars
<1>3. batch' \o queue' = Append(batch \o queue, cur[t])
  BY <1>1, <1>2, BoxTypes, ConcatAppend
<1>4. ToSet(batch' \o queue') = ToSet(batch \o queue) \cup {cur[t]}
  <2>1. ToSet(Append(batch \o queue, cur[t])) = ToSet(batch \o queue) \cup {cur[t]}
    <3>1. batch \o queue \in Seq(Calls)
      BY BoxTypes
    <3>2. \A b \in Seq(Calls) : ToSet(Append(b, cur[t])) = ToSet(b) \cup {cur[t]}
      BY <1>1, ToSetAppend
    <3> QED BY <3>1, <3>2
  <2> QED BY <1>3, <2>1
<1>5. Posted' = ToSet(batch' \o queue') \cup ToSet(ran')
  BY DEF Posted
<1> QED BY <1>1, <1>2, <1>3, <1>4, <1>5 DEF Posted

\* The swap moves nothing in or out of the box.
LEMMA SwapEffect ==
    ASSUME TypeOK, PostedOnce, AsyncFire
    PROVE  UNCHANGED <<batch \o queue, ran, Posted>> /\ net' = "batch"
<1>1. batch = <<>> /\ batch' = queue /\ queue' = <<>> /\ ran' = ran
  BY DEF PostedOnce, AsyncFire, SwapQueues, historyVars
<1>2. batch' \o queue' = batch \o queue
  BY <1>1, BoxTypes, ConcatEmptySeq
<1> QED BY <1>1, <1>2 DEF Posted, AsyncFire

\* Every other step of the network thread leaves the boxes alone, and leaves the
\* batch only when it is empty.
LEMMA OtherNetworkSteps ==
    ASSUME PostedOnce, Network \/ Broker, ~TakeTask, ~AsyncFire
    PROVE  /\ UNCHANGED <<queue, batch, ran>>
           /\ net' # "batch" => batch = <<>>
<1> USE DEF PostedOnce, NetGoto, historyVars
<1>1. CASE Network
  BY <1>1 DEF Network, Connect, RunPublish, RunRpc, RunStop, BatchEnd, CallbackReturn,
     LoopDrains, Exit
<1>2. CASE Broker
  BY <1>2 DEF Broker, ChannelReady, ChannelError, DeliverMessage, BrokerReply
<1> QED BY <1>1, <1>2

-----------------------------------------------------------------------------
(* The invariant.                                                          *)

LEMMA OwnershipStep ==
    ASSUME TypeOK, Ownership, Next
    PROVE  Ownership'
<1>1. ASSUME NEW t \in Threads, NEW c \in Calls, Call(t, c)
      PROVE  Ownership'
  <2>1. \A u \in Threads : pc[u] # "idle" => cur[u] # c /\ cur[u] \in Calls
    BY <1>1, CallEffect DEF Ownership, TypeOK, ThreadTypeOK
  <2>2. kind' \in [Calls -> AllKinds \cup {"none"}] /\ kind'[c] # "none"
        /\ \A d \in Calls : d # c => kind'[d] = kind[d]
    <3>1. PICK k \in AllKinds : kind' = [kind EXCEPT ![c] = k]
      BY <1>1, CallEffect
    <3>2. kind \in [Calls -> AllKinds \cup {"none"}] /\ k # "none"
      BY DEF AllKinds, TypeOK, TaskTypeOK
    <3> QED BY <1>1, <3>1, <3>2
  <2>3. CASE UNCHANGED <<pc, cur>>
    BY <2>1, <2>2, <2>3 DEF Ownership
  <2>4. CASE \E l \in Labels : pc' = [pc EXCEPT ![t] = l] /\ cur' = [cur EXCEPT ![t] = c]
    <3>1. cur'[t] = c /\ \A u \in Threads \ {t} : pc'[u] = pc[u] /\ cur'[u] = cur[u]
      BY <2>4 DEF TypeOK, ThreadTypeOK
    <3> QED BY <2>1, <2>2, <3>1 DEF Ownership
  <2> QED BY <1>1, <2>3, <2>4, CallEffect
<1>2. ASSUME NEW t \in Threads, Proceed(t)
      PROVE  Ownership'
  BY <1>2, ProceedEffect DEF Ownership
<1>3. CASE Network \/ Broker
  BY <1>3, NetworkFrame DEF callerVars, threadVars, callVars, Ownership
<1> QED BY <1>1, <1>2, <1>3 DEF Next

LEMMA NoThreadUnjoinedStep ==
    ASSUME NoThreadUnjoined, Next
    PROVE  NoThreadUnjoined'
<1> USE DEF NoThreadUnjoined, networkVars, callerVars, shared
<1>1. ASSUME NEW t \in Threads, NEW c \in Calls, Call(t, c)
      PROVE  NoThreadUnjoined'
  BY <1>1 DEF Call, CallStart, CallStop, CallDestroy, CallWait, CallPublish, CallRpc
<1>2. ASSUME NEW t \in Threads, Proceed(t)
      PROVE  NoThreadUnjoined'
  BY <1>2 DEF Proceed, Spawn, SpawnOverJoinable, PostCheck, Push, Notify, Answered, TimedOut,
     JoinCheck, JoinDone, JoinSelf, JoinTwice, Free, Crash
<1>3. CASE Network
  BY <1>3 DEF Network, Connect, AsyncFire, RunPublish, RunRpc, RunStop, TakeTask, BatchEnd,
     CallbackReturn, LoopDrains, Exit, NetGoto
<1>4. CASE Broker
  BY <1>4 DEF Broker, ChannelReady, ChannelError, DeliverMessage, BrokerReply, NetGoto
<1> QED BY <1>1, <1>2, <1>3, <1>4 DEF Next

LEMMA PostedOnceStep ==
    ASSUME TypeOK, Ownership, NoThreadUnjoined, PostedOnce, Next
    PROVE  PostedOnce'
<1>0. Posted \subseteq Calls
  BY BoxTypes DEF ToSet
<1>1. ASSUME NEW t \in Threads, NEW c \in Calls, Call(t, c)
      PROVE  PostedOnce'
  <2>1. Posted' = Posted /\ c \notin Posted /\ UNCHANGED <<batch, net>>
    BY <1>1, CallEffect DEF Posted, PostedOnce
  <2>2. \A d \in Posted : kind'[d] = kind[d]
    BY <1>0, <1>1, <2>1, CallEffect DEF TypeOK, TaskTypeOK
  <2>3. \A u \in Threads : pc'[u] \in {"check", "push"} => cur'[u] \notin Posted
    BY <1>1, <2>1, CallEffect DEF PostedOnce, TypeOK, ThreadTypeOK
  <2> QED BY <2>1, <2>2, <2>3 DEF PostedOnce
<1>2. ASSUME NEW t \in Threads, Push(t)
      PROVE  PostedOnce'
  <2>1. pc[t] = "push" /\ pc'[t] = "notify"
    BY <1>2 DEF Push, Goto, TypeOK, ThreadTypeOK
  <2>2. Proceed(t)
    BY <1>2 DEF Proceed
  <2>3. \A u \in Threads : pc'[u] \in {"check", "push"} => cur'[u] \notin Posted'
    BY <1>2, <2>1, <2>2, PushEffect, ProceedEffect DEF PostedOnce, Ownership
  <2>4. \A c \in Posted' : kind'[c] # "none"
    BY <1>2, <2>1, PushEffect DEF PostedOnce, Ownership
  <2>5. net' # "batch" => batch' = <<>>
    BY <1>2, PushEffect DEF PostedOnce
  <2> QED BY <2>3, <2>4, <2>5 DEF PostedOnce
<1>3. ASSUME NEW t \in Threads, Proceed(t), ~Push(t)
      PROVE  PostedOnce'
  <2>1. Posted' = Posted
    BY <1>3, ProceedBoxes DEF Posted
  <2>2. net' # "batch" => batch' = <<>>
    BY <1>3, ProceedBoxes DEF PostedOnce, NoThreadUnjoined
  <2>3. \A u \in Threads : pc'[u] \in {"check", "push"} => cur'[u] \notin Posted
    BY <1>3, ProceedEffect DEF PostedOnce, threadVars
  <2> QED BY <1>3, <2>1, <2>2, <2>3, ProceedEffect DEF PostedOnce
<1>4. CASE Network \/ Broker
  <2>1. UNCHANGED <<pc, cur, kind>>
    BY <1>4, NetworkFrame DEF callerVars, threadVars, callVars
  <2>2. Posted' = Posted /\ (net' # "batch" => batch' = <<>>)
    <3>1. CASE TakeTask
      BY <3>1, TakeEffect DEF TakeTask
    <3>2. CASE AsyncFire
      BY <3>2, SwapEffect
    <3>3. CASE ~TakeTask /\ ~AsyncFire
      BY <1>4, <3>3, OtherNetworkSteps DEF Posted
    <3> QED BY <3>1, <3>2, <3>3
  <2> QED BY <2>1, <2>2 DEF PostedOnce
<1> QED BY <1>1, <1>2, <1>3, <1>4 DEF Next

THEOREM RefinementInvariant == Spec => []RefinementInv
<1> USE DEF RefinementInv
<1>1. Init => Ownership /\ NoThreadUnjoined /\ PostedOnce
  <2> SUFFICES ASSUME Init PROVE Ownership /\ NoThreadUnjoined /\ PostedOnce
    OBVIOUS
  <2>1. Ownership /\ NoThreadUnjoined
    BY DEF Init, Ownership, NoThreadUnjoined
  <2>2. Posted = {}
    BY ConcatEmptySeq, EmptySeq DEF Init, Posted, ToSet
  <2> QED BY <2>1, <2>2 DEF Init, PostedOnce
<1>2. TypeOK /\ TypeOK' /\ RefinementInv /\ [Next]_vars => RefinementInv'
  <2> SUFFICES ASSUME TypeOK', RefinementInv, [Next]_vars PROVE RefinementInv'
    OBVIOUS
  <2>1. CASE Next
    BY <2>1, OwnershipStep, NoThreadUnjoinedStep, PostedOnceStep
  <2>2. CASE UNCHANGED vars
    BY <2>2 DEF vars, shared, networkVars, historyVars, threadVars, callVars, Ownership,
       NoThreadUnjoined, PostedOnce, Posted
  <2> QED BY <2>1, <2>2
<1>3. Spec => TypeOK
  BY TypeCorrect, PTL
<1> QED BY <1>1, <1>2, <1>3, TypeCorrect, PTL DEF Spec

-----------------------------------------------------------------------------
(* The refinement.                                                         *)

\* Every step of the client puts one new task in the mailbox, runs the oldest one,
\* or leaves the mailbox alone.
LEMMA MailboxStep ==
    ASSUME RefinementInv, Next
    PROVE  \/ MailboxOfTasks!Next
           \/ UNCHANGED MailboxOfTasks!vars
<1> USE DEF RefinementInv
<1>1. ASSUME NEW t \in Threads, NEW c \in Calls, Call(t, c)
      PROVE  UNCHANGED MailboxOfTasks!vars
  BY <1>1, CallEffect DEF MailboxOfTasks!vars
<1>2. ASSUME NEW t \in Threads, Push(t)
      PROVE  MailboxOfTasks!Next
  <2>1. cur[t] \notin Posted
    BY <1>2 DEF Push, PostedOnce
  <2>2. MailboxOfTasks!Put(cur[t])
    <3>1. cur[t] \notin ToSet(batch \o queue) \cup ToSet(ran)
      BY <2>1 DEF Posted
    <3>2. batch' \o queue' = Append(batch \o queue, cur[t]) /\ ran' = ran
      BY <1>2, PushEffect
    <3> QED BY <3>1, <3>2 DEF MailboxOfTasks!Put, MailboxOfTasks!ToSet, ToSet
  <2> QED BY <1>2, <2>2, PushEffect DEF MailboxOfTasks!Next
<1>3. ASSUME NEW t \in Threads, Proceed(t), ~Push(t)
      PROVE  UNCHANGED MailboxOfTasks!vars
  BY <1>3, ProceedBoxes DEF MailboxOfTasks!vars
<1>4. CASE TakeTask
  BY <1>4, TakeEffect DEF MailboxOfTasks!Next, MailboxOfTasks!Run
<1>5. CASE AsyncFire
  BY <1>5, SwapEffect DEF MailboxOfTasks!vars
<1>6. CASE (Network \/ Broker) /\ ~TakeTask /\ ~AsyncFire
  BY <1>6, OtherNetworkSteps DEF MailboxOfTasks!vars
<1> QED BY <1>1, <1>2, <1>3, <1>4, <1>5, <1>6 DEF Next

\* PostTask and the network thread implement a FIFO mailbox for every number of
\* callers and calls: no task is lost between the two queues, run twice, or run out
\* of order.
THEOREM ImplementsMailbox == Spec => Mailbox
<1>1. Init => MailboxOfTasks!Init
  BY ConcatEmptySeq, EmptySeq DEF Init, MailboxOfTasks!Init
<1>2. RefinementInv /\ [Next]_vars => [MailboxOfTasks!Next]_(MailboxOfTasks!vars)
  <2> SUFFICES ASSUME RefinementInv, [Next]_vars
               PROVE  MailboxOfTasks!Next \/ UNCHANGED MailboxOfTasks!vars
    OBVIOUS
  <2>1. CASE UNCHANGED vars
    BY <2>1 DEF vars, shared, networkVars, historyVars, MailboxOfTasks!vars
  <2> QED BY <2>1, MailboxStep
<1> QED BY <1>1, <1>2, RefinementInvariant, PTL DEF Spec, Mailbox, MailboxOfTasks!Spec

-----------------------------------------------------------------------------
(* Promises, confirmations and messages: the invariant behind the other    *)
(* safety properties.                                                      *)

Rpcs     == {"declare", "consume"}
Stoppers == {"stop", "destroy"}

\* A thread is at a place that its call reaches.
CallPlaces ==
    \A t \in Threads :
        /\ pc[t] = "spawn" => kind[cur[t]] = "start"
        /\ pc[t] \in {"check", "push", "notify"} =>
               kind[cur[t]] \in {"publish"} \cup Rpcs \cup Stoppers
        /\ pc[t] = "await" => kind[cur[t]] \in {"start"} \cup Rpcs
        /\ pc[t] \in {"join", "joining"} => kind[cur[t]] \in {"wait"} \cup Stoppers
        /\ pc[t] = "free" => kind[cur[t]] = "destroy"

\* No task is twice in the two queues, and none that ran is in them.
EachOnce == IsInjective(batch \o queue) /\ ToSet(batch \o queue) \cap ToSet(ran) = {}

\* A promise that is set belongs to a Start or to a task that ran; the broker is only
\* asked for what has a promise to set; so is the Start of the network thread until
\* isPromiseFulfilled, and a Start that did not create its thread yet.
PromiseInv ==
    /\ \A c \in Calls : promise[c] # "unset" => kind[c] = "start" \/ c \in ToSet(ran)
    /\ \A c \in Calls : awaiting[c] > 0 =>
           c \in ToSet(ran) /\ kind[c] \in Rpcs /\ promise[c] = "unset"
    /\ net # "none" => starter \in Calls
    /\ starter \in Calls => kind[starter] = "start" /\ (fulfilled \/ promise[starter] = "unset")
    /\ \A t \in Threads : pc[t] = "spawn" => cur[t] # starter /\ promise[cur[t]] = "unset"

\* "true" is what the broker confirmed; it is told to no consumer callback, because no
\* promise of the callback's call can be set while the network thread is in the callback.
ConfirmedInv ==
    /\ \A c \in Calls : kind[c] \in Rpcs /\ promise[c] = "true" => c \in confirmed
    /\ \A c \in Calls : kind[c] \in Rpcs /\ result[c] = "true" =>
           promise[c] = "true" /\ c \notin reentrant
    /\ \A c \in Calls : kind[c] = "none" => result[c] = "none" /\ c \notin reentrant
    /\ pc[Callback] # "idle" =>
           /\ net = "callback"
           /\ kind[cur[Callback]] \in Rpcs => promise[cur[Callback]] = "unset"
    /\ \A t \in Threads : pc[t] # "idle" /\ cur[t] \in reentrant => t = Callback

\* A Publish that found the flag set finds it set again, or was overtaken; what is about to
\* be announced is in the queue, or was taken by an earlier notification.
PostedInv ==
    /\ \A t \in Threads :
           /\ pc[t] = "check" /\ kind[cur[t]] = "publish" => running \/ cur[t] \in overtaken
           /\ pc[t] = "notify" => cur[t] \in Posted
    /\ PublishedIsPosted

SafetyInv ==
    /\ RefinementInv /\ CallPlaces /\ EachOnce /\ PromiseInv /\ ConfirmedInv
    /\ PostedInv /\ PromiseOnce

-----------------------------------------------------------------------------
(* Where a step leaves the threads.                                        *)

\* A call gives its thread a call nobody made before, at a place of its kind, or is
\* answered at once.
LEMMA CallPlace ==
    ASSUME TypeOK, NEW t \in Threads, NEW c \in Calls, Call(t, c)
    PROVE  /\ t = Callback => net = "callback"
           /\ lifetime = "alive"
           /\ reentrant' = IF t = Callback THEN reentrant \cup {c} ELSE reentrant
           /\ \E k \in AllKinds :
                 /\ kind' = [kind EXCEPT ![c] = k]
                 /\ \/ /\ UNCHANGED <<pc, cur>>
                       /\ \E v \in {"true", "false", "void"} :
                             result' = [result EXCEPT ![c] = v] /\ (k \in Rpcs => v # "true")
                    \/ \E l \in Labels :
                          /\ pc' = [pc EXCEPT ![t] = l] /\ cur' = [cur EXCEPT ![t] = c]
                          /\ UNCHANGED result
                          /\ \/ l = "spawn" /\ k = "start" /\ ~running
                             \/ l = "check" /\ k \in {"publish"} \cup Rpcs \cup Stoppers
                             \/ l = "join" /\ k = "wait"
                             \/ l = "free" /\ k = "destroy" /\ ~running
           /\ UNCHANGED <<networkVars, joinable, queue, notified, net, starter, fulfilled, crashed>>
<1> USE DEF Issue, Enter, Answer, AllKinds, Labels, Rpcs, Stoppers, InCallback
<1>1. CASE CallStart(t, c)
  BY <1>1 DEF CallStart
<1>2. CASE CallStop(t, c)
  BY <1>2 DEF CallStop
<1>3. CASE CallDestroy(t, c)
  BY <1>3 DEF CallDestroy
<1>4. CASE CallWait(t, c)
  BY <1>4 DEF CallWait, shared
<1>5. CASE CallPublish(t, c)
  BY <1>5 DEF CallPublish, shared
<1>6. CASE CallRpc(t, c)
  BY <1>6 DEF CallRpc, shared
<1> QED BY <1>1, <1>2, <1>3, <1>4, <1>5, <1>6 DEF Call

\* A step inside a call changes nothing of the network thread's, keeps its thread at a
\* place of the call, and tells the end of a Declare or Consume what its promise says.
LEMMA ProceedPlace ==
    ASSUME TypeOK, CallPlaces, NEW t \in Threads, Proceed(t)
    PROVE  /\ UNCHANGED <<callVars, networkVars>>
           /\ \/ UNCHANGED result
              \/ \E v \in {"true", "false", "void"} :
                    /\ result' = [result EXCEPT ![cur[t]] = v]
                    /\ kind[cur[t]] \in Rpcs /\ v = "true" => promise[cur[t]] = "true"
           /\ \/ pc'[t] = "idle"
              \/ pc'[t] = pc[t]
              \/ pc'[t] \in {"push", "notify"} /\ pc[t] \in {"check", "push"}
              \/ pc'[t] = "await" /\ kind[cur[t]] \in {"start"} \cup Rpcs
              \/ pc'[t] = "join" /\ kind[cur[t]] \in Stoppers
              \/ pc'[t] = "joining" /\ pc[t] = "join"
              \/ pc'[t] = "free" /\ kind[cur[t]] = "destroy"
<1> USE DEF Goto, Return, threadVars, TypeOK, ThreadTypeOK, TaskTypeOK, Rpcs, Stoppers
<1>0. AfterPost(t) /\ pc[t] \in {"check", "notify"} =>
          /\ \/ UNCHANGED result
             \/ /\ kind[cur[t]] = "publish"
                /\ result' = [result EXCEPT ![cur[t]] = "true"]
          /\ \/ pc'[t] = "idle"
             \/ pc'[t] = "await" /\ kind[cur[t]] \in Rpcs
             \/ pc'[t] = "join" /\ kind[cur[t]] \in Stoppers
  <2> SUFFICES ASSUME AfterPost(t), pc[t] \in {"check", "notify"}
               PROVE  /\ \/ UNCHANGED result
                         \/ /\ kind[cur[t]] = "publish"
                            /\ result' = [result EXCEPT ![cur[t]] = "true"]
                      /\ \/ pc'[t] = "idle"
                         \/ pc'[t] = "await" /\ kind[cur[t]] \in Rpcs
                         \/ pc'[t] = "join" /\ kind[cur[t]] \in Stoppers
    OBVIOUS
  <2>1. CASE kind[cur[t]] = "publish"
    BY <2>1 DEF AfterPost
  <2>2. CASE kind[cur[t]] \in Rpcs
    BY <2>2 DEF AfterPost
  <2>3. CASE kind[cur[t]] \in Stoppers
    BY <2>3 DEF AfterPost
  <2> QED BY <2>1, <2>2, <2>3 DEF CallPlaces
<1>1. CASE Spawn(t) \/ Push(t)
  BY <1>1 DEF Spawn, Push, CallPlaces
<1>2. CASE SpawnOverJoinable(t) \/ JoinSelf(t) \/ JoinTwice(t)
  BY <1>2 DEF SpawnOverJoinable, JoinSelf, JoinTwice, Crash
<1>3. CASE PostCheck(t)
  BY <1>0, <1>3 DEF PostCheck, shared
<1>4. CASE Notify(t)
  BY <1>0, <1>4 DEF Notify
<1>5. CASE Answered(t) \/ TimedOut(t)
  BY <1>5 DEF Answered, TimedOut, shared
<1>6. CASE Free(t)
  BY <1>6 DEF Free
<1>7. CASE JoinCheck(t)
  BY <1>7 DEF JoinCheck, AfterJoin, shared
<1>8. CASE JoinDone(t)
  BY <1>8 DEF JoinDone, AfterJoin
<1> QED BY <1>1, <1>2, <1>3, <1>4, <1>5, <1>6, <1>7, <1>8 DEF Proceed

LEMMA CallPlacesStep ==
    ASSUME TypeOK, Ownership, CallPlaces, Next
    PROVE  CallPlaces'
<1>1. ASSUME NEW t \in Threads, NEW c \in Calls, Call(t, c)
      PROVE  CallPlaces'
  <2>1. PICK k \in AllKinds :
            /\ kind' = [kind EXCEPT ![c] = k]
            /\ \/ UNCHANGED <<pc, cur>>
               \/ \E l \in Labels :
                     /\ pc' = [pc EXCEPT ![t] = l] /\ cur' = [cur EXCEPT ![t] = c]
                     /\ \/ l = "spawn" /\ k = "start"
                        \/ l = "check" /\ k \in {"publish"} \cup Rpcs \cup Stoppers
                        \/ l = "join" /\ k = "wait"
                        \/ l = "free" /\ k = "destroy"
    BY <1>1, CallPlace
  <2>2. kind'[c] = k /\ \A d \in Calls : d # c => kind'[d] = kind[d]
    BY <2>1 DEF TypeOK, TaskTypeOK
  <2>3. \A u \in Threads : pc[u] # "idle" => cur[u] # c /\ cur[u] \in Calls
    BY <1>1, CallEffect DEF Ownership, TypeOK, ThreadTypeOK
  <2>4. ASSUME NEW u \in Threads, pc'[u] = pc[u], cur'[u] = cur[u], pc[u] # "idle"
        PROVE  kind'[cur'[u]] = kind[cur[u]]
    BY <2>2, <2>3, <2>4
  <2>5. CASE UNCHANGED <<pc, cur>>
    BY <2>4, <2>5 DEF CallPlaces
  <2>6. CASE \E l \in Labels :
                /\ pc' = [pc EXCEPT ![t] = l] /\ cur' = [cur EXCEPT ![t] = c]
                /\ \/ l = "spawn" /\ k = "start"
                   \/ l = "check" /\ k \in {"publish"} \cup Rpcs \cup Stoppers
                   \/ l = "join" /\ k = "wait"
                   \/ l = "free" /\ k = "destroy"
    <3>1. \A u \in Threads \ {t} : pc'[u] = pc[u] /\ cur'[u] = cur[u]
      BY <2>6 DEF TypeOK, ThreadTypeOK
    <3>2. cur'[t] = c /\ kind'[c] = k
      BY <2>2, <2>6 DEF TypeOK, ThreadTypeOK
    <3>3. \/ pc'[t] = "spawn" /\ k = "start"
          \/ pc'[t] = "check" /\ k \in {"publish"} \cup Rpcs \cup Stoppers
          \/ pc'[t] = "join" /\ k = "wait"
          \/ pc'[t] = "free" /\ k = "destroy"
      BY <2>6 DEF TypeOK, ThreadTypeOK
    <3> QED BY <2>4, <3>1, <3>2, <3>3 DEF CallPlaces
  <2> QED BY <2>1, <2>5, <2>6
<1>2. ASSUME NEW t \in Threads, Proceed(t)
      PROVE  CallPlaces'
  <2>1. /\ pc[t] # "idle" /\ kind' = kind
        /\ \A u \in Threads \ {t} : pc'[u] = pc[u] /\ cur'[u] = cur[u]
        /\ pc'[t] # "idle" => cur'[t] = cur[t]
    BY <1>2, ProceedEffect
  <2> QED BY <1>2, <2>1, ProceedPlace DEF CallPlaces
<1>3. CASE Network \/ Broker
  BY <1>3, NetworkFrame DEF callerVars, threadVars, callVars, CallPlaces
<1> QED BY <1>1, <1>2, <1>3 DEF Next

-----------------------------------------------------------------------------
(* Promises.                                                               *)

LEMMA EachOnceStep ==
    ASSUME TypeOK, PostedOnce, EachOnce, Next
    PROVE  EachOnce'
<1>0. batch \o queue \in Seq(Calls) /\ ran \in Seq(Calls)
  BY BoxTypes
<1>1. CASE UNCHANGED <<batch \o queue, ran>>
  BY <1>1 DEF EachOnce
<1>2. ASSUME NEW t \in Threads, Push(t)
      PROVE  EachOnce'
  <2>1. cur[t] \in Calls /\ batch' \o queue' = Append(batch \o queue, cur[t]) /\ ran' = ran
    BY <1>2, PushEffect
  <2>2. cur[t] \notin ToSet(batch \o queue) /\ cur[t] \notin ToSet(ran)
    BY <1>2 DEF Push, PostedOnce, Posted
  <2>3. IsInjective(Append(batch \o queue, cur[t]))
    BY <1>0, <2>1, <2>2, InjectiveAppend DEF EachOnce
  <2>4. ToSet(Append(batch \o queue, cur[t])) = ToSet(batch \o queue) \cup {cur[t]}
    <3>1. \A b \in Seq(Calls) : ToSet(Append(b, cur[t])) = ToSet(b) \cup {cur[t]}
      BY <2>1, ToSetAppend
    <3> QED BY <1>0, <3>1
  <2> QED BY <2>1, <2>2, <2>3, <2>4 DEF EachOnce
<1>3. CASE TakeTask
  <2> DEFINE box == batch \o queue
  <2>1. box # <<>> /\ batch' \o queue' = Tail(box) /\ ran' = Append(ran, Head(box))
    BY <1>3, TakeEffect
  <2>2. IsInjective(box) /\ ToSet(box) \cap ToSet(ran) = {} /\ box \in Seq(Calls)
    BY <1>0 DEF EachOnce
  <2> HIDE DEF box
  <2>3. Head(box) \in Calls
    BY <2>1, <2>2, HeadTailProperties
  <2>4. ToSet(Append(ran, Head(box))) = ToSet(ran) \cup {Head(box)}
    BY <1>0, <2>3, ToSetAppend
  <2>5. ToSet(box) = {Head(box)} \cup ToSet(Tail(box))
    BY <2>1, <2>2, ToSetHeadTail
  <2>6. IsInjective(Tail(box)) /\ Head(box) \notin ToSet(Tail(box))
    BY <2>1, <2>2, InjectiveTail
  <2> QED BY <2>1, <2>2, <2>4, <2>5, <2>6 DEF EachOnce
<1>4. ASSUME NEW t \in Threads, NEW c \in Calls, Call(t, c)
      PROVE  UNCHANGED <<batch \o queue, ran>>
  BY <1>4, CallEffect
<1>5. ASSUME NEW t \in Threads, Proceed(t), ~Push(t)
      PROVE  UNCHANGED <<batch \o queue, ran>>
  BY <1>5, ProceedBoxes
<1>6. CASE AsyncFire
  BY <1>1, <1>6, SwapEffect
<1>7. CASE (Network \/ Broker) /\ ~TakeTask /\ ~AsyncFire
  BY <1>1, <1>7, OtherNetworkSteps
<1> QED BY <1>1, <1>2, <1>3, <1>4, <1>5, <1>6, <1>7 DEF Next

\* The task that runs next has not run, and nothing set its promise or waits for it.
LEMMA HeadIsNew ==
    ASSUME TypeOK, PostedOnce, EachOnce, PromiseInv, batch # <<>>
    PROVE  /\ Head(batch) \in Calls
           /\ kind[Head(batch)] # "none"
           /\ kind[Head(batch)] # "start" => promise[Head(batch)] = "unset"
           /\ ~(awaiting[Head(batch)] > 0)
<1>1. Head(batch) \in Calls /\ Head(batch) \in ToSet(batch \o queue)
  BY BoxTypes, HeadTailProperties, ToSetHeadTail, ToSetConcat
<1>2. Head(batch) \in Posted /\ Head(batch) \notin ToSet(ran)
  BY <1>1 DEF Posted, EachOnce
<1> QED BY <1>1, <1>2 DEF PostedOnce, PromiseInv

\* A promise that is set for the first time does not throw.
LEMMA FulfilEffect ==
    ASSUME NEW S, NEW v, Fulfil(S, v), \A c \in S : promise[c] = "unset"
    PROVE  /\ crashed' = crashed
           /\ promise' = [c \in Calls |-> IF c \in S THEN v ELSE promise[c]]
BY DEF Fulfil

\* What the network thread and the broker do to the promises, and to what rests on them:
\* they set promises that are not set, of calls that waited for the broker, of the Start
\* of the network thread, or of a task that found no channel.
LEMMA NetworkPromises ==
    ASSUME TypeOK, PostedOnce, EachOnce, PromiseInv, Network \/ Broker
    PROVE  /\ crashed' = crashed
           /\ starter' = starter
           /\ net # "none" /\ net' # "none"
           /\ fulfilled => fulfilled'
           /\ ToSet(ran) \subseteq ToSet(ran')
           /\ \A c \in Calls :
                 /\ \/ promise'[c] = promise[c]
                    \/ /\ promise[c] = "unset"
                       /\ net \in {"loop", "batch"}
                       /\ \/ c = starter /\ fulfilled'
                          \/ kind[c] \in Rpcs /\ c \in ToSet(ran') /\ ~(awaiting'[c] > 0)
                       /\ kind[c] \in Rpcs /\ promise'[c] = "true" => c \in confirmed'
                 /\ awaiting'[c] > 0 => awaiting[c] > 0 \/ (kind[c] \in Rpcs /\ c \in ToSet(ran'))
                 /\ awaiting'[c] > 0 /\ ~(awaiting[c] > 0) => promise'[c] = "unset"
           /\ confirmed \subseteq confirmed'
<1>0. \A c \in Calls : ToSet(Append(ran, c)) = ToSet(ran) \cup {c}
  BY BoxTypes, ToSetAppend
<1>F. fulfilled \in BOOLEAN
  BY DEF TypeOK, FlagTypeOK
<1>1. CASE RunRpc
  <2>1. /\ Head(batch) \in Calls /\ batch # <<>> /\ net = "batch"
        /\ promise[Head(batch)] = "unset" /\ ~(awaiting[Head(batch)] > 0)
        /\ kind[Head(batch)] \in Rpcs
    BY <1>1, HeadIsNew DEF RunRpc, TakeTask, Rpcs
  <2>2. ToSet(ran') = ToSet(ran) \cup {Head(batch)}
    BY <1>0, <1>1, <2>1 DEF RunRpc, TakeTask
  <2>3. UNCHANGED <<net, starter, fulfilled, confirmed>>
    BY <1>1 DEF RunRpc, TakeTask, callerVars
  <2>4. CASE Connected
    <3>1. /\ awaiting' = [awaiting EXCEPT ![Head(batch)] = Stages(kind[Head(batch)])]
          /\ UNCHANGED <<promise, crashed>>
      BY <1>1, <2>4 DEF RunRpc
    <3>2. \A c \in Calls : c # Head(batch) => awaiting'[c] = awaiting[c]
      BY <3>1 DEF TypeOK, TaskTypeOK
    <3> QED BY <1>F, <2>1, <2>2, <2>3, <3>1, <3>2
  <2>5. CASE ~Connected
    <3>1. Fulfil({Head(batch)}, "false") /\ awaiting' = awaiting
      BY <1>1, <2>5 DEF RunRpc
    <3>2. /\ crashed' = crashed
          /\ promise' = [c \in Calls |-> IF c \in {Head(batch)} THEN "false" ELSE promise[c]]
      BY <2>1, <3>1, FulfilEffect
    <3> QED BY <1>F, <2>1, <2>2, <2>3, <3>1, <3>2
  <2> QED BY <2>4, <2>5
<1>2. CASE ChannelReady \/ ChannelError
  <2> DEFINE S == StarterUnlessFulfilled \cup {c \in Calls : awaiting[c] > 0}
  <2>1. \A c \in S : promise[c] = "unset"
    BY <1>2 DEF ChannelReady, ChannelError, StarterUnlessFulfilled, PromiseInv
  <2>2. /\ \A c \in Calls : awaiting[c] > 0 => kind[c] \in Rpcs /\ c \in ToSet(ran)
        /\ \A c \in StarterUnlessFulfilled : c = starter
    BY DEF StarterUnlessFulfilled, PromiseInv
  <2>3. starter \in Calls /\ kind[starter] \notin Rpcs
    BY <1>2 DEF ChannelReady, ChannelError, PromiseInv, Rpcs
  <2>4. /\ net = "loop" /\ fulfilled' = TRUE
        /\ UNCHANGED <<net, starter, ran, confirmed>>
    BY <1>2 DEF ChannelReady, ChannelError, callerVars, historyVars
  <2>5. CASE ChannelReady
    <3>1. Fulfil(StarterUnlessFulfilled, "true") /\ awaiting' = awaiting
      BY <2>5 DEF ChannelReady
    <3>2. /\ crashed' = crashed
          /\ promise' = [c \in Calls |-> IF c \in StarterUnlessFulfilled THEN "true" ELSE promise[c]]
      BY <2>1, <3>1, FulfilEffect
    <3> QED BY <2>1, <2>2, <2>3, <2>4, <3>1, <3>2
  <2>6. CASE ChannelError
    <3>1. Fulfil(S, "false") /\ awaiting' = [c \in Calls |-> 0]
      BY <2>6 DEF ChannelError
    <3>2. /\ crashed' = crashed
          /\ promise' = [c \in Calls |-> IF c \in S THEN "false" ELSE promise[c]]
      BY <2>1, <3>1, FulfilEffect
    <3> QED BY <2>1, <2>2, <2>3, <2>4, <3>1, <3>2
  <2> QED BY <1>2, <2>5, <2>6
<1>3. ASSUME NEW d \in Calls, BrokerReply(d)
      PROVE  /\ crashed' = crashed
             /\ \A c \in Calls :
                 /\ \/ promise'[c] = promise[c]
                    \/ /\ promise[c] = "unset"
                       /\ kind[c] \in Rpcs /\ c \in ToSet(ran') /\ ~(awaiting'[c] > 0)
                       /\ c \in confirmed'
                 /\ awaiting'[c] > 0 => awaiting[c] > 0
             /\ UNCHANGED <<net, starter, fulfilled, ran>>
             /\ net = "loop" /\ confirmed \subseteq confirmed'
  <2>1. /\ promise[d] = "unset" /\ kind[d] \in Rpcs /\ d \in ToSet(ran)
        /\ awaiting[d] \in 1..3
    BY <1>3 DEF BrokerReply, PromiseInv, TypeOK, TaskTypeOK
  <2>2. /\ awaiting' = [awaiting EXCEPT ![d] = @ - 1]
        /\ UNCHANGED <<net, starter, fulfilled, ran>> /\ net = "loop"
    BY <1>3 DEF BrokerReply, callerVars
  <2>3. /\ \A c \in Calls : awaiting'[c] > 0 => awaiting[c] > 0
        /\ awaiting[d] = 1 => ~(awaiting'[d] > 0)
    <3>1. awaiting \in [Calls -> 0..3]
      BY DEF TypeOK, TaskTypeOK
    <3> QED BY <2>1, <2>2, <3>1
  <2>4. CASE awaiting[d] > 1
    BY <1>3, <2>2, <2>3, <2>4 DEF BrokerReply
  <2>5. CASE awaiting[d] = 1
    <3>1. Fulfil({d}, "true") /\ confirmed' = confirmed \cup {d}
      BY <1>3, <2>5 DEF BrokerReply
    <3>2. /\ crashed' = crashed
          /\ promise' = [c \in Calls |-> IF c \in {d} THEN "true" ELSE promise[c]]
      BY <2>1, <3>1, FulfilEffect
    <3> QED BY <2>1, <2>2, <2>3, <2>5, <3>1, <3>2
  <2> QED BY <2>1, <2>4, <2>5
<1>4. CASE RunPublish \/ RunStop
  <2>1. UNCHANGED <<crashed, starter, net, fulfilled, promise, awaiting, confirmed>> /\ net = "batch"
    BY <1>4 DEF RunPublish, RunStop, TakeTask, callerVars
  <2>2. Head(batch) \in Calls
    BY <1>4, HeadIsNew DEF RunPublish, RunStop, TakeTask
  <2>3. ToSet(ran') = ToSet(ran) \cup {Head(batch)}
    BY <1>0, <1>4, <2>2 DEF RunPublish, RunStop, TakeTask
  <2> QED BY <1>F, <2>1, <2>3
<1>5. CASE Exit
  BY <1>5 DEF Exit, NetGoto, callerVars, historyVars
<1>6. CASE Connect \/ AsyncFire \/ BatchEnd \/ CallbackReturn \/ LoopDrains \/ DeliverMessage
  BY <1>F, <1>6 DEF Connect, AsyncFire, BatchEnd, CallbackReturn, LoopDrains, DeliverMessage, NetGoto,
     callerVars, channelVars, historyVars
<1>7. CASE \E d \in Calls : BrokerReply(d)
  <2>1. PICK d \in Calls : BrokerReply(d)
    BY <1>7
  <2> QED BY <1>F, <1>3, <2>1
<1> QED BY <1>1, <1>2, <1>4, <1>5, <1>6, <1>7 DEF Network, Broker

\* What a call inserts in kind, as functions.
LEMMA NewCall ==
    ASSUME TypeOK, PostedOnce, PromiseInv, Ownership,
           NEW t \in Threads, NEW c \in Calls, Call(t, c)
    PROVE  /\ kind[c] = "none" /\ pc[t] = "idle"
           /\ kind'[c] \in AllKinds
           /\ \A d \in Calls : d # c => kind'[d] = kind[d]
           /\ c \notin ToSet(ran) /\ c # starter
           /\ promise[c] = "unset" /\ ~(awaiting[c] > 0)
           /\ \A u \in Threads : u # t => pc'[u] = pc[u] /\ cur'[u] = cur[u]
           /\ pc'[t] # "idle" => cur'[t] = c
           /\ \A u \in Threads : pc[u] # "idle" => cur[u] \in Calls /\ cur[u] # c
<1>1. kind[c] = "none" /\ pc[t] = "idle"
  BY CallEffect
<1>2. c \notin ToSet(ran) /\ c # starter
  BY <1>1 DEF PostedOnce, Posted, PromiseInv
<1>3. promise[c] = "unset" /\ ~(awaiting[c] > 0)
  BY <1>1, <1>2 DEF PromiseInv
<1>4. kind'[c] \in AllKinds /\ \A d \in Calls : d # c => kind'[d] = kind[d]
  BY CallEffect DEF TypeOK, TaskTypeOK
<1>5. /\ \A u \in Threads : u # t => pc'[u] = pc[u] /\ cur'[u] = cur[u]
      /\ pc'[t] # "idle" => cur'[t] = c
  BY <1>1, CallEffect DEF TypeOK, ThreadTypeOK
<1>6. \A u \in Threads : pc[u] # "idle" => cur[u] \in Calls /\ cur[u] # c
  BY <1>1 DEF Ownership, TypeOK, ThreadTypeOK
<1> QED BY <1>1, <1>2, <1>3, <1>4, <1>5, <1>6

LEMMA PromiseStep ==
    ASSUME TypeOK, Ownership, PostedOnce, EachOnce, CallPlaces, PromiseInv, Next
    PROVE  PromiseInv'
<1>1. ASSUME NEW t \in Threads, NEW c \in Calls, Call(t, c)
      PROVE  PromiseInv'
  <2>1. UNCHANGED <<promise, awaiting, ran, net, starter, fulfilled>>
    BY <1>1, CallPlace DEF networkVars, channelVars, historyVars
  <2>2. \A d \in Calls : promise[d] # "unset" \/ awaiting[d] > 0 \/ d = starter => kind'[d] = kind[d]
    BY <1>1, NewCall
  <2>3. \A u \in Threads : pc'[u] = "spawn" => cur'[u] # starter /\ promise[cur'[u]] = "unset"
    BY <1>1, NewCall DEF PromiseInv
  <2> QED BY <2>1, <2>2, <2>3 DEF PromiseInv
<1>2. ASSUME NEW t \in Threads, Proceed(t)
      PROVE  PromiseInv'
  <2>1. UNCHANGED <<promise, awaiting, ran, kind>>
    BY <1>2, ProceedPlace DEF callVars, networkVars, channelVars, historyVars
  <2>2. /\ \A u \in Threads \ {t} : pc'[u] = pc[u] /\ cur'[u] = cur[u]
        /\ pc'[t] = "spawn" => pc[t] = "spawn" /\ cur'[t] = cur[t]
    BY <1>2, ProceedEffect, ProceedPlace
  <2>3. CASE Spawn(t)
    <3>1. pc[t] = "spawn" /\ starter' = cur[t] /\ pc'[t] = "await" /\ cur[t] \in Calls
      BY <2>3 DEF Spawn, Goto, TypeOK, ThreadTypeOK
    <3>2. kind[cur[t]] = "start" /\ promise[cur[t]] = "unset"
      BY <3>1 DEF CallPlaces, PromiseInv
    <3>3. \A u \in Threads : pc'[u] = "spawn" => cur'[u] # cur[t] /\ promise[cur'[u]] = "unset"
      BY <2>2, <3>1 DEF PromiseInv, Ownership
    <3> QED BY <2>1, <3>1, <3>2, <3>3 DEF PromiseInv
  <2>4. CASE ~Spawn(t)
    <3>1. UNCHANGED <<starter, fulfilled, net>>
      BY <1>2, <2>4 DEF Proceed, SpawnOverJoinable, PostCheck, Push, Notify, Answered, TimedOut,
         JoinCheck, JoinDone, JoinSelf, JoinTwice, Free, Crash, shared
    <3>2. \A u \in Threads : pc'[u] = "spawn" => pc[u] = "spawn" /\ cur'[u] = cur[u]
      BY <2>2
    <3> QED BY <2>1, <3>1, <3>2 DEF PromiseInv
  <2> QED BY <2>3, <2>4
<1>3. CASE Network \/ Broker
  <2>1. UNCHANGED <<pc, cur, kind>>
    BY <1>3, NetworkFrame DEF callerVars, threadVars, callVars
  <2>2. starter' = starter /\ net # "none" /\ (fulfilled => fulfilled') /\ ToSet(ran) \subseteq ToSet(ran')
    BY <1>3, NetworkPromises
  <2>3. ASSUME NEW c \in Calls
        PROVE  /\ promise'[c] # "unset" => kind[c] = "start" \/ c \in ToSet(ran')
               /\ awaiting'[c] > 0 =>
                      c \in ToSet(ran') /\ kind[c] \in Rpcs /\ promise'[c] = "unset"
               /\ kind[c] = "start" /\ promise'[c] # promise[c] => c = starter /\ fulfilled'
    <3>1. \/ promise'[c] = promise[c]
          \/ /\ promise[c] = "unset"
             /\ \/ c = starter /\ fulfilled'
                \/ kind[c] \in Rpcs /\ c \in ToSet(ran') /\ ~(awaiting'[c] > 0)
      BY <1>3, NetworkPromises
    <3>2. /\ awaiting'[c] > 0 => awaiting[c] > 0 \/ (kind[c] \in Rpcs /\ c \in ToSet(ran'))
          /\ awaiting'[c] > 0 /\ ~(awaiting[c] > 0) => promise'[c] = "unset"
      BY <1>3, NetworkPromises
    <3>3. c = starter => kind[c] = "start"
      BY DEF PromiseInv
    <3> QED BY <2>2, <3>1, <3>2, <3>3 DEF PromiseInv, Rpcs
  <2>4. starter \in Calls
    BY <2>2 DEF PromiseInv
  <2>5. \A t \in Threads : pc[t] = "spawn" =>
            cur[t] \in Calls /\ kind[cur[t]] = "start" /\ cur[t] # starter
    BY DEF CallPlaces, PromiseInv, TypeOK, ThreadTypeOK
  <2>6. \A t \in Threads : pc[t] = "spawn" => promise'[cur[t]] = "unset"
    BY <2>3, <2>5 DEF PromiseInv
  <2>7. fulfilled' \/ promise'[starter] = "unset"
    BY <2>2, <2>3, <2>4 DEF PromiseInv
  <2> QED BY <2>1, <2>2, <2>3, <2>4, <2>5, <2>6, <2>7 DEF PromiseInv
<1> QED BY <1>1, <1>2, <1>3 DEF Next

LEMMA PromiseOnceStep ==
    ASSUME TypeOK, PostedOnce, EachOnce, PromiseInv, PromiseOnce, Next
    PROVE  PromiseOnce'
<1>1. ASSUME NEW t \in Threads, NEW c \in Calls, Call(t, c)
      PROVE  PromiseOnce'
  BY <1>1, CallPlace DEF PromiseOnce
<1>2. ASSUME NEW t \in Threads, Proceed(t)
      PROVE  PromiseOnce'
  BY <1>2 DEF Proceed, Spawn, SpawnOverJoinable, PostCheck, Push, Notify, Answered, TimedOut,
     JoinCheck, JoinDone, JoinSelf, JoinTwice, Free, Crash, shared, PromiseOnce
<1>3. CASE Network \/ Broker
  BY <1>3, NetworkPromises DEF PromiseOnce
<1> QED BY <1>1, <1>2, <1>3 DEF Next

-----------------------------------------------------------------------------
(* What Declare and Consume report.                                        *)

LEMMA ConfirmedStep ==
    ASSUME TypeOK, Ownership, NoThreadUnjoined, PostedOnce, EachOnce, CallPlaces, PromiseInv,
           ConfirmedInv, Next
    PROVE  ConfirmedInv'
<1>1. ASSUME NEW t \in Threads, NEW c \in Calls, Call(t, c)
      PROVE  ConfirmedInv'
  <2>1. /\ UNCHANGED <<promise, confirmed, net>>
        /\ t = Callback => net = "callback"
        /\ reentrant' = IF t = Callback THEN reentrant \cup {c} ELSE reentrant
    BY <1>1, CallPlace DEF networkVars, historyVars
  <2>2. /\ kind'[c] # "none" /\ \A d \in Calls : d # c => kind'[d] = kind[d]
        /\ kind[c] = "none" /\ promise[c] = "unset"
    BY <1>1, NewCall DEF AllKinds
  <2>3. /\ \A d \in Calls : d # c => result'[d] = result[d]
        /\ kind'[c] \in Rpcs => result'[c] # "true"
    <3>1. PICK k \in AllKinds :
              /\ kind' = [kind EXCEPT ![c] = k]
              /\ \/ UNCHANGED result
                 \/ \E v \in {"true", "false", "void"} :
                        result' = [result EXCEPT ![c] = v] /\ (k \in Rpcs => v # "true")
      BY <1>1, CallPlace
    <3>2. kind'[c] = k
      BY <3>1 DEF TypeOK, TaskTypeOK
    <3>3. result[c] = "none"
      BY <2>2 DEF ConfirmedInv
    <3> QED BY <3>1, <3>2, <3>3 DEF TypeOK, ThreadTypeOK
  <2>4. \A d \in Calls : d # c => (d \in reentrant' <=> d \in reentrant)
    BY <2>1
  <2>5. /\ \A u \in Threads : u # t => pc'[u] = pc[u] /\ cur'[u] = cur[u]
        /\ pc'[t] # "idle" => cur'[t] = c
        /\ \A u \in Threads : pc[u] # "idle" => cur[u] \in Calls /\ cur[u] # c
    BY <1>1, NewCall
  <2>6. pc'[Callback] # "idle" =>
            /\ net = "callback"
            /\ kind'[cur'[Callback]] \in Rpcs => promise[cur'[Callback]] = "unset"
    BY <2>1, <2>2, <2>5 DEF ConfirmedInv, Threads
  <2>7. c \notin reentrant
    BY <2>2 DEF ConfirmedInv
  <2>8. \A u \in Threads : pc'[u] # "idle" /\ cur'[u] \in reentrant' => u = Callback
    BY <2>1, <2>4, <2>5, <2>7 DEF ConfirmedInv
  <2> QED BY <2>1, <2>2, <2>3, <2>4, <2>6, <2>8 DEF ConfirmedInv
<1>2. ASSUME NEW t \in Threads, Proceed(t)
      PROVE  ConfirmedInv'
  <2>1. UNCHANGED <<promise, confirmed, kind, reentrant>>
    BY <1>2, ProceedPlace DEF callVars, networkVars, historyVars
  <2>2. /\ pc[t] # "idle"
        /\ \A u \in Threads \ {t} : pc'[u] = pc[u] /\ cur'[u] = cur[u]
        /\ pc'[t] # "idle" => cur'[t] = cur[t]
    BY <1>2, ProceedEffect
  <2>3. cur[t] \in Calls /\ kind[cur[t]] # "none"
    BY <2>2 DEF TypeOK, ThreadTypeOK, Ownership
  <2>4. kind[cur[t]] \in Rpcs /\ promise[cur[t]] = "true" => cur[t] \notin reentrant
    BY <2>2, <2>3 DEF ConfirmedInv
  <2>5. \A d \in Calls :
            \/ result'[d] = result[d]
            \/ d = cur[t] /\ (kind[d] \in Rpcs /\ result'[d] = "true" => promise[d] = "true")
    BY <1>2, <2>3, ProceedPlace DEF TypeOK, ThreadTypeOK
  <2>6. \A d \in Calls : kind[d] \in Rpcs /\ result'[d] = "true" =>
            promise[d] = "true" /\ d \notin reentrant
    BY <2>4, <2>5 DEF ConfirmedInv
  <2>7. pc[Callback] # "idle" => net' = net
    <3>1. pc[Callback] # "idle" => joinable
      BY DEF ConfirmedInv, NoThreadUnjoined
    <3>2. net' = net \/ ~joinable
      BY <1>2, ProceedBoxes, PushEffect
    <3> QED BY <3>1, <3>2
  <2>8. pc'[Callback] # "idle" => pc[Callback] # "idle" /\ cur'[Callback] = cur[Callback]
    BY <2>2 DEF Threads
  <2>9. \A d \in Calls : kind[d] = "none" => result'[d] = "none"
    BY <2>3, <2>5 DEF ConfirmedInv
  <2> QED BY <2>1, <2>2, <2>6, <2>7, <2>8, <2>9 DEF ConfirmedInv
<1>3. CASE Network \/ Broker
  <2>1. UNCHANGED <<pc, cur, result, kind, reentrant>>
    BY <1>3, NetworkFrame DEF callerVars, threadVars, callVars
  <2>2. /\ \A c \in Calls :
               \/ promise'[c] = promise[c]
               \/ /\ promise[c] = "unset" /\ net \in {"loop", "batch"}
                  /\ kind[c] \in Rpcs /\ promise'[c] = "true" => c \in confirmed'
        /\ confirmed \subseteq confirmed'
    BY <1>3, NetworkPromises
  <2>3. pc[Callback] # "idle" => net = "callback" /\ cur[Callback] \in Calls
    BY DEF ConfirmedInv, TypeOK, ThreadTypeOK, Threads
  <2>4. pc[Callback] # "idle" => net' = "callback"
    <3> SUFFICES ASSUME pc[Callback] # "idle" PROVE net' = "callback"
      OBVIOUS
    <3>1. net = "callback"
      BY <2>3
    <3>2. CASE Network
      BY <3>1, <3>2 DEF Network, Connect, AsyncFire, RunPublish, RunRpc, RunStop, TakeTask,
         BatchEnd, CallbackReturn, LoopDrains, Exit, NetGoto
    <3>3. CASE Broker
      BY <3>1, <3>3 DEF Broker, ChannelReady, ChannelError, DeliverMessage, BrokerReply, NetGoto
    <3> QED BY <1>3, <3>2, <3>3
  <2>5. pc[Callback] # "idle" => promise'[cur[Callback]] = promise[cur[Callback]]
    BY <2>2, <2>3
  <2>6. \A c \in Calls : promise[c] = "true" => promise'[c] = "true"
    BY <2>2
  <2> QED BY <2>1, <2>2, <2>4, <2>5, <2>6 DEF ConfirmedInv
<1> QED BY <1>1, <1>2, <1>3 DEF Next

-----------------------------------------------------------------------------
(* What Publish reports.                                                   *)

\* A call that takes the flag away marks who is between two looks at it, unless nobody is;
\* a Publish that finds it clear is answered at once, and not with true.
LEMMA PublishCall ==
    ASSUME TypeOK, NEW t \in Threads, NEW c \in Calls, Call(t, c)
    PROVE  /\ overtaken \subseteq overtaken'
           /\ kind'[c] = "publish" =>
                  /\ pc'[t] = "check" => running' = TRUE
                  /\ result'[c] = "true" => result[c] = "true"
           /\ \A d \in Calls : d # c => result'[d] = result[d]
           /\ \/ running' = running
              \/ running' = TRUE
              \/ Checking \subseteq overtaken'
              \/ \A u \in Threads : pc[u] = "idle"
<1> USE DEF Issue, Enter, Answer, TypeOK, ThreadTypeOK, TaskTypeOK, FlagTypeOK
<1>1. CASE CallStart(t, c)
  BY <1>1 DEF CallStart
<1>2. CASE CallStop(t, c)
  BY <1>2 DEF CallStop
<1>3. CASE CallDestroy(t, c)
  BY <1>3 DEF CallDestroy
<1>4. CASE CallWait(t, c)
  BY <1>4 DEF CallWait, shared
<1>5. CASE CallPublish(t, c)
  BY <1>5 DEF CallPublish, shared
<1>6. CASE CallRpc(t, c)
  BY <1>6 DEF CallRpc, shared
<1> QED BY <1>1, <1>2, <1>3, <1>4, <1>5, <1>6 DEF Call

\* Inside a Publish, true is returned behind the notification or where the flag was found
\* clear; only a push leads to a notification.
LEMMA PublishReturn ==
    ASSUME TypeOK, CallPlaces, NEW t \in Threads, Proceed(t)
    PROVE  /\ UNCHANGED <<running, overtaken>>
           /\ Push(t) \/ pc'[t] # "notify" \/ UNCHANGED <<pc, cur>>
           /\ \/ UNCHANGED result
              \/ \E v \in {"true", "false", "void"} :
                    /\ result' = [result EXCEPT ![cur[t]] = v]
                    /\ kind[cur[t]] = "publish" =>
                           pc[t] = "notify" \/ (pc[t] = "check" /\ ~running)
<1> USE DEF Goto, Return, threadVars, callVars, TypeOK, ThreadTypeOK, TaskTypeOK, Rpcs, Stoppers
<1>0. AfterPost(t) =>
          /\ pc'[t] # "notify"
          /\ UNCHANGED result \/ result' = [result EXCEPT ![cur[t]] = "true"]
  BY DEF AfterPost
<1>1. CASE Spawn(t) \/ Push(t)
  BY <1>1 DEF Spawn, Push
<1>2. CASE SpawnOverJoinable(t) \/ JoinSelf(t) \/ JoinTwice(t)
  BY <1>2 DEF SpawnOverJoinable, JoinSelf, JoinTwice, Crash
<1>3. CASE PostCheck(t)
  <2>1. CASE running
    BY <1>3, <2>1 DEF PostCheck, shared
  <2>2. CASE ~running
    BY <1>0, <1>3, <2>2 DEF PostCheck, shared
  <2> QED BY <2>1, <2>2
<1>4. CASE Notify(t)
  BY <1>0, <1>4 DEF Notify
<1>5. CASE Answered(t) \/ TimedOut(t)
  BY <1>5 DEF Answered, TimedOut, shared, CallPlaces
<1>6. CASE Free(t)
  BY <1>6 DEF Free, CallPlaces
<1>7. CASE JoinCheck(t)
  BY <1>7 DEF JoinCheck, AfterJoin, shared, CallPlaces
<1>8. CASE JoinDone(t)
  BY <1>8 DEF JoinDone, AfterJoin, CallPlaces
<1> QED BY <1>1, <1>2, <1>3, <1>4, <1>5, <1>6, <1>7, <1>8 DEF Proceed

\* No step takes a task out of the mailbox and of what was run.
LEMMA PostedStays ==
    ASSUME TypeOK, PostedOnce, Next
    PROVE  Posted \subseteq Posted'
<1>1. ASSUME NEW t \in Threads, NEW c \in Calls, Call(t, c)
      PROVE  Posted' = Posted
  BY <1>1, CallEffect DEF Posted
<1>2. ASSUME NEW t \in Threads, Push(t)
      PROVE  Posted \subseteq Posted'
  BY <1>2, PushEffect
<1>3. ASSUME NEW t \in Threads, Proceed(t), ~Push(t)
      PROVE  Posted' = Posted
  BY <1>3, ProceedBoxes DEF Posted
<1>4. CASE TakeTask
  BY <1>4, TakeEffect
<1>5. CASE AsyncFire
  BY <1>5, SwapEffect
<1>6. CASE (Network \/ Broker) /\ ~TakeTask /\ ~AsyncFire
  BY <1>6, OtherNetworkSteps DEF Posted
<1> QED BY <1>1, <1>2, <1>3, <1>4, <1>5, <1>6 DEF Next

LEMMA PostedStep ==
    ASSUME TypeOK, Ownership, PostedOnce, CallPlaces, PromiseInv, ConfirmedInv, PostedInv, Next
    PROVE  PostedInv'
<1>0. Posted \subseteq Posted'
  BY PostedStays
<1>R. ASSUME NEW c \in Calls, kind[c] = "publish", result[c] = "true"
      PROVE  c \in Posted \/ c \in overtaken
  BY <1>R DEF PostedInv, PublishedIsPosted, Posted
<1>P. ASSUME \A c \in Calls : kind'[c] = "publish" /\ result'[c] = "true" =>
                 c \in Posted' \/ c \in overtaken'
      PROVE  PublishedIsPosted'
  BY <1>P DEF PublishedIsPosted, Posted
<1>1. ASSUME NEW t \in Threads, NEW c \in Calls, Call(t, c)
      PROVE  PostedInv'
  <2>1. /\ kind[c] = "none" /\ \A d \in Calls : d # c => kind'[d] = kind[d]
        /\ \A u \in Threads : u # t => pc'[u] = pc[u] /\ cur'[u] = cur[u]
        /\ pc'[t] # "idle" => cur'[t] = c
        /\ \A u \in Threads : pc[u] # "idle" => cur[u] \in Calls /\ cur[u] # c
    BY <1>1, NewCall
  <2>2. result[c] = "none"
    BY <2>1 DEF ConfirmedInv
  <2>3. ASSUME NEW d \in Calls, kind'[d] = "publish", result'[d] = "true"
        PROVE  d \in Posted' \/ d \in overtaken'
    <3>1. d # c
      BY <1>1, <2>2, <2>3, PublishCall
    <3> QED BY <1>0, <1>1, <1>R, <2>1, <2>3, <3>1, PublishCall
  <2>4. ASSUME NEW u \in Threads, pc'[u] = "notify"
        PROVE  cur'[u] \in Posted'
    <3>1. u # t
      BY <1>1, <2>4, CallPlace, CallEffect DEF TypeOK, ThreadTypeOK
    <3> QED BY <1>0, <2>1, <2>4, <3>1 DEF PostedInv
  <2>5. ASSUME NEW u \in Threads, pc'[u] = "check", kind'[cur'[u]] = "publish"
        PROVE  running' \/ cur'[u] \in overtaken'
    <3>1. CASE u = t
      BY <1>1, <2>1, <2>5, <3>1, PublishCall
    <3>2. CASE u # t
      <4>1. pc[u] = "check" /\ cur'[u] = cur[u] /\ kind[cur[u]] = "publish"
        BY <2>1, <2>5, <3>2
      <4>2. running \/ cur[u] \in overtaken
        BY <4>1 DEF PostedInv
      <4>3. cur[u] \in Checking
        BY <4>1 DEF Checking
      <4> QED BY <1>1, <4>1, <4>2, <4>3, PublishCall
    <3> QED BY <3>1, <3>2
  <2> QED BY <1>P, <2>3, <2>4, <2>5 DEF PostedInv
<1>2. ASSUME NEW t \in Threads, Proceed(t)
      PROVE  PostedInv'
  <2>1. /\ pc[t] # "idle" /\ kind' = kind
        /\ \A u \in Threads \ {t} : pc'[u] = pc[u] /\ cur'[u] = cur[u]
        /\ pc'[t] # "check" \/ UNCHANGED <<pc, cur>>
    BY <1>2, ProceedEffect DEF threadVars
  <2>2. UNCHANGED <<running, overtaken>> /\ (Push(t) \/ pc'[t] # "notify" \/ UNCHANGED <<pc, cur>>)
    BY <1>2, PublishReturn
  <2>3. cur[t] \in Calls
    BY <2>1 DEF TypeOK, ThreadTypeOK
  <2>4. ASSUME NEW d \in Calls, kind[d] = "publish", result'[d] = "true"
        PROVE  d \in Posted' \/ d \in overtaken
    <3>1. CASE result'[d] = result[d]
      BY <1>0, <1>R, <2>4, <3>1
    <3>2. CASE result'[d] # result[d]
      <4>1. d = cur[t] /\ (pc[t] = "notify" \/ (pc[t] = "check" /\ ~running))
        BY <1>2, <2>3, <2>4, <3>2, PublishReturn DEF TypeOK, ThreadTypeOK
      <4> QED BY <1>0, <2>4, <4>1 DEF PostedInv
    <3> QED BY <3>1, <3>2
  <2>5. ASSUME NEW u \in Threads, pc'[u] = "notify"
        PROVE  cur'[u] \in Posted'
    <3>1. CASE u = t /\ Push(t)
      BY <3>1, PushEffect
    <3>2. CASE ~(u = t /\ Push(t))
      BY <1>0, <2>1, <2>2, <2>5, <3>2 DEF PostedInv
    <3> QED BY <3>1, <3>2
  <2>6. ASSUME NEW u \in Threads, pc'[u] = "check"
        PROVE  pc[u] = "check" /\ cur'[u] = cur[u]
    BY <2>1, <2>6
  <2> QED BY <1>P, <2>1, <2>2, <2>4, <2>5, <2>6 DEF PostedInv
<1>3. CASE Network \/ Broker
  <2>1. UNCHANGED <<running, pc, cur, result, kind, overtaken>>
    BY <1>3, NetworkFrame DEF callerVars, threadVars, callVars
  <2> QED BY <1>0, <1>P, <1>R, <2>1 DEF PostedInv
<1> QED BY <1>1, <1>2, <1>3 DEF Next

-----------------------------------------------------------------------------
(* The theorems.                                                           *)

LEMMA SafetyInit ==
    ASSUME Init
    PROVE  CallPlaces /\ EachOnce /\ PromiseInv /\ ConfirmedInv /\ PostedInv /\ PromiseOnce
<1>1. batch \o queue = <<>> /\ ran = <<>>
  BY ConcatEmptySeq, EmptySeq DEF Init
<1>2. EachOnce
  BY <1>1 DEF EachOnce, IsInjective, ToSet
<1>3. Callback \in Threads /\ \A t \in Threads : pc[t] = "idle"
  BY DEF Init, Threads
<1>4. CallPlaces /\ PostedInv /\ PromiseOnce
  BY <1>3 DEF Init, CallPlaces, PostedInv, PublishedIsPosted, PromiseOnce
<1>5. PromiseInv
  <2>1. \A c \in Calls : ~(awaiting[c] > 0) /\ promise[c] = "unset"
    BY DEF Init
  <2> QED BY <1>3, <2>1, ClientAssumption DEF Init, PromiseInv
<1>6. ConfirmedInv
  BY <1>3 DEF Init, ConfirmedInv
<1> QED BY <1>2, <1>4, <1>5, <1>6

\* The three properties rest on one invariant: what was proved for the mailbox, where
\* each thread is, and what is known of promises, reports and posted messages.
THEOREM SafetyInvariant == Spec => []SafetyInv
<1>1. Init /\ RefinementInv => SafetyInv
  BY SafetyInit DEF SafetyInv
<1>2. RefinementInv /\ RefinementInv' /\ SafetyInv /\ [Next]_vars => SafetyInv'
  <2> SUFFICES ASSUME RefinementInv, RefinementInv', SafetyInv, [Next]_vars PROVE SafetyInv'
    OBVIOUS
  <2>1. CASE Next
    <3> USE <2>1 DEF SafetyInv, RefinementInv
    <3>1. CallPlaces' /\ EachOnce'
      BY CallPlacesStep, EachOnceStep
    <3>2. PromiseInv' /\ PromiseOnce'
      BY PromiseStep, PromiseOnceStep
    <3>3. ConfirmedInv'
      BY ConfirmedStep
    <3>4. PostedInv'
      BY PostedStep
    <3> QED BY <3>1, <3>2, <3>3, <3>4
  <2>2. CASE UNCHANGED vars
    <3> USE <2>2 DEF vars, shared, networkVars, channelVars, historyVars, threadVars, callVars, SafetyInv
    <3>1. CallPlaces' /\ EachOnce' /\ PromiseOnce'
      BY DEF CallPlaces, EachOnce, PromiseOnce
    <3>2. PromiseInv' /\ ConfirmedInv'
      BY DEF PromiseInv, ConfirmedInv
    <3>3. PostedInv'
      BY DEF PostedInv, PublishedIsPosted, Posted
    <3> QED BY <3>1, <3>2, <3>3
  <2> QED BY <2>1, <2>2
<1> QED BY <1>1, <1>2, RefinementInvariant, PTL DEF Spec

\* No order of broker replies, channel errors and time-outs sets a promise twice.
THEOREM PromisesOnce == Spec => []PromiseOnce
<1>1. SafetyInv => PromiseOnce
  BY DEF SafetyInv
<1> QED BY <1>1, SafetyInvariant, PTL

\* A Declare or Consume that returns true was confirmed by the broker, and was not made
\* from a consumer callback.
THEOREM TrueConfirmed == Spec => []TrueMeansConfirmed
<1>1. SafetyInv => TrueMeansConfirmed
  BY DEF SafetyInv, ConfirmedInv, TrueMeansConfirmed, Rpcs
<1> QED BY <1>1, SafetyInvariant, PTL

\* Whatever threads start, stop and publish: a message whose Publish returned true is in the
\* task queues or was run, unless a Stop cleared the flag between that call's two looks at it.
THEOREM PublishedPosted == Spec => []PublishedIsPosted
<1>1. SafetyInv => PublishedIsPosted
  BY DEF SafetyInv, PostedInv
<1> QED BY <1>1, SafetyInvariant, PTL
=============================================================================
