-------------------------- MODULE MessageQueueClient --------------------------
(***************************************************************************)
(* AmqpUtil::MessageQueueClient (src/src/utils/AmqpUtil.cpp): any number   *)
(* of caller threads, one network thread that runs a libev loop and owns   *)
(* the AMQP channel, and the task queue through which callers hand work to *)
(* it.  A call is modelled by the steps in which it touches shared state:  *)
(* an atomic exchange or load, a critical section of _taskQueueMutex, an   *)
(* ev_async_send, a wait on a future, a join.                              *)
(*                                                                         *)
(* The thread Callback is the network thread while it is inside a          *)
(* consumer's message callback: its calls are the reentrant ones.          *)
(*                                                                         *)
(* Abstracted: names and payloads (a task is the call that posted it), the *)
(* wire protocol (the broker confirms a stage, or the channel fails), and  *)
(* the message traffic itself.  libev, AMQP-CPP, std::thread and           *)
(* std::future are external: their effect is modelled from how the code    *)
(* uses them.                                                              *)
(***************************************************************************)
EXTENDS Naturals, Sequences, SequencesExt

CONSTANTS Callers,    \* application threads that share the client
          Callback,   \* the network thread, inside a consumer callback
          Calls,      \* identities of the calls made in a behaviour (a bound)
          NoCall,     \* not a call
          Kinds       \* the operations that are called in this instance

AllKinds == {"start", "stop", "wait", "destroy", "publish", "declare", "consume"}
Threads  == Callers \cup {Callback}

ASSUME ClientAssumption ==
    /\ Callback \notin Callers
    /\ NoCall \notin Calls
    /\ Kinds \subseteq AllKinds

VARIABLES
    running,      \* _isEventLoopRunning
    established,  \* _isConnetionEstablished
    joinable,     \* _networkEventThread.joinable()
    queue,        \* _pendingTaskQueue
    notified,     \* ev_async_send was called and the loop did not see it yet
    watching,     \* _asyncEventWatcher is started
    batch,        \* localExecutableTasks
    net,          \* where the network thread is
    breaking,     \* ev_break was called in this run of the loop
    channel,      \* _tcpChannel
    awaiting,     \* broker confirmations a declare or consume still waits for
    subscribed,   \* consume calls whose onMessage handler is installed
    starter,      \* the Start that owns the running network thread
    fulfilled,    \* its isPromiseFulfilled
    promise,      \* the promise of each call
    kind,         \* what each call is, "none" before it is made
    pc,           \* where each thread is in its call
    cur,          \* the call each thread is in
    result,       \* what each call returned
    lifetime,     \* of the client object
    crashed,      \* std::terminate, by cause
    ran,          \* history: tasks run by the network thread
    confirmed,    \* history: declares and consumes the broker confirmed
    reentrant,    \* history: calls made from a consumer callback
    overtaken     \* history: calls between two looks at _isEventLoopRunning when a Stop
                  \* cleared it

threadVars  == <<pc, cur, result>>
callVars    == <<kind, reentrant, overtaken>>
channelVars == <<channel, awaiting, subscribed>>
historyVars == <<ran, confirmed>>

\* Written by the network thread only.
networkVars == <<established, batch, watching, breaking, channelVars, promise, historyVars>>
\* Everything but the position of each thread and the calls made.
shared      == <<running, joinable, queue, notified, net, starter, fulfilled, lifetime,
                 crashed, networkVars>>
\* Written by the callers only.
callerVars  == <<running, joinable, starter, lifetime, threadVars, callVars>>

vars == <<threadVars, callVars, shared>>

Labels == {"idle", "spawn", "check", "push", "notify", "await", "join", "joining", "free"}

ThreadTypeOK ==
    /\ pc \in [Threads -> Labels]
    /\ cur \in [Threads -> Calls \cup {NoCall}]
    /\ \A t \in Threads : pc[t] # "idle" => cur[t] \in Calls
    /\ result \in [Calls -> {"none", "true", "false", "void"}]

FlagTypeOK ==
    /\ running \in BOOLEAN /\ established \in BOOLEAN /\ joinable \in BOOLEAN
    /\ notified \in BOOLEAN /\ watching \in BOOLEAN /\ breaking \in BOOLEAN
    /\ fulfilled \in BOOLEAN

StageTypeOK ==
    /\ net \in {"none", "connecting", "loop", "batch", "callback", "exiting", "done"}
    /\ channel \in {"none", "opening", "ready", "closed"}
    /\ lifetime \in {"alive", "dying", "freed"}
    /\ crashed \in {"no", "terminate", "self_join", "future_error"}

TaskTypeOK ==
    /\ queue \in Seq(Calls) /\ batch \in Seq(Calls) /\ ran \in Seq(Calls)
    /\ awaiting \in [Calls -> 0..3]
    /\ promise \in [Calls -> {"unset", "true", "false"}]
    /\ kind \in [Calls -> AllKinds \cup {"none"}]
    /\ starter \in Calls \cup {NoCall}
    /\ subscribed \cup confirmed \cup reentrant \cup overtaken \subseteq Calls

TypeOK == ThreadTypeOK /\ FlagTypeOK /\ StageTypeOK /\ TaskTypeOK

Init ==
    /\ running = FALSE /\ established = FALSE /\ joinable = FALSE
    /\ queue = <<>> /\ batch = <<>> /\ notified = FALSE
    /\ net = "none" /\ watching = TRUE /\ breaking = FALSE
    /\ channel = "none" /\ awaiting = [c \in Calls |-> 0] /\ subscribed = {}
    /\ starter = NoCall /\ fulfilled = FALSE
    /\ promise = [c \in Calls |-> "unset"]
    /\ kind = [c \in Calls |-> "none"]
    /\ pc = [t \in Threads |-> "idle"]
    /\ cur = [t \in Threads |-> NoCall]
    /\ result = [c \in Calls |-> "none"]
    /\ lifetime = "alive" /\ crashed = "no"
    /\ ran = <<>> /\ confirmed = {} /\ reentrant = {} /\ overtaken = {}

-----------------------------------------------------------------------------
(* Entering and leaving a call.                                            *)

Goto(t, label) ==
    /\ pc' = [pc EXCEPT ![t] = label]
    /\ UNCHANGED <<cur, result>>

\* Mutant: an early exit without its return.
Return_FallsThrough(t, value) ==
    /\ cur' = [cur EXCEPT ![t] = NoCall]
    /\ result' = [result EXCEPT ![cur[t]] = value]
    /\ UNCHANGED pc

Return(t, value) ==
    /\ pc' = [pc EXCEPT ![t] = "idle"]
    /\ cur' = [cur EXCEPT ![t] = NoCall]
    /\ result' = [result EXCEPT ![cur[t]] = value]

\* A consumer callback occupies the network thread.
InCallback == net = "callback"

\* The calls that are about to load _isEventLoopRunning in PostTask.
Checking == {cur[u] : u \in {u \in Threads : pc[u] = "check"}}

\* Thread t makes call c; nothing may be called on an object being destroyed.
Issue(t, c, k) ==
    /\ pc[t] = "idle"
    /\ t = Callback => InCallback
    /\ lifetime = "alive"
    /\ k \in Kinds
    /\ kind[c] = "none"
    /\ kind' = [kind EXCEPT ![c] = k]
    /\ reentrant' = IF t = Callback THEN reentrant \cup {c} ELSE reentrant
    /\ overtaken' = IF k = "stop" /\ running THEN overtaken \cup Checking ELSE overtaken

\* The call goes on at label.
Enter(t, c, label) ==
    /\ cur' = [cur EXCEPT ![t] = c]
    /\ pc' = [pc EXCEPT ![t] = label]
    /\ UNCHANGED result

\* The call is over at once.
Answer(c, value) ==
    /\ result' = [result EXCEPT ![c] = value]
    /\ UNCHANGED <<pc, cur>>

Crash(cause) ==
    /\ crashed' = cause
    /\ UNCHANGED <<threadVars, callVars, running, joinable, queue, notified, net, starter,
                   fulfilled, lifetime, networkVars>>

\* AMQP::TcpChannel::connected(), with the null check the tasks make before it.
Connected == channel \in {"opening", "ready"}

-----------------------------------------------------------------------------
(* Start.                                                                  *)

CallStart(t, c) ==
    /\ Issue(t, c, "start")
    /\ running' = TRUE
    /\ IF running THEN Answer(c, "true") ELSE Enter(t, c, "spawn")
    /\ UNCHANGED <<joinable, queue, notified, net, starter, fulfilled, lifetime, crashed,
                   networkVars>>

\* The promise, isPromiseFulfilled and the new thread.
Spawn(t) ==
    /\ pc[t] = "spawn"
    /\ ~joinable
    /\ joinable' = TRUE
    /\ net' = "connecting"
    /\ starter' = cur[t]
    /\ fulfilled' = FALSE
    /\ Goto(t, "await")
    /\ UNCHANGED <<callVars, running, queue, notified, lifetime, crashed, networkVars>>

\* Assigning to a std::thread that was not joined calls std::terminate.
SpawnOverJoinable(t) ==
    /\ pc[t] = "spawn"
    /\ joinable
    /\ Crash("terminate")

-----------------------------------------------------------------------------
(* Publish, Declare, Consume, Stop and the destructor, up to PostTask.     *)

\* Mutant: Publish leaves the look at the flag to PostTask.
CallPublish_LooksOnce(t, c) ==
    /\ Issue(t, c, "publish")
    /\ IF established THEN Enter(t, c, "check") ELSE Answer(c, "false")
    /\ UNCHANGED shared

CallPublish(t, c) ==
    /\ Issue(t, c, "publish")
    /\ IF running /\ established THEN Enter(t, c, "check") ELSE Answer(c, "false")
    /\ UNCHANGED shared

CallRpc(t, c) ==
    /\ Issue(t, c, "declare") \/ Issue(t, c, "consume")
    /\ Enter(t, c, "check")
    /\ UNCHANGED shared

CallStop(t, c) ==
    /\ Issue(t, c, "stop")
    /\ running' = FALSE
    /\ IF running THEN Enter(t, c, "check") ELSE Answer(c, "void")
    /\ UNCHANGED <<joinable, queue, notified, net, starter, fulfilled, lifetime, crashed,
                   networkVars>>

\* Stop, then ev_loop_destroy.  The thread that destroys is the only user left.
CallDestroy(t, c) ==
    /\ t # Callback
    /\ \A u \in Threads : pc[u] = "idle"
    /\ net # "callback"
    /\ Issue(t, c, "destroy")
    /\ lifetime' = "dying"
    /\ running' = FALSE
    /\ Enter(t, c, IF running THEN "check" ELSE "free")
    /\ UNCHANGED <<joinable, queue, notified, net, starter, fulfilled, crashed, networkVars>>

-----------------------------------------------------------------------------
(* PostTask: its load of _isEventLoopRunning, its critical section, its    *)
(* ev_async_send.  What the caller does next does not depend on which of   *)
(* its two ends PostTask took.                                             *)

AfterPost(t) ==
    CASE kind[cur[t]] = "publish"                -> Return(t, "true")
      [] kind[cur[t]] \in {"declare", "consume"} -> Goto(t, "await")
      [] OTHER                                   -> Goto(t, "join")

PostCheck(t) ==
    /\ pc[t] = "check"
    /\ IF running THEN Goto(t, "push") ELSE AfterPost(t)
    /\ UNCHANGED <<callVars, shared>>

Push(t) ==
    /\ pc[t] = "push"
    /\ queue' = Append(queue, cur[t])
    /\ Goto(t, "notify")
    /\ UNCHANGED <<callVars, running, joinable, notified, net, starter, fulfilled, lifetime,
                   crashed, networkVars>>

\* Mutant: PostTask does not call ev_async_send.
AsyncSend_Missing == UNCHANGED notified

AsyncSend == notified' = TRUE

Notify(t) ==
    /\ pc[t] = "notify"
    /\ AsyncSend
    /\ AfterPost(t)
    /\ UNCHANGED <<callVars, running, joinable, queue, net, starter, fulfilled, lifetime,
                   crashed, networkVars>>

-----------------------------------------------------------------------------
(* future.wait_for in Start, DeclareTopologyInternal and Consume.          *)

Answered(t) ==
    /\ pc[t] = "await"
    /\ promise[cur[t]] # "unset"
    /\ Return(t, promise[cur[t]])
    /\ UNCHANGED <<callVars, shared>>

\* Mutant: future.wait instead of future.wait_for.
TimedOut_Never(t) == FALSE

\* Mutant: a call whose time is up reports success.
TimedOut_Succeeds(t) ==
    /\ pc[t] = "await"
    /\ Return(t, "true")
    /\ UNCHANGED <<callVars, shared>>

TimedOut(t) ==
    /\ pc[t] = "await"
    /\ promise[cur[t]] = "unset"
    /\ Return(t, "false")
    /\ UNCHANGED <<callVars, shared>>

-----------------------------------------------------------------------------
(* Joining the network thread: Stop, Wait and the destructor.              *)

CallWait(t, c) ==
    /\ Issue(t, c, "wait")
    /\ Enter(t, c, "join")
    /\ UNCHANGED shared

AfterJoin(t) ==
    IF kind[cur[t]] = "destroy" THEN Goto(t, "free") ELSE Return(t, "void")

JoinCheck(t) ==
    /\ pc[t] = "join"
    /\ IF joinable THEN Goto(t, "joining") ELSE AfterJoin(t)
    /\ UNCHANGED <<callVars, shared>>

JoinDone(t) ==
    /\ pc[t] = "joining"
    /\ joinable
    /\ net = "done"
    /\ joinable' = FALSE
    /\ AfterJoin(t)
    /\ UNCHANGED <<callVars, running, queue, notified, net, starter, fulfilled, lifetime,
                   crashed, networkVars>>

\* A thread that joins itself gets an exception that nothing catches.
JoinSelf(t) ==
    /\ pc[t] = "joining"
    /\ t = Callback
    /\ Crash("self_join")

\* Another thread joined first: undefined, and an uncaught exception where the
\* library notices it.
JoinTwice(t) ==
    /\ pc[t] = "joining"
    /\ ~joinable
    /\ Crash("terminate")

\* ev_loop_destroy, then the members: ~thread terminates if it is still joinable.
Free(t) ==
    /\ pc[t] = "free"
    /\ lifetime' = "freed"
    /\ crashed' = IF joinable THEN "terminate" ELSE crashed
    /\ Return(t, "void")
    /\ UNCHANGED <<callVars, running, joinable, queue, notified, net, starter, fulfilled,
                   networkVars>>

-----------------------------------------------------------------------------
(* The network thread.                                                     *)

NetGoto(from, to) ==
    /\ net = from
    /\ net' = to
    /\ UNCHANGED <<callerVars, established, queue, notified, batch, watching, fulfilled,
                   promise, crashed, historyVars>>

\* Setting a promise twice throws out of the event loop.
Fulfil(S, value) ==
    /\ promise' = [c \in Calls |-> IF c \in S THEN value ELSE promise[c]]
    /\ crashed' = IF \E c \in S : promise[c] # "unset" THEN "future_error" ELSE crashed

\* Mutant: the handlers do not look at isPromiseFulfilled.
StarterUnlessFulfilled_Always == {starter}

StarterUnlessFulfilled == IF fulfilled THEN {} ELSE {starter}

Connect ==
    /\ NetGoto("connecting", "loop")
    /\ channel' = "opening"
    /\ UNCHANGED <<breaking, awaiting, subscribed>>

ChannelReady ==
    /\ net = "loop"
    /\ channel = "opening"
    /\ channel' = "ready"
    /\ established' = TRUE
    /\ fulfilled' = TRUE
    /\ Fulfil(StarterUnlessFulfilled, "true")
    /\ UNCHANGED <<callerVars, queue, notified, batch, net, watching, breaking, awaiting,
                   subscribed, historyVars>>

\* The connection or the channel failed: the channel's onError, and the onError of
\* every operation that waits for the broker.
ChannelError ==
    /\ net = "loop"
    /\ Connected
    /\ channel' = "closed"
    /\ fulfilled' = TRUE
    /\ awaiting' = [c \in Calls |-> 0]
    /\ subscribed' = {}
    /\ Fulfil(StarterUnlessFulfilled \cup {c \in Calls : awaiting[c] > 0}, "false")
    /\ UNCHANGED <<callerVars, established, queue, notified, batch, net, watching, breaking,
                   historyVars>>

\* Mutant: one task is taken for each notification.
SwapQueues_TakesOne ==
    /\ batch' = SubSeq(queue, 1, 1)
    /\ queue' = SubSeq(queue, 2, Len(queue))

\* Mutant: the queue is copied, not swapped.
SwapQueues_Copies ==
    /\ batch' = queue
    /\ UNCHANGED queue

SwapQueues ==
    /\ batch' = queue
    /\ queue' = <<>>

\* OnAsyncNotificationTriggered swaps the two queues under the lock ...
AsyncFire ==
    /\ net = "loop"
    /\ watching
    /\ notified
    /\ notified' = FALSE
    /\ SwapQueues
    /\ net' = "batch"
    /\ UNCHANGED <<callerVars, established, watching, breaking, channelVars, fulfilled,
                   promise, crashed, historyVars>>

\* ... and runs what it took, in order.
TakeTask ==
    /\ net = "batch"
    /\ batch # <<>>
    /\ batch' = Tail(batch)
    /\ ran' = Append(ran, Head(batch))
    /\ UNCHANGED <<callerVars, established, queue, notified, net, channel, subscribed,
                   fulfilled, confirmed>>

\* The message goes to the channel, or nowhere when there is none.
RunPublish ==
    /\ TakeTask
    /\ kind[Head(batch)] = "publish"
    /\ UNCHANGED <<watching, breaking, awaiting, promise, crashed>>

\* declareExchange, declareQueue and bindQueue confirm in turn; consume once.
Stages(k) == IF k = "declare" THEN 3 ELSE 1

RunRpc ==
    /\ TakeTask
    /\ kind[Head(batch)] \in {"declare", "consume"}
    /\ IF Connected
         THEN /\ awaiting' = [awaiting EXCEPT ![Head(batch)] = Stages(kind[Head(batch)])]
              /\ UNCHANGED <<promise, crashed>>
         ELSE /\ Fulfil({Head(batch)}, "false")
              /\ UNCHANGED awaiting
    /\ UNCHANGED <<watching, breaking>>

RunStop ==
    /\ TakeTask
    /\ kind[Head(batch)] \in {"stop", "destroy"}
    /\ watching' = FALSE
    /\ breaking' = TRUE
    /\ UNCHANGED <<awaiting, promise, crashed>>

BatchEnd ==
    /\ batch = <<>>
    /\ NetGoto("batch", IF breaking THEN "exiting" ELSE "loop")
    /\ UNCHANGED <<breaking, channelVars>>

\* The broker confirms one stage of c; the last one fulfils the promise.
BrokerReply(c) ==
    /\ net = "loop"
    /\ channel = "ready"
    /\ awaiting[c] > 0
    /\ awaiting' = [awaiting EXCEPT ![c] = @ - 1]
    /\ IF awaiting[c] > 1
         THEN UNCHANGED <<promise, crashed, confirmed, subscribed>>
         ELSE /\ Fulfil({c}, "true")
              /\ confirmed' = confirmed \cup {c}
              /\ subscribed' = IF kind[c] = "consume" THEN subscribed \cup {c} ELSE subscribed
    /\ UNCHANGED <<callerVars, established, queue, notified, batch, net, watching, breaking,
                   channel, fulfilled, ran>>

\* A message arrives for a subscription: the loop is inside the callback.
DeliverMessage ==
    /\ channel = "ready"
    /\ subscribed # {}
    /\ NetGoto("loop", "callback")
    /\ UNCHANGED <<breaking, channelVars>>

CallbackReturn ==
    /\ pc[Callback] = "idle"
    /\ NetGoto("callback", "loop")
    /\ UNCHANGED <<breaking, channelVars>>

\* ev_run returns by itself once no watcher is left.
LoopDrains ==
    /\ ~watching
    /\ channel = "closed"
    /\ NetGoto("loop", "exiting")
    /\ UNCHANGED <<breaking, channelVars>>

\* The channel and the connection are reset and the thread function returns.
Exit ==
    /\ NetGoto("exiting", "done")
    /\ breaking' = FALSE
    /\ channel' = "none"
    /\ awaiting' = [c \in Calls |-> 0]
    /\ subscribed' = {}

-----------------------------------------------------------------------------
Call(t, c) ==
    \/ CallStart(t, c) \/ CallStop(t, c) \/ CallDestroy(t, c) \/ CallWait(t, c)
    \/ CallPublish(t, c) \/ CallRpc(t, c)

\* Thread t goes on with the call it is in.
Proceed(t) ==
    \/ Spawn(t) \/ SpawnOverJoinable(t)
    \/ PostCheck(t) \/ Push(t) \/ Notify(t) \/ Answered(t) \/ TimedOut(t)
    \/ JoinCheck(t) \/ JoinDone(t) \/ JoinSelf(t) \/ JoinTwice(t) \/ Free(t)

\* What the network thread does by itself.
Network ==
    \/ Connect \/ AsyncFire \/ RunPublish \/ RunRpc \/ RunStop \/ BatchEnd
    \/ CallbackReturn \/ LoopDrains \/ Exit

\* What the broker and the connection make it do.
Broker ==
    \/ ChannelReady \/ ChannelError \/ DeliverMessage
    \/ \E c \in Calls : BrokerReply(c)

\* A process that terminated takes no step.
Next ==
    /\ crashed = "no"
    /\ \/ \E t \in Threads : Proceed(t) \/ \E c \in Calls : Call(t, c)
       \/ Network
       \/ Broker

Spec == Init /\ [][Next]_vars

\* Threads run and time-outs elapse; nobody has to call, the broker has to do nothing.
\* An iteration of a libev loop serves every watcher that is pending, so traffic on
\* the connection does not starve the async handle: strong fairness of AsyncFire.
Fairness ==
    /\ \A t \in Threads : WF_vars(crashed = "no" /\ Proceed(t))
    /\ WF_vars(crashed = "no" /\ Network)
    /\ SF_vars(crashed = "no" /\ AsyncFire)

FairSpec == Spec /\ Fairness

-----------------------------------------------------------------------------
(* Properties.                                                             *)

\* No wake-up is lost: while the loop watches its async handle, a task in
\* _pendingTaskQueue is announced, or its poster is about to ev_async_send.
NoLostWakeup ==
    queue # <<>> /\ watching => notified \/ \E t \in Threads : pc[t] = "notify"

\* Whatever the order of replies, channel errors and time-outs, no std::promise of
\* Start, Declare or Consume is set twice (set_value would throw out of the loop).
PromiseOnce == crashed # "future_error"

\* Declare and Consume return true only for what the broker confirmed: every stage of
\* the declaration, or the subscription; and never to a consumer callback, which keeps the loop
\* from running their task.
TrueMeansConfirmed ==
    \A c \in Calls :
        kind[c] \in {"declare", "consume"} /\ result[c] = "true" =>
            c \in confirmed /\ c \notin reentrant

\* Publish returns true before anybody looked at the channel, and PostTask, which looks at
\* _isEventLoopRunning a second time, drops a task without a word.  Still, whatever threads
\* start, stop and publish, a message whose Publish returned true waits in the two queues or
\* was run by the network thread, unless a Stop cleared the flag between the two looks of
\* that very call.
PublishedIsPosted ==
    \A c \in Calls :
        kind[c] = "publish" /\ result[c] = "true" =>
            c \in ToSet(batch \o queue) \cup ToSet(ran) \/ c \in overtaken

\* The task queue is a FIFO mailbox that loses, repeats and reorders nothing.
MailboxOfTasks == INSTANCE Mailbox WITH
                      Tasks <- Calls, box <- batch \o queue, ran <- ran
Mailbox == MailboxOfTasks!Spec

\* Every Start, Publish, Declare and Consume returns, also when the broker is silent.
CallsReturn ==
    \A c \in Calls :
        kind[c] \in {"start", "publish", "declare", "consume"}
            ~> result[c] # "none" \/ crashed # "no"

\* A task in the queue is run, as long as nothing stopped the loop's async handle.
TasksRun ==
    \A c \in Calls :
        c \in ToSet(queue) ~> c \in ToSet(ran) \/ ~watching \/ crashed # "no"

(* What the repository says of the client.  The code does not keep this.    *)

\* Stop shuts the client down: it returns (ProducerDemo.cpp prints, after Stop, that
\* the client was closed gracefully).
StopReturns ==
    \A c \in Calls :
        kind[c] = "stop" ~> result[c] # "none" \/ crashed # "no"
=============================================================================
