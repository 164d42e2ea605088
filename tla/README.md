# TLA+ models of the VideoPlayerScaffold utility library

The repository is a C++ scaffold: a library of wrappers (`src/src/utils`,
`src/include/VideoPlayerScaffold/utils`) around AMQP-CPP, etcd-cpp-api, brpc, libfastdfs,
FFmpeg, curl, redis++, ODB, elasticlient, spdlog and jsoncpp, with demonstrations of each
(`src/example`, `src/example-utils`).  This directory holds TLA+ specifications of the parts
of the library that have state, concurrency or a protocol, the instances TLC checks, and
machine-checked proofs of the central theorems.

Paths below are relative to `src/src/utils` (`X.cpp`) and
`src/include/VideoPlayerScaffold/utils` (`X.h`).  `README.md:N` is the repository's README.

## 1. Inventory

| Part | State it keeps | Operations | Talks to | What makes it hard |
|---|---|---|---|---|
| `AmqpUtil::MessageQueueClient` (AmqpUtil.cpp:46-325) | two atomic flags, a task queue under a mutex, the network thread, the libev loop and its async handle, the TCP channel, a promise per call | `Start`, `Stop`, `Wait`, destructor, `Publish`, `Declare`, `Consume`, `PostTask` | application threads, one network thread, the broker, consumer callbacks | hand-over between threads, merged wake-ups, promises that outlive their callers, reentrant calls, shutdown |
| `AmqpUtil::DeliveryContext` and the consumer callback (AmqpUtil.cpp:24-44, 274-325; AmqpUtil.h:47-76) | tag, redelivery mark, settled flag | `Acknowleged`, `Reject`, copy; the automatic acknowledgement after the callback | broker, application callback | at-least-once delivery, double settlement, prefetch window, redelivery |
| Topology, `MessagePublisher`, `MessageSubscriber` (AmqpUtil.cpp:158-259, 327-335; AmqpUtil.h:34-45, 120-185) | `DeclareSettings`; exchanges, queues and bindings at the broker | `Declare`, `PublishMessage`, `Consume` | broker, one channel shared by all users of a client | a chain of requests that fails or is abandoned half way, users that disagree, keys computed in two places |
| `EtcdUtil::Watcher` (EtcdUtil.cpp:90-211) | map and vector of nodes under a shared mutex, an atomic counter, the etcd watch | `Start`, `Stop`, `GetEndPoint`, `GetAllEndpoints`, the watch callback | etcd, the watch thread, application threads | gap between ls and watch, two containers, overflow of the counter, destruction |
| `EtcdUtil::Provider` (EtcdUtil.cpp:14-87) | lease, keep-alive object, `_register` | `Register`, `UnRegister`, the keep-alive handler | etcd, the keep-alive thread | lease expiry against re-registration, unlocked shared fields |
| `RpcUtil::Channels`, `RpcUtil::ServiceManager` (RpcUtil.cpp:49-165) | a map of services, a list and a counter per service, one mutex each | `watch`, `addNode`, `removeNode`, `getNode`, `getNodeAddress` | any threads | two-level locking, rotation over a list that changes |
| `RpcUtil::RpcServerFactory`, `ClosureFactory` (RpcUtil.cpp:167-195, RpcUtil.h:80-98) | the objects a closure owns | make a server, make a closure, call through a stub | brpc, a service, the network | late answers, retries, closures that must run once |
| `FastDFSUtil` (FastDFSUtil.cpp) | process-wide initialization flag | `Initialize`, `Destory`, up-/download and delete | tracker and storage servers | the flag is read without its mutex; error paths of buffers and connections |
| `FFmpegUtil::M3U8Parser` (FFmpegUtil.cpp:25-82) | headers, segments, the end mark | parse, serialize, apply a base URL | whoever writes playlists | a parser that pairs lines by position, and is used again |
| `FFmpegUtil::HLSSegmenter` (FFmpegUtil.cpp:92-222) | the last error | `Remux` | libavformat | order of resources, nine exits |
| `MailCodeUtil` (MailCodeUtil.cpp) | the upload cursor | `send`, the read callback | curl | pieces of a size the caller does not choose, ownership of handles |
| `RedisUtil` (RedisUtil.cpp) | a pool of connections | `get`, `set`, `del`, `exists` | Redis | what a call reports against what the server did |
| `OdbUtil` (OdbUtil.h) | connection pool | `executeTransaction`, `Client` | MySQL through ODB | transactions, exceptions, other clients |
| persistent classes (`src/example/odb/student_table`, used by `CRUD/crud.cpp` and `View/view.cpp`) | per connection and class: an image, bindings, prepared statements, with versions | `persist`, `update`, `erase`, `find`, `query`, `erase_query` | ODB, MySQL | pointers into buffers that move, truncation, columns matched by position |
| messages and stubs (`src/example/protobuf`, `src/example-utils/RpcUtil/calculator.pb.*`) | fields, unknown fields | accessors, `Clear`, `MergeFrom`, `CopyFrom`, parse, serialize, `CallMethod` | peers with other versions of the classes | fields nobody knows, merging on the wire, UTF-8 |
| `ESUtil` (ESUtil.cpp, ESUtil.h) | the query under construction | the builder's methods, `Build` | Elasticsearch | fields that override each other |
| `Logger`, `JsonUtil` | logger handle / none | log, (de)serialize | spdlog, jsoncpp | - |

What makes each modelled part correct:

- **MessageQueueClient**: no posted task is lost, repeated or reordered; no wake-up is lost; no
  promise is set twice; `true` is only reported for what the broker confirmed; a call inside a
  callback cannot report success; a message whose `Publish` returned true was posted, unless a `Stop`
  overtook the call; bounded calls return.  (`Stop` does not: see `client_stop_returns`.)
- **DeliveryContext**: a message is done at the broker only after its callback handled it; the
  client settles no tag twice; a duplicate is marked as one; every message is handled in the end.
- **Topology**: a `Declare` that returned true left every exchange, queue and binding of its
  setting; what a publisher sends afterwards reaches the queue a subscriber of the setting reads.
- **Watcher**: map and vector agree; the cache is the store minus the undelivered
  events and converges; the choice rotates.
- **Provider**: the heartbeat is for the lease of the key; a registered node whose heartbeat failed
  comes back, one that unregistered goes offline and stays offline; no key outlives its lease.
- **FastDFSClient**: the flag follows the client; every exit gives back the connection, the buffer
  and the mutex; what a call reports as done was done.
- **ServiceManager**: operations are linearizable although they take two locks, so an
  address is registered once; the choice rotates.
- **RPC calls**: a closure runs once, and a call that did not fail has the answer to its own request.
- **M3U8Parser**: a regular playlist comes back line by line whatever was parsed before; what the
  parser writes, it reads as the same.
- **HLSSegmenter**: true means every packet that was read is in the output, in order, and the
  playlist is ended; no exit leaves anything allocated.
- **SMTPClient**: true means one mail with the whole payload for every recipient.
- **RedisClient**: an answer other than "no" is what the server did for this call.
- **Persistent classes**: what is loaded is what was stored; no binding points into a freed buffer
  and passes for current.
- **Messages**: what is serialized comes back, also through peers that do not know the fields;
  concatenation on the wire is `MergeFrom`.

## 2. Modules

| Module | Kind | Models |
|---|---|---|
| `Mailbox` | abstract specification | a FIFO box of tasks: put, run in order |
| `MessageQueueClient` | component | AmqpUtil.cpp:46-325: caller threads, network thread, task queue, loop, channel, promises |
| `MCMessageQueueClient` | instances | three configurations |
| `SequenceFacts` | lemmas | `ToSet`, concatenation, `Head`/`Tail`, sequences without repetition, remainders, used by several proofs |
| `MessageQueueClientProofs` | proofs | type correctness, `NoLostWakeup`, `Spec => Mailbox`, `PromiseOnce`, `TrueMeansConfirmed`, `PublishedIsPosted` |
| `AmqpDelivery`, `MCAmqpDelivery` | component | one subscription: queue, frames in both directions, contexts, prefetch |
| `AmqpDeliveryProofs` | proofs | types, `SettledAfterHandling`, `SettledOnce`, `DuplicateIsMarked` |
| `AmqpTopology`, `MCAmqpTopology` | component | what `Declare` builds on the broker, and what is routed through it |
| `AmqpProofs` | proofs | types, `DeclaredExists`, `PublishedIsRouted` of `AmqpTopology` |
| `ServiceRegistry` | abstract specification | a registry in which every operation is one step |
| `ServiceManager` | component | RpcUtil.cpp:49-165 with both locks, implementing `ServiceRegistry` |
| `EtcdWatcher`, `MCEtcdWatcher` | component | EtcdUtil.cpp:90-211, the store and the watch thread |
| `EtcdWatcherProofs` | proofs | types, `CacheLagsByEvents`, `RoundRobin` |
| `EtcdProvider`, `MCEtcdProvider` | component | EtcdUtil.cpp:14-87, leases, the key and the keep-alive threads |
| `EtcdProviderProofs` | proofs | types, `HeartbeatFollowsKey`, `NoEternalKey` |
| `FastDFSClient` | component | FastDFSUtil.cpp: the process-wide client and the transfers of any threads |
| `RedisCalls` | component | RedisUtil.cpp: threads, the pool, a server that executes late |
| `MailUpload` | component | MailCodeUtil.cpp: `send` and `readCallback` |
| `HlsRemux` | component | FFmpegUtil.cpp:85-222 |
| `CallsProofs` | proofs | `NothingHeld`, `GuardedUse`, `DoneIsDone`, `MailedOnce`, `YesIsTrue`, `RemuxIsWhole`; `RoundRobin` and `LinearizableRegistry` in the composition |
| `M3U8Playlist` | component | FFmpegUtil.cpp:25-82 and a writer of playlists |
| `ProtoMessages` | operators | the generated classes: new, clear, merge, parse, serialize |
| `MessageObjects` | component | two `person` objects, the calls on them, two peers that do not know their fields |
| `RpcCalls` | component | the loop of client.cpp, the stub, the service classes, brpc's retries and time-outs |
| `OdbStatements` | operators | image, bindings and prepared statements of one class on one connection |
| `OdbDatabase` | component | transactions and operations on `Student`, `Classes` and `StudentClassView`, and other clients |
| `ServiceCalls`, `MCCalls` | composition | `FastDFSClient`, `ServiceManager`, `RedisCalls`, `MailUpload`, `HlsRemux` |
| `Codecs`, `MCData` | composition | `OdbDatabase`, `MessageObjects`, `RpcCalls`, `M3U8Playlist` |
| `CodecsProofs` | proofs | `BindingsFresh`, `StoredIsLoaded`, `RoundTrip`, `ConcatenationMerges`, `AnswerIsOwn`, `PlaylistKept` |

`MessageQueueClient`, `AmqpDelivery` and `AmqpTopology` are three views of one class.  The first
has the threads and abstracts the broker to "confirms a stage" and "the channel fails"; the other
two have the broker and take from the first that what is posted is run once and in order
(`Mailbox`), that the network thread runs one handler at a time, and that a call that timed out
leaves its chain of requests behind.

### How state and actions correspond to the code

*MessageQueueClient.*  Variables carry the members' names (`running` is `_isEventLoopRunning`,
`established` is `_isConnetionEstablished`, `queue` is `_pendingTaskQueue`, `batch` the local queue
of `OnAsyncNotificationTriggered`).  A call is a program counter `pc[t]` that moves from one touch
of shared state to the next: the atomic `exchange` of `Start` and `Stop`, the load in `PostTask`
(`PostCheck`), its critical section (`Push`), its `ev_async_send` (`Notify`), the wait on the
future (`Answered`, `TimedOut`), the `joinable` test (`JoinCheck`) and the join (`JoinDone`).
`PostTask` returns silently when the loop does not run, so `AfterPost` is the same after both
ends.  The network thread is `Connect`, then `net = "loop"`, in which it serves one handler at a
time: `AsyncFire` swaps the queues, `RunPublish`, `RunRpc`, `RunStop` run one task each, and
`BatchEnd` returns to the loop or leaves it after `ev_break`.  A consumer callback is
`net = "callback"`, and the thread `Callback` makes the calls it contains.  `crashed` holds the
cause when `std::terminate` would be called; no step follows.  `overtaken` is history: the calls that
were about to make the test in `PostTask` when a `Stop` cleared the flag.

*AmqpDelivery.*  `context` is the `DeliveryContext` on the stack of the handler, `kept` are the
copies the application made.  `inbound` and `outbound` are the frames on the wire, in order.
`Reject` has the guard the code has (AmqpUtil.cpp:33).  `CallbackReturn` contains the automatic
acknowledgement (:309-311).

*AmqpTopology.*  A job is a chain of the three requests of `DeclareTopologyInternal`; it is
attributed to the call by user and attempt, as the promise is by the lambda that captures it.
`Topologies` gives the one or two chains of a setting.

*EtcdWatcher.*  `streams` are the live `etcd::Watcher` objects with what they did not deliver.
`Start` is `List`, `FetchAllNodes`, `CreateWatch`, `DropOldWatch`; `OnServerChange` is the callback,
one critical section.  `ReBuildEndPointVector` lists the unordered map in any order.  `index` is one
of `IntWrap` values, the upper half of which are the negative ones, and `Size` is the conversion to a
`size_t` of `SizeWrap` values.  `ApplyAll` says what a batch of events leaves under each key; the proofs show that it
is what one turn of the loop after the other leaves (`ApplyNothing`, `ApplyOneMore`).

*EtcdProvider.*  `register`, `leaseId`, `keepAlive` are the members; KeepAlive objects are
numbered as they are made, and object `k` runs its handler as process `k`.  `DoRegister` is
`LeaseGrant`, `Put` (or `Undo`), `Install` and `Drop`, each for the owner or for a handler, with the
fields read where the code reads them; the assignment to `_keep_alive` first makes the new object
(`Install`) and then destroys the old one (`Drop`).  `UnRegister` is the test and the clearing of the
flag, `Cancel`, `Reset` and `RevokeLease`.  `waits` says whether stopping a KeepAlive
waits for its handler: the code depends on it and does not say, so both are explored.

*FastDFSClient.*  `Lock`, `Locked`, `Create`/`Destroy` and `Set` are the lines of `Initialize` and
`Destory` under the mutex.  A transfer is `Check` (the unlocked read of the flag), `Connect`, the
library call (`Transfer`) and `Finish` (return code, output, destructor of the connection guard).  The
library writes the local file of `DownloadFile` by itself: a failed one may leave it as it was, cut short or
removed (`Spoilt`).

*RedisCalls.*  A call is `Send`, the server's `Execute` and `Return`, or `Throw` with the catch of the
call (`Caught`).  `reply` remembers what the server did for this very command; a command on a
connection that timed out is in `late`, and may be executed by `ExecuteLate` at any moment.

*MailUpload.*  A payload is its length and its bytes are their positions, so that a piece sent
twice, skipped or swapped shows.  `Recipient`, `Data`, `readCallback`, `EndOfData` are what curl does
inside `curl_easy_perform`; `Success` and `Failure` are the returns.

*HlsRemux.*  One action per call of libavformat, each with its error exit; `held` is what was
allocated and not freed, and `Returns` frees what the `unique_ptr`s on the stack own.  `progress` is what
`on_progress` was told so far: nothing or ratios below 1.0, 1.0 at least once, or there is no listener.  The ratio of
a packet is cut to 1.0 (FFmpegUtil.cpp:193) and reported before the packet is written, so that `ReadFrame` may
report 1.0 and then fail.

*M3U8Playlist.*  `ParseLine` is one turn of the loop at FFmpegUtil.cpp:38-55, and `Parsed` the fold of it
over the lines; the loop's `i++` after an `#EXTINF` is the flag `inf`.  `text` is what a writer made
so far, line by line, so that playlists are also read half finished.

*ProtoMessages, MessageObjects.*  A class is the sequence of the kinds of its fields; `person` has
every kind, and the other classes differ in this sequence only.  A wire is a sequence of
tagged records.  `Parse` is the loop of `_InternalParse`, a fold of `ParseRecord`.  `Serialize` is a set
of wires: the order of a map is the hash table's.

*RpcCalls.*  `Add` is one turn of the client's loop up to the return of `stub.Add`; packets carry the call
and the attempt they are for.  `CallMethod` and `NotImplemented` are the generated service class;
`WorkThread` is the thread of asynService.cpp.  `ended` has an entry each time a closure runs.  That an answer
finds its call, and that nobody gets a late one (`Accepted`), is brpc's matching, taken as given: `AnswerIsOwn`
shows of the repository's side what the closure owns and reads, and what the service classes answer.

*OdbStatements, OdbDatabase.*  `sts[class]` is `statements_type`: capacities of the string buffers, the
version of the image, what each binding points to (the capacities it was made with) and the
versions it saw, and the copies of the bindings the prepared statements keep.  A pointer to a buffer of
another capacity is a pointer to freed memory and reads `Stale`.  `bind` and the SQL texts are two
independent sequences of columns, and a value goes where its position says.  `Throw` is an exception out of
`func`, `Rollback` the destructor of the transaction.

*ServiceManager.*  Each operation finds the list under the manager's lock and works on it under
the list's own lock: two steps, with those of other
threads in between.  A choice of an endpoint (`select`) is one critical section.

## 3. What is checked

Passing runs (TLC, complete state spaces):

| Run | Properties | Instance |
|---|---|---|
| `client_safety` | `TypeOK`, `NoLostWakeup`, `PromiseOnce`, `TrueMeansConfirmed`, `PublishedIsPosted`, `Mailbox` | two caller threads and callbacks, four calls of all seven kinds |
| `client_liveness` | `CallsReturn`, `TasksRun` | the same threads, three calls out of start, publish, consume |
| `delivery` | `TypeOK`, `SettledAfterHandling`, `SettledOnce`, `DuplicateIsMarked`, `EveryMessageSettled` | three messages, prefetch 2, both acknowledgement modes, callbacks that do everything with a context (two calls each), two clients one after the other |
| `topology` | `TypeOK`, `DeclaredExists`, `PublishedIsRouted` | three users of one channel: a direct setting (two attempts), a keyless fanout that wants the same exchange and the same queue (two attempts), a Delayed one |
| `watcher` | `TypeOK`, `CacheLagsByEvents`, `RoundRobin`, `CacheConverges` | two keys, two endpoints, two changes, two `Start`s, a counter of four values |
| `provider` | `TypeOK`, `HeartbeatFollowsKey`, `NoEternalKey`, `GoesOffline`, `Recovers` | two calls of `Register`, four leases, with and without waiting |
| `calls` | `TypesOK`, `GuardedUse`, `NothingHeld`, `DoneIsDone`, `RoundRobin`, `LinearizableRegistry`, `YesIsTrue`, `MailedOnce`, `RemuxIsWhole` | FastDFS: two threads, five calls of all seven kinds, two files, one of them possibly empty; registry: two threads, four addresses; Redis: two threads and late commands; mail: two recipients, pieces of several sizes; Remux: two calls, two streams |
| `data` | `BindingsFresh`, `StoredIsLoaded`, `RoundTrip`, `ConcatenationMerges`, `AnswerIsOwn`, `PlaylistKept` | ODB: two rows in each table, strings below and above the capacity of a new buffer, five calls; messages: integers of three bits (`IntLimit` is 4), strings with and without UTF-8; RPC: two calls, two attempts, three kinds of service; playlists of regular and irregular lines |

`calls` and `data` put several components into one module.  They share no state: a first
step chooses the component, and a behaviour stays with it, so that the state space is the sum of
theirs and each property is checked in every state of the components it is about.

Runs in which TLC finds the counterexample that shows where the program and its documentation part:

| Run | Property | What the trace shows |
|---|---|---|
| `client_stop_returns` | `StopReturns` | `Stop` clears the flag, `PostTask` then drops the task that would call `ev_break`, and `Stop` waits in `join` for a loop that goes on |
| `watcher_destroy` | `NoDanglingCallback` | `Stop` returns early because nothing sets `_isRunning`; the destructor destroys the map and the mutex before the watch |
| `delivery_reject` | `RejectedIsNotAcked` | the guard of `Reject` is inverted: the message is acknowledged after the callback |
| `topology_delayed` | `DelayedIsAccepted` | the second half of a Delayed declaration contradicts the first |

### Why the bounds are enough

- *client*: a wake-up is lost, a promise set twice or a task reordered by at most two
  posting threads, one batch in progress and one channel error; four calls are a `Start`, a second
  lifecycle call and two requests, which reaches every label of `pc` and `net`, a restart, and a
  reentrant call from a callback (start, consume, then two reentrant ones).  The theorems of
  section 5 hold for any number of threads and calls.
- *delivery*: three messages through a window of two give a full window with a message behind
  it; a second client sees the redelivery.
- *topology*: conflicts and half-finished chains are pairwise; the third user adds a
  channel error that neither of the others caused.
- *watcher*: two events on one key and on two; two Starts give two live watches at once.  With four
  values the counter wraps and goes negative within the run.
- *provider*: a lease for the first registration, one for a handler that outlives it, one for the
  second registration and one more for its handler: every handler can run against an `UnRegister`
  and against the `Register` after it.
- *calls, the others*: a Redis answer is wrong through one late command and one that overtakes
  it; two mails show what a first leaves for a second, as two runs of Remux do.
- *data*: a stale pointer needs one operation that binds, one that replaces a buffer and one that uses
  the old binding; a truncated row, one string longer than the buffer; five calls have both
  within a transaction and across two.  Messages: one
  object is merged into another, with all kinds of field.  RPC: two calls with two attempts have every
  answer that is late for its attempt, its call, or both; sums are zero, negative and out of range.
  Playlists: enough lines for two segments, a tag and the end.  The theorems of section 5 have no bounds.
- *fastdfs* (in `calls`): initialize, upload, and three calls around the file that exists then: two threads
  that download and delete it while a third call destroys the client, or a destroy and a new
  initialize within one transfer.
- *service registry* (in `calls`): four addresses let the list shrink and grow around the cursor.

### Fairness

- *client*: weak fairness of every caller thread's next step (threads are scheduled, `wait_for`
  elapses) and of the network thread; strong fairness of `AsyncFire`, because one iteration
  of a libev loop serves all pending watchers: traffic on the socket cannot starve the async
  handle.  The broker is under no obligation, no thread has to make a call.
- *delivery*: the broker hands out what the window allows and reads what it is sent, the loop
  reads, and callbacks return.  Liveness is claimed only for a channel that stays open.
- *watcher*: the watch thread delivers, a `Start` in progress goes on.  etcd need not change.
- *provider*: the owner and the handlers run and etcd answers them (with an error, if it likes); a
  lease without a heartbeat runs out; a heartbeat for a lease that is gone fails.
- `calls` and `data` check safety only.

## 4. Where the program and its documentation disagree

Besides the four shown by runs:

- **Start twice.**  A second `Start` returns true as soon as the flag is set (AmqpUtil.cpp:66-67),
  before there is a connection, and after a `Start` that failed (the flag is not cleared).
  ProducerDemo.cpp:14-18 takes true for connected.
- **Publish.**  True means only that a task was posted: the task drops the message when the
  channel is not connected (:267), and `_isConnetionEstablished` is never cleared.  README.md:218
  speaks of reliable publishing.
- **Publish, overtaken.**  `Publish` tests `_isEventLoopRunning` (:262) and so does `PostTask` (:129), which
  returns nothing: when a `Stop` comes between the two, the message is dropped and `Publish` returns true.  Hence
  `overtaken` in `PublishedIsPosted`.
- **Consume.**  A call that times out returns false (:321) although the subscription may be made
  afterwards; the application then runs callbacks of a subscription it believes to have failed.
- **Two lifecycle threads.**  `_networkEventThread` is assigned (:74) and joined (:117-118,
  :123-124) without a lock: two threads that start, stop or wait can assign to a joinable thread,
  join twice, or destroy a loop that runs.  README.md:217 calls the client thread-safe.  One thread
  alone has none of this, for a reason that is no better: once its `Start` made the thread, its first
  `Stop` does not return (`client_stop_returns`).  No property is claimed of the lifecycle but that one.
- **Ack, then reject.**  The inverted guard also lets a `Reject` through after an `Acknowleged`; the
  broker closes the channel on the unknown tag.  Hence the premise of `SettledOnce`.
- **Keyless direct publisher.**  `PublishMessage` falls back to the queue name as key
  (AmqpUtil.h:163) but `Declare` binds with the empty key (:198): the message is not routed.  Hence
  the premise of `PublishedIsRouted`.
- **Watch gap.**  The watch is created after the ls and without its revision (EtcdUtil.cpp:112,
  :138): a change in between is never seen.  Hence `gap` in `Undisturbed`.
- **Counter.**  `_index` is an `atomic_int` converted to `size_t` (EtcdUtil.cpp:203): when it wraps or
  becomes negative the rotation jumps unless the number of endpoints divides 2^32.  Hence the
  premise of `RoundRobin`.
- **Provider, a handler that is not waited for.**  `_register`, `_lease_id` and `_keep_alive` are
  shared without a lock (EtcdUtil.cpp:50-56, :74-84).  If `Cancel` does not wait for a handler in
  progress, a handler that has read `_register` as true registers the node again after
  `UnRegister` returned, and, because its put reads the `_lease_id` that `UnRegister` sets to 0, can
  write the key under no lease, which never expires.  README.md:206 promises RAII going offline.
  Hence the premise `waits`.
- **Provider, a second Register** while the first is in force starts a second registration
  without ending the first: its thread and the old object's handler race in the same way,
  also where `Cancel` waits.  Hence the premise `orderly`.
- **Provider, one attempt.**  The handler tries once ("正在尝试重连", trying to reconnect, :49): if the
  grant or the put fails there is no KeepAlive left whose handler could try again.  Hence the premise of
  `Recovers`.  Likewise a `Register` that returned false leaves `_register` true.
- **Provider::GetLeaseID** returns the 64-bit lease as an int (EtcdUtil.h:36).
- **FastDFS, thread safety.**  README.md:201 calls the client thread-safe; the mutex covers
  `Initialize` and `Destory` only.  A transfer that passed the test of the flag (FastDFSUtil.cpp:87)
  goes on with a client that `Destory` frees.  Hence the exception in `GuardedUse`.
- **FastDFS, connection pool.**  Line 62 writes the key and the value of `use_connection_pool`
  without ` = ` between them, so the setting (FastDFSUtil.h:14) is not the one that is configured.
- **FastDFS, failed download.**  `DownloadFile` hands its target path to the library (:195-201): when it returns
  false, a file that was there may be truncated or gone.  Hence `DoneIsDone` claims an untouched output of a
  failed `DownloadBuffer` only.
- **Redis.**  A `set` with a negative ttl returns true and stores nothing (RedisUtil.cpp:64-70).  "No"
  after a time-out says nothing about the server.  Hence the premises of `YesIsTrue`.
- **Mail.**  The deleters of the curl handles (MailCodeUtil.h:25) test for null the wrong way round: no
  handle is ever freed.  A message without recipients makes curl send a command instead of a mail, and
  `send` may return true with nothing mailed.  Hence the premise of `MailedOnce`.
- **Remux.**  `return -1` (FFmpegUtil.cpp:148) is true for the caller.  A read error ends the loop at :179
  like the end of the source.  A time stamp beyond the duration is reported as 1.0 (:193), after which the write
  (:201) or the trailer (:212) may fail: 1.0 does not mean that the output is complete, and `RemuxIsWhole` says
  only that success was announced by it.  The options are released at :165 before the header is written, and leak
  when that fails.  Hence the exceptions in `RemuxIsWhole`.
- **M3U8.**  A tag between `#EXTINF` and its URI is taken for the URI; tags between segments are moved
  to the head of the playlist.  Hence `Regular` in `PlaylistKept`.
- **ES.**  A `MatchAll` query drops the sort order that was set (ESUtil.cpp:99).
- **Messages.**  A string that is not UTF-8 can be set and is serialized (with a log entry), and no parser
  accepts it.  Hence `Sendable`.  After a parse that failed in a map entry the model keeps the entry, which the
  library takes out again; no property looks at what a failed parse leaves.
- **client.cpp** ends two seconds after its calls although their time-out is three seconds.
- **crud.cpp:24** and :64 call `Student` with four arguments; student.hxx:18 takes five.
- **view.cpp** takes the classes it persists for those with the numbers 1 and 2; `persist` gives
  them the next numbers of the table, and a rollback does not give numbers back.
- **Watcher::Stop** never gets past its first test (EtcdUtil.cpp:177).

## 5. What is proved

TLAPS proves what follows for every value of the constants.  The assumptions on them are the
`ASSUME`s of the modules (distinct distinguished values, bounds that are numbers, kinds among those
the code has), which TLC evaluates on every run, and, where a module is instantiated, the same
facts as hypotheses of the theorem.

| Module | Theorem | States |
|---|---|---|
| `MessageQueueClientProofs` | `TypeCorrect`, `NoWakeupLost` | `[]TypeOK`, `[]NoLostWakeup` |
| | `RefinementInvariant`, `ImplementsMailbox` | `Spec => Mailbox` and the invariant it rests on |
| | `SafetyInvariant`, `PromisesOnce`, `TrueConfirmed`, `PublishedPosted` | `[]PromiseOnce`, `[]TrueMeansConfirmed`, `[]PublishedIsPosted` |
| `AmqpDeliveryProofs` | `DeliveryInvariant`, `HandledFirst`, `DeliveryTypes` | `[]SettledAfterHandling`, `[]TypeOK` and the invariant they rest on |
| | `EachTagOnce`, `DuplicatesMarked` | `[]SettledOnce`, `Spec => DuplicateIsMarked` |
| `AmqpProofs` | `TopologyTypes`, `DeclaredStays`, `PublishedArrives` | `[]TypeOK`, `[]DeclaredExists`, `[]PublishedIsRouted` |
| `EtcdProviderProofs` | `ProviderTypes`, `HeartbeatFollows`, `KeyIsLeased` | `[]TypeOK`, `[]HeartbeatFollowsKey`, `[]NoEternalKey` |
| `EtcdWatcherProofs` | `WatcherInvariant`, `WatcherTypes`, `CacheLags`, `EndpointsRotate` | `[]TypeOK`, `[]CacheLagsByEvents`, `[]RoundRobin` and the invariant they rest on |
| `CallsProofs` | `TypeCorrect`, `FlagTrue`, `NothingStaysHeld`, `UseIsGuarded`, `DoneIsReallyDone` | `[]TypeOK` and `[]FlagIsTrue` of `FastDFSClient`, `[]NothingHeld`, `[]GuardedUse`, `[]DoneIsDone` |
| | `TypesCorrect` | `[]TypesOK` of the composition |
| | `MailIsSentOnce`, `RedisAnswersAreTrue`, `RemuxLeavesNothing` | `[]MailedOnce`, `[]YesIsTrue`, `[]RemuxIsWhole` |
| | `ManagerInvariant`, `ManagerRoundRobin`, `ManagerIsLinearizable` | `[]RoundRobin`, `LinearizableRegistry` and the invariant they rest on |
| `CodecsProofs` | `FreshBindings`, `StoredComesBack` | `[]BindingsFresh`, `[]StoredIsLoaded` of `OdbDatabase` |
| | `BindingsStayFresh`, `StoredStaysLoaded` | the same of `Codecs` |
| | `MessagesComeBack`, `ConcatenationIsMerge` | `[]RoundTrip`, `[]ConcatenationMerges` |
| | `AnswersAreOwn` | `[]AnswerIsOwn` |
| | `PlaylistsAreKept` | `[]PlaylistKept` |

Each proof has one lemma per action, and an invariant by named parts; each property was an
`INVARIANT` of TLC on a small instance before it was proved.  What the invariants add to
the properties, and why they must:

**MessageQueueClient** (any threads, calls and kinds).

- `TypeOK` is inductive.  So is `NoLostWakeup` with it: every step that makes the queue non-empty leaves
  its poster at `notify`, and the only step that consumes the notification empties the queue.
- `RefinementInv` adds `Ownership` (two threads are never in the same call), `NoThreadUnjoined` (a
  thread object that is not joinable stands for no running network thread, so that `Spawn` never
  abandons a batch) and `PostedOnce` (a call that is still before its push is in no queue, and the
  batch is empty unless the network thread is running it).  The mailbox is `batch \o queue`: `Push` is
  `Put`, the `Run...` actions are `Run`, and `AsyncFire` is a stutter because `PostedOnce` makes the
  batch empty when the queues are swapped.
- `SafetyInv` adds, for the other three: `CallPlaces` (where a call of a kind can be); `EachOnce` (no
  task is twice in the queues, none that ran is in them); `PromiseInv` (a promise that is set
  belongs to a `Start` or to a task that ran, and the broker is asked only for what has a promise to
  set: this is why neither the second answer of a declaration nor an error after it sets a promise
  again); `ConfirmedInv` ("true" is what the broker confirmed, and a call made in a
  consumer callback cannot be answered while the network thread is in the callback); `PostedInv` (a
  publish that is about to make the second test finds the flag set or was overtaken, and one that is about to
  notify has its message in the queues or run).

**AmqpDelivery** (any finite set of messages, any prefetch window, modes, behaviours and number of clients).

- `HandledInv`: `SettledAfterHandling` follows from what the broker cannot see.  `Wire` says that deliveries arrive in
  the order of their tags, `Delivered` being the last tag a callback was called with; `Ordered`, that what is
  unsettled is in that order; `Waits`, that an unsettled delivery is in `inbound` at the place its tag
  gives, or in the callback, or done.  `Covered` is the point: an acknowledgement on the wire covers nothing
  unsettled that no callback is done with, also when it is `multiple`, because a context of tag `n` is made
  only when all callbacks before it have returned.  What `Settle` takes from the sequence is described by
  `SettledParts`, for one tag and for all up to one.
- `OnceInv`: unless the application misused a context, the frames on the wire have growing tags, each of which the
  broker still waits for, as it does for what is on its way to the client and for a context that is not settled yet.
- `MarkedInv`: whatever a callback was called with has been handed out (`seen`), and an unmarked delivery
  on its way is of a message no callback was called with and no delivery before it carries.

**AmqpTopology** (any users, settings and numbers of declarations).  `DeclaredExists` is not
inductive: the chain of a call that timed out goes on.  `DeclareInv` adds `StagesMade` (a
chain has made what the stages it is past make), `OneChain` (a call has one chain) and `PartsMade` (the
chain its caller waits for declares the part the caller is at, and the parts before it exist), and rests
on the broker's never changing what exists (`Grows`).  `PublishedArrives` uses that a Delayed setting is
never declared with success (`NoDelayed`, see section 4).

**EtcdProvider** (any number of leases, registrations and failed heartbeats).  Four invariants:

- `BaseInv`: types, `Counted` (every KeepAlive that exists or is to come has a lease of its own, and
  there is one for everyone who will ask, which keeps the bound on the leases), `Places` and `Newest` (only the newest
  KeepAlive is installed, only that one beats, and not in its own handler).
- `HeartbeatInv`: while no request failed, the key is that of the last lease unless its put is to come,
  the last heartbeat is for the lease of the key unless it is to come, and it beats
  unless a handler or the owner is about to install the next.
- `WithdrawalInv`, where `Cancel` waits: `Chain` says that a handler at work is the current one, or
  somebody who destroys its KeepAlive waits for it.  The waiters can form a chain (a handler installs
  a KeepAlive and waits for nobody but is waited for by the next one), so that "there is no
  handler but the current one" needs a least element (`Alone`, by well-founded induction on the numbers of
  the KeepAlives).  `Withdrawn` says what that leaves after each step of `UnRegister`.
- `LeasedInv`, where besides no `Register` is made while another is in force: at most one thread is
  in `DoRegister` (`OneAsks`), so nobody resets `_lease_id` between the grant and the put of another.

**ServiceManager** (any threads, services, nodes and width of the counter above 0).  `ManagerInv` says that no
list repeats a node (`Lists`), and that the recent choices on a list are those of the last values of the counter,
modulo its length (`Rotation`).  `RoundRobin` follows because remainders of nearby numbers differ
(`RemaindersDiffer`).  The refinement maps the registry to the maps under both locks; a step that takes or
releases a lock is a stutter.

What `CallsProofs` proves it proves of `ServiceCalls`, the composition the runs check: a step of the composition
is a step of one client and leaves the others alone (`StepOfEach`).

**EtcdWatcher** (any finite set of keys, any endpoints and bounds, any width of the counter).  `WatcherInv` has
five parts.  `Listed`: the vector is the map listed in some order, each present key once.  `Watches`: how many watches
are live in each phase of `Start`; two only between the creation of the new one and the end of the old.  `Lag`:
what the first `Start` knows of the store in each phase if nothing changed in the gap; a watch
that lags is kept so by `ApplyParts`, which splits the events that are undelivered at any place.  `Rotation`: the recent
choices took consecutive values of the counter, and the slot of each is its value modulo the length of the vector.
`RoundRobin` follows, as for the manager, because remainders of nearby numbers differ.

**FastDFSClient** (any threads, contents, operations and bounds).  `TypeOK` is not inductive (a
`Create` next to another would make a second client), so it is proved together with `LockInv` and
`HeldInTransfer`.  `LockInv` says that exactly the thread inside `Initialize` or `Destory` has the mutex
(`Exclusion`), that a thread is in the part of the code its call belongs to (`InTheRightCall`), that the flag
follows the client but for the step between the two (`FlagFollows`), and what the thread inside may
expect (`Expectation`).  `HeldInTransfer` says who can have a connection or a buffer.  `GuardedUse` is inductive
relative to it: a transfer that passes `Check` without a client finds a Destory between the client and the
flag, and that Destory marks it when it returns.  `DoneIsDone` needs what each thread has been told so far.

**Mail, Redis, Remux.**  `MailInv`: what the server got is the part of the payload that `readCallback` went past.
`RedisInv`: the reply that a thread holds fits its command and is true (`ReplyFits`, `ToldTrue`).
`RemuxInv`: where a run is says what it holds and has written (`Running`), and the packets are stamped in
their order (`AllStamped`).  Their types add `RedisBounds` (a call takes a connection only while the pool has one)
and `RemuxBounds` (the streams of the output are the first ones of the source).

**OdbDatabase** (any objects and identifiers, any number of calls; a buffer has a positive capacity,
`Stale` is no capacity).  `BindingsFresh` alone is not inductive: a binding that saw a version the image has
not reached would pass for current later.  `Sound` adds the shape of the record (`WellFormed`) and that nobody
is ahead of the version it follows (`Behind`).  Each operator of `OdbStatements` preserves `Sound` (one lemma
each), and each action changes a class's statements by these operators only.
`StoredIsLoaded` follows a value through three lists of columns that are matched by position only.
Each list is shown to hold every column once, at the place the other lists expect it (`FourLists`,
`StudentLists`, `ClassesLists`), so that what is sent is the row of the object and what is fetched is the object of
the row.  A statement that was bound before it runs uses the buffers the image has now (`Fresh`), which is
where `Sound` is needed, and a fetch through such a statement loses nothing, whether it is truncated
first or not (`FetchedWhole`).  `DataInv` says besides that both copies of the tables hold rows of objects
(`TablesOK`): an UPDATE keeps the columns it does not send (`Merged`).

**MessageObjects, RpcCalls, M3U8Playlist** (any strings, numbers, records and lines, any numbers of calls, and
int32 of any width; the assumption on the records of other peers is that one with a known number and type has a
payload of that type).  These three are loops over sequences, written as folds, and induction over data is
outside the provers.  What takes its place: a sequence of the states a loop goes through exists
(`FoldExists`, by well-founded induction on a set of indices), the loop ends in the last of them
(`LoopStates`), and so a fact about states that one turn preserves holds at the end.  Two states in a row are
one loop after another on two sequences in a row (`LoopConcat`).  From there:

- *Messages.*  `FieldParsed` reads back what one field writes: one record per field, the packed
  numbers, or one record per entry of the map in whatever order.  The fields are then read one after the other, and an unknown
  record goes to the end of the unknown ones, so that parsing what is serialized gives the
  message (`ParsedIsSent`), and parsing it into another message gives what `Merge` gives (`ConcatParsed`).
  To a peer that does not know them the other fields are unknown records, which it writes after
  its own field: the name comes first on both ways, and so the order stays.  `MessagesOK` says that what the calls
  leave are messages: fields of their kinds, and unknown records that are unknown to `person`.
- *RPC.*  `RpcOK`: every packet and every request in a handler carries what its own call asked, or the
  answer to that, and a closure that ran found an error or that answer.  `Serialize` and `Parse` of the
  request and the response come from the lemmas on messages.
- *Playlists.*  A regular playlist is read into headers, segments and the end mark in such a way that what they
  would write is, after each line, what was read so far (`RegularState`), but for directories: `Sim` is equality of lines up
  to those.  What any parser writes it reads back (`Reread`).  `PlaylistOK`: the parser holds headers that
  are tags and segments that are an `#EXTINF`'s and a URI, and, once it has read the text, is
  faithful to it, which new base URLs do not change.

Model-checked only:

- all liveness (`TasksRun`, `CallsReturn`, `Recovers`, `GoesOffline` and the others): fairness and
  ENABLED are outside the prover;
- the runs that expect a violation.

## 6. Plan

What is left, most important first:

1. The pool of connections of `OdbUtil` with several threads, each with statements of its own.
2. The composition of `EtcdWatcher` with `ServiceManager` is not in the code: no file connects them.

## 7. What is not modelled

Logger and JsonUtil (formatting without state); ESUtil (a builder of a JSON text); the
demonstrations other than those of RPC, ODB and protobuf named above (read for what they say of the
library); of the generated code, arenas, cached sizes, `ByteSizeLong`, reflection, descriptors and schema creation;
the contents of messages and files, and the insides of third-party libraries, which appear
only through the effect the code relies on.  A copy of the calculator classes in
`src/example/brpc/simple` equals the one that is modelled.  Within the client: the error callback of the application
(`SetErrorNotificationCallback`) and direct calls of `PostTask`, which behave like a publish.  The
move operations of `Provider` and the configuration text of FastDFS are left out, and a library
call on a destroyed FastDFS client ends in the model like any other.  Use
of a `DeliveryContext` after its channel object is gone is undefined behaviour and is not explored.
