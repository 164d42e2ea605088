------------------------------ MODULE CallsProofs ------------------------------
(***************************************************************************)
(* Proofs about the clients of external services whose calls return an     *)
(* outcome, composed in ServiceCalls: FastDFSClient, whose theorems speak  *)
(* of its own specification, MailUpload, RedisCalls, HlsRemux and          *)
(* ServiceManager, which implements ServiceRegistry.                       *)
(***************************************************************************)
EXTENDS ServiceCalls, SequenceFacts

-----------------------------------------------------------------------------
(* What the threads in Initialize and Destory know.                        *)

Holding == {"locked", "create", "destroy", "set"}

\* The mutex: exactly the thread inside has it.
Exclusion == \A t \in Threads : mutex = t <=> pc[t] \in Holding

\* Where a thread is fits the call it makes.
InTheRightCall ==
    \A t \in Threads :
        /\ pc[t] \in {"lock"} \cup Holding => call[t].op \in {"Initialize", "Destory"}
        /\ pc[t] = "create"  => call[t].op = "Initialize"
        /\ pc[t] = "destroy" => call[t].op = "Destory"
        /\ pc[t] \in {"check", "connect", "transfer", "finish"} => call[t].op \in Transfers

\* The flag follows the client, but for the step between the two.
FlagFollows ==
    \/ isInitialized <=> clients = 1
    \/ \E u \in Threads : pc[u] = "set"

\* The thread that is about to change the client finds it as it expects, and the one that
\* changed it has the flag to set.
Expectation ==
    \A t \in Threads :
        /\ pc[t] = "create"  => ~isInitialized
        /\ pc[t] = "destroy" => isInitialized
        /\ pc[t] = "set" /\ call[t].op = "Initialize" => clients = 1
        /\ pc[t] = "set" /\ call[t].op = "Destory" => clients = 0

LockInv == Exclusion /\ InTheRightCall /\ FlagFollows /\ Expectation

\* Only a transfer has a connection; only the end of a download that succeeded has a buffer,
\* with a file the storage took in.
HeldInTransfer ==
    /\ \A t \in connections : pc[t] \in {"transfer", "finish"}
    /\ \A t \in buffers : /\ pc[t] = "finish" /\ code[t]
                          /\ call[t].op = "DownloadBuffer" /\ call[t].file \in 1..Number

-----------------------------------------------------------------------------
(* One lemma for each group of the type invariant.                         *)

\* A call that begins is one the constants allow.
LEMMA CallArguments ==
    ASSUME NEW o \in Operations, NEW a \in Arguments(o), StorageTypeOK
    PROVE  [op |-> o, content |-> a[1], file |-> a[2]] \in Calls
<1>1. a[1] \in Contents /\ a[2] \in 0..MaxFiles
  <2>1. DOMAIN written \subseteq 0..MaxFiles
    BY FastDFSAssumption DEF StorageTypeOK, Number
  <2> QED
    BY <2>1, FastDFSAssumption DEF Arguments, NoFile
<1> QED
  BY <1>1 DEF Calls

\* Threads stay at places of the code, with a call if they are in one.
LEMMA ThreadType ==
    ASSUME TypeOK, Next
    PROVE  ThreadTypeOK'
<1> USE DEF Labels, ThreadTypeOK, TypeOK
<1>1. PICK t \in Threads : Call(t) \/ Step(t)
  BY DEF Next
<1>2. CASE Call(t)
  <2>1. PICK o \in Operations : \E a \in Arguments(o) :
            /\ call' = [call EXCEPT ![t] = [op |-> o, content |-> a[1], file |-> a[2]]]
            /\ Goto(t, IF o \in Transfers THEN "check" ELSE "lock")
    BY <1>2 DEF Call
  <2>2. PICK a \in Arguments(o) :
            /\ call' = [call EXCEPT ![t] = [op |-> o, content |-> a[1], file |-> a[2]]]
            /\ Goto(t, IF o \in Transfers THEN "check" ELSE "lock")
    BY <2>1
  <2>3. call' \in [Threads -> Calls]
    BY <2>2, CallArguments
  <2>4. pc' \in [Threads -> Labels]
    BY <2>2 DEF Goto
  <2>5. calls' \in 0..MaxCalls
    BY <1>2, FastDFSAssumption DEF Call
  <2>6. UNCHANGED <<code, result>> /\ overtaken' \subseteq Threads
    BY <1>2 DEF Call
  <2> QED
    BY <2>3, <2>4, <2>5, <2>6
<1>3. CASE Lock(t) \/ Locked(t) \/ Create(t) \/ Destroy(t)
  BY <1>3 DEF Lock, Locked, Create, Destroy, Goto, Return, localVars
<1>4. CASE Set(t)
  BY <1>4 DEF Set, Goto, Return, UsingClient
<1>5. CASE Check(t) \/ Connect(t)
  BY <1>5 DEF Check, Connect, Goto, Return
<1>6. CASE Transfer(t)
  <2>1. PICK ok \in BOOLEAN : code' = [code EXCEPT ![t] = ok]
    <3>1. CASE Upload(t) \/ Download(t)
      BY <3>1 DEF Upload, Download
    <3>2. CASE Delete(t)
      BY <3>2 DEF Delete
    <3> QED
      BY <1>6, <3>1, <3>2 DEF Transfer
  <2> QED
    BY <1>6, <2>1 DEF Transfer, Goto
<1>7. CASE Finish(t)
  BY <1>7 DEF Finish, Goto, Return, Success
<1> QED
  BY <1>1, <1>2, <1>3, <1>4, <1>5, <1>6, <1>7 DEF Step

\* There is one client at most, and one holder of the mutex.
LEMMA ClientType ==
    ASSUME TypeOK, LockInv, Next
    PROVE  ClientTypeOK'
<1> USE DEF ClientTypeOK, TypeOK
<1>1. PICK t \in Threads : Call(t) \/ Step(t)
  BY DEF Next
<1>2. CASE Call(t)
  BY <1>2 DEF Call, sharedVars, libraryVars
<1>3. CASE Lock(t)
  BY <1>3 DEF Lock, libraryVars
<1>4. CASE Locked(t)
  BY <1>4 DEF Locked, Unlocked, libraryVars
<1>5. CASE Create(t)
  <2>1. clients = 0
    BY <1>5 DEF Create, LockInv, Expectation, FlagFollows, Exclusion, Holding
  <2> QED
    BY <1>5, <2>1 DEF Create, Goto, Return, libraryVars
<1>6. CASE Destroy(t)
  <2>1. clients = 1
    BY <1>6 DEF Destroy, LockInv, Expectation, FlagFollows, Exclusion, Holding
  <2> QED
    BY <1>6, <2>1 DEF Destroy, libraryVars
<1>7. CASE Set(t)
  BY <1>7 DEF Set, Flag, libraryVars
<1>8. CASE Check(t) \/ Connect(t)
  BY <1>8 DEF Check, Connect, sharedVars, libraryVars
<1>9. CASE Transfer(t)
  BY <1>9 DEF Transfer, Upload, Download, Delete, sharedVars
<1>10. CASE Finish(t)
  BY <1>10 DEF Finish, Closed, sharedVars
<1> QED
  BY <1>1, <1>2, <1>3, <1>4, <1>5, <1>6, <1>7, <1>8, <1>9, <1>10 DEF Step

LEMMA OneMore ==
    ASSUME NEW n \in Nat, NEW S \in SUBSET (1..n)
    PROVE  S \cup {n + 1} \subseteq 1..(n + 1)
OBVIOUS

\* What is stored stays stored, identifiers and outputs are of what is there.
LEMMA StorageType ==
    ASSUME TypeOK, HeldInTransfer, Next
    PROVE  StorageTypeOK'
<1> USE DEF StorageTypeOK, TypeOK, Number
<1>1. PICK t \in Threads : Call(t) \/ Step(t)
  BY DEF Next
<1>2. CASE Call(t)
  BY <1>2 DEF Call, storageVars, NoFile
<1>3. CASE Lock(t) \/ Locked(t) \/ Create(t) \/ Destroy(t) \/ Set(t)
  BY <1>3 DEF Lock, Locked, Create, Destroy, Set, storageVars, localVars
<1>4. CASE Check(t) \/ Connect(t)
  BY <1>4 DEF Check, Connect, storageVars
<1>5. CASE Transfer(t) /\ Upload(t)
  <2>1. call[t].content \in Contents
    BY DEF ThreadTypeOK, Calls
  <2>2. CASE /\ Len(written) < MaxFiles
             /\ written' = Append(written, call[t].content)
             /\ files' = files \cup {Len(written) + 1}
             /\ identifier' \in {identifier, [identifier EXCEPT ![t] = Len(written) + 1]}
    <3>1. written' \in Seq(Contents) /\ Len(written') = Len(written) + 1
      BY <2>1, <2>2, AppendProperties
    <3>2. files' \subseteq 1..Len(written')
      <4>1. Len(written) \in Nat /\ files \subseteq 1..Len(written)
        OBVIOUS
      <4>2. files' = files \cup {Len(written) + 1}
        BY <2>2
      <4> QED
        BY <3>1, <4>1, <4>2, OneMore
    <3>4. identifier' \in [Threads -> 0..Len(written')]
      <4>1. identifier \in [Threads -> 0..Len(written')] /\ Len(written) + 1 \in 0..Len(written')
        BY <3>1
      <4> QED
        BY <2>2, <4>1
    <3>3. output' = output
      BY <1>5 DEF Upload
    <3> QED
      BY <2>2, <3>1, <3>2, <3>3, <3>4, FastDFSAssumption
  <2>3. CASE UNCHANGED <<storageVars, identifier>>
    BY <1>5, <2>3 DEF Upload, storageVars
  <2> QED
    BY <1>5, <2>2, <2>3 DEF Upload
<1>6. CASE Transfer(t) /\ Download(t)
  <2>1. UNCHANGED <<written, files, identifier>>
    BY <1>6 DEF Download, storageVars
  <2>2. output' \in [Threads -> Contents \cup {Old, Spoilt}]
    <3>1. \A f \in files : written[f] \in Contents
      OBVIOUS
    <3> QED
      BY <1>6, <3>1 DEF Download
  <2> QED
    BY <2>1, <2>2
<1>7. CASE Transfer(t) /\ Delete(t)
  BY <1>7 DEF Delete
<1>8. CASE Finish(t)
  <2>1. t \in buffers => written[call[t].file] \in Contents
    BY DEF HeldInTransfer
  <2> QED
    BY <1>8, <2>1, FastDFSAssumption DEF Finish, storageVars, Received
<1> QED
  BY <1>1, <1>2, <1>3, <1>4, <1>5, <1>6, <1>7, <1>8 DEF Step, Transfer

-----------------------------------------------------------------------------
(* The mutex and the flag.                                                 *)

\* A step of one thread leaves every other thread where it is.
LEMMA Others ==
    ASSUME TypeOK, NEW t \in Threads, Call(t) \/ Step(t), NEW u \in Threads, u # t
    PROVE  pc'[u] = pc[u] /\ call'[u] = call[u] /\ code'[u] = code[u]
BY DEF TypeOK, ThreadTypeOK, Call, Step, Lock, Locked, Create, Destroy, Set, Check, Connect,
       Transfer, Upload, Download, Delete, Finish, Goto, Return, localVars

\* Nobody enters while another thread is inside.
LEMMA ExclusionStep ==
    ASSUME TypeOK, LockInv, Next
    PROVE  Exclusion'
<1> USE DEF Exclusion, Holding, LockInv, TypeOK, ThreadTypeOK, ClientTypeOK
<1>1. PICK t \in Threads : Call(t) \/ Step(t)
  BY DEF Next
<1>2. CASE UNCHANGED mutex /\ (pc[t] \in Holding <=> pc'[t] \in Holding)
  BY <1>1, <1>2, Others
<1>3. CASE Lock(t)
  BY <1>1, <1>3, Others, FastDFSAssumption DEF Lock, Free, Goto
<1>4. CASE pc[t] \in Holding /\ mutex' = Nobody /\ pc'[t] = "idle"
  BY <1>1, <1>4, Others, FastDFSAssumption
<1>5. CASE Call(t)
  BY <1>2, <1>5 DEF Call, Goto, sharedVars
<1>6. CASE Locked(t) \/ Create(t) \/ Destroy(t) \/ Set(t)
  BY <1>2, <1>4, <1>6 DEF Locked, Create, Destroy, Set, Unlocked, Goto, Return
<1>7. CASE Check(t) \/ Connect(t) \/ Transfer(t) \/ Finish(t)
  BY <1>2, <1>7 DEF Check, Connect, Transfer, Finish, Goto, Return, sharedVars
<1> QED
  BY <1>1, <1>3, <1>5, <1>6, <1>7 DEF Step

\* A call keeps to its own part of the code.
LEMMA RightCallStep ==
    ASSUME TypeOK, LockInv, Next
    PROVE  InTheRightCall'
<1> USE DEF InTheRightCall, Holding, LockInv, TypeOK, ThreadTypeOK
<1>1. PICK t \in Threads : Call(t) \/ Step(t)
  BY DEF Next
<1>2. CASE Call(t)
  <2>1. /\ pc'[t] = (IF call'[t].op \in Transfers THEN "check" ELSE "lock")
        /\ call'[t].op \in Operations
    BY <1>2 DEF Call, Goto
  <2> QED
    BY <1>1, <2>1, Others, FastDFSAssumption
<1>3. CASE Lock(t) \/ Locked(t) \/ Create(t) \/ Destroy(t) \/ Set(t)
  BY <1>1, <1>3, Others DEF Lock, Locked, Create, Destroy, Set, Goto, Return, localVars
<1>4. CASE Check(t) \/ Connect(t) \/ Transfer(t) \/ Finish(t)
  BY <1>1, <1>4, Others DEF Check, Connect, Transfer, Finish, Goto, Return
<1> QED
  BY <1>1, <1>2, <1>3, <1>4 DEF Step

\* The thread inside changes the client and the flag one after the other, and nobody else does.
LEMMA FlagStep ==
    ASSUME TypeOK, LockInv, Next
    PROVE  FlagFollows' /\ Expectation'
<1> USE DEF FlagFollows, Expectation, LockInv, TypeOK, ThreadTypeOK, ClientTypeOK
<1>1. PICK t \in Threads : Call(t) \/ Step(t)
  BY DEF Next
<1>2. pc[t] \in Holding => \A u \in Threads : u # t => pc[u] \notin Holding /\ pc'[u] = pc[u]
  BY <1>1, Others DEF Exclusion
<1>3. CASE /\ UNCHANGED <<isInitialized, clients>>
           /\ pc[t] # "set" /\ pc'[t] \notin {"create", "destroy", "set"}
  BY <1>1, <1>3, Others
<1>4. CASE Locked(t)
  BY <1>2, <1>3, <1>4 DEF Locked, Goto, Return, Holding, InTheRightCall
<1>5. CASE Create(t) \/ Destroy(t)
  <2>1. isInitialized <=> clients = 1
    BY <1>2, <1>5 DEF Create, Destroy, Holding
  <2> QED
    BY <1>2, <1>5, <2>1 DEF Create, Destroy, Goto, Return, Holding, InTheRightCall, localVars
<1>6. CASE Set(t)
  <2>1. call[t].op \in {"Initialize", "Destory"} /\ pc[t] = "set"
    BY <1>6 DEF Set, InTheRightCall, Holding
  <2>2. isInitialized' = (call[t].op = "Initialize") /\ clients' = clients /\ pc'[t] = "idle"
    BY <1>6 DEF Set, Flag, Goto, Return
  <2>3. isInitialized' <=> clients' = 1
    <3>1. CASE call[t].op = "Initialize"
      BY <2>1, <2>2, <3>1
    <3>2. CASE call[t].op = "Destory"
      <4>1. clients' = 0
        BY <2>1, <2>2, <3>2
      <4>2. isInitialized' = FALSE
        BY <2>2, <3>2
      <4> QED
        BY <4>1, <4>2
    <3> QED
      BY <2>1, <3>1, <3>2
  <2>4. \A u \in Threads : pc'[u] \notin {"create", "destroy", "set"}
    BY <1>2, <2>1, <2>2 DEF Holding
  <2> QED
    BY <2>3, <2>4
<1>7. CASE Call(t)
  BY <1>3, <1>7 DEF Call, Goto, sharedVars
<1>8. CASE Lock(t) \/ Check(t) \/ Connect(t) \/ Transfer(t) \/ Finish(t)
  BY <1>3, <1>8 DEF Lock, Check, Connect, Transfer, Finish, Goto, Return, sharedVars
<1> QED
  BY <1>1, <1>4, <1>5, <1>6, <1>7, <1>8 DEF Step

\* Connections and buffers are closed and freed by the step that returns.
LEMMA HeldStep ==
    ASSUME TypeOK, LockInv, HeldInTransfer, Next
    PROVE  HeldInTransfer'
<1> USE DEF HeldInTransfer, TypeOK, ThreadTypeOK, ClientTypeOK, StorageTypeOK, Number
<1>1. PICK t \in Threads : Call(t) \/ Step(t)
  BY DEF Next
<1>2. Len(written') \in Nat /\ Len(written) \in Nat /\ Len(written') >= Len(written)
  <2>1. CASE Transfer(t) /\ Upload(t)
    <3>1. call[t].content \in Contents
      BY DEF Calls
    <3> QED
      BY <2>1, <3>1, AppendProperties DEF Upload, storageVars
  <2>2. CASE written' = written
    BY <2>2
  <2> QED
    BY <1>1, <2>1, <2>2 DEF Call, Step, Lock, Locked, Create, Destroy, Set, Check, Connect,
       Transfer, Download, Delete, Finish, storageVars
<1>3. CASE UNCHANGED libraryVars /\ pc[t] \notin {"transfer", "finish"}
  <2>1. \A u \in Threads \ {t} : pc'[u] = pc[u] /\ call'[u] = call[u] /\ code'[u] = code[u]
    BY <1>1, Others
  <2>2. connections \subseteq Threads \ {t} /\ buffers \subseteq Threads \ {t}
    BY <1>3
  <2> QED
    BY ONLY HeldInTransfer, <1>2, <1>3, <2>1, <2>2
       DEF HeldInTransfer, libraryVars, Number
<1>4. CASE Connect(t)
  <2>1. /\ buffers' = buffers /\ call' = call /\ code' = code
        /\ \/ connections' = connections /\ pc'[t] = "idle"
           \/ connections' = connections \cup {t} /\ pc'[t] = "transfer"
    <3>1. CASE Goto(t, "transfer") /\ connections' = connections \cup {t}
      BY <1>4, <3>1 DEF Connect, Goto
    <3>2. CASE Return(t, FALSE) /\ connections' = connections
      BY <1>4, <3>2 DEF Connect, Goto, Return
    <3> QED
      BY <1>4, <3>1, <3>2 DEF Connect
  <2>2. pc[t] = "connect"
    BY <1>4 DEF Connect
  <2>3. \A u \in buffers' : pc'[u] = "finish" /\ call[u].file \in 1..Len(written')
    BY <1>1, <1>2, <2>1, <2>2, Others
  <2>4. \A u \in connections' : pc'[u] \in {"transfer", "finish"}
    BY <1>1, <2>1, <2>2, Others
  <2> QED
    BY <2>1, <2>3, <2>4
<1>5. CASE Transfer(t)
  <2>1. /\ UNCHANGED connections /\ pc'[t] = "finish"
        /\ call' = call
    BY <1>5 DEF Transfer, Goto
  <2>2. t \in buffers' =>
            code'[t] /\ call[t].op = "DownloadBuffer" /\ call[t].file \in 1..Len(written)
    BY <1>5 DEF Transfer, Upload, Download, Delete
  <2>3. buffers' \subseteq buffers \cup {t}
    BY <1>5 DEF Transfer, Upload, Download, Delete
  <2> QED
    <3>1. \A u \in Threads : u # t => pc'[u] = pc[u] /\ code'[u] = code[u]
      BY <1>1, Others
    <3>2. \A u \in connections' : pc'[u] \in {"transfer", "finish"}
      BY <2>1, <3>1
    <3>3. \A u \in buffers' : pc'[u] = "finish" /\ code'[u] /\ call[u].op = "DownloadBuffer"
      BY <2>1, <2>2, <2>3, <3>1
    <3>4. \A u \in buffers' : call[u].file \in 1..Len(written)
      BY <2>2, <2>3
    <3>5. 1..Len(written) \subseteq 1..Len(written')
      BY <1>2
    <3> QED
      BY <2>1, <3>2, <3>3, <3>4, <3>5
<1>6. CASE Finish(t)
  <2>1. connections' \subseteq connections \ {t} /\ buffers' \subseteq buffers \ {t}
    BY <1>6 DEF Finish, Closed, Success
  <2> QED
    BY <1>1, <1>2, <2>1, Others
<1>7. CASE Call(t)
  BY <1>3, <1>7 DEF Call
<1>8. CASE Lock(t) \/ Locked(t) \/ Create(t) \/ Destroy(t) \/ Set(t) \/ Check(t)
  BY <1>3, <1>8 DEF Lock, Locked, Create, Destroy, Set, Check
<1> QED
  BY <1>1, <1>4, <1>5, <1>6, <1>7, <1>8 DEF Step

\* A transfer gets past the test of the flag only with a client, or while a Destory is between
\* the client and the flag; a Destory that returns marks those that are under way.
LEMMA GuardedStep ==
    ASSUME TypeOK, LockInv, GuardedUse, Next
    PROVE  GuardedUse'
<1> USE DEF GuardedUse, UsingClient, TypeOK, ThreadTypeOK, ClientTypeOK, LockInv
<1>1. PICK t \in Threads : Call(t) \/ Step(t)
  BY DEF Next
<1>2. pc[t] \in Holding => \A u \in Threads : u # t => pc[u] \notin Holding /\ pc'[u] = pc[u]
  BY <1>1, Others DEF Exclusion
<1>3. CASE /\ UNCHANGED <<clients, overtaken>> /\ pc[t] # "set"
           /\ pc'[t] \in {"connect", "transfer"} => pc[t] \in {"connect", "transfer"}
  BY <1>1, <1>3, Others
<1>4. CASE Call(t)
  BY <1>1, <1>4, Others DEF Call, Goto, sharedVars
<1>5. CASE Create(t)
  BY <1>1, <1>2, <1>5, Others DEF Create, Goto, Return, Holding
<1>6. CASE Destroy(t)
  BY <1>6 DEF Destroy, Goto, InTheRightCall, localVars
<1>7. CASE Set(t)
  BY <1>1, <1>2, <1>7, Others DEF Set, Goto, Return, Holding, Expectation, InTheRightCall
<1>8. CASE Check(t)
  <2>1. CASE ~isInitialized
    BY <1>3, <1>8, <2>1 DEF Check, Ready, Goto, Return, sharedVars
  <2>2. CASE isInitialized /\ clients # 1
    <3>1. PICK u \in Threads : pc[u] = "set"
      BY <2>2 DEF FlagFollows
    <3>2. call[u].op = "Destory" /\ u # t
      BY <1>8, <2>2, <3>1 DEF Expectation, InTheRightCall, Holding, Check
    <3> QED
      BY <1>1, <3>1, <3>2, Others
  <2>3. CASE clients = 1
    BY <1>8, <2>3 DEF Check, sharedVars
  <2> QED
    BY <2>1, <2>2, <2>3
<1>9. CASE Lock(t) \/ Locked(t) \/ Connect(t) \/ Transfer(t) \/ Finish(t)
  BY <1>3, <1>9 DEF Lock, Locked, Connect, Transfer, Finish, Goto, Return, sharedVars
<1> QED
  BY <1>1, <1>4, <1>5, <1>6, <1>7, <1>8, <1>9 DEF Step

-----------------------------------------------------------------------------
(* What a call reports as done.                                            *)

\* The library did what the call asked for, and the call says so or is about to.
Done(t) == (pc[t] = "idle" /\ result[t]) \/ (pc[t] = "finish" /\ code[t])

Downloads == {"DownloadFile", "DownloadBuffer"}

\* The identifier of an upload that is done is that of its bytes; a file that is named was
\* stored, and is gone when its delete is done; the output of a DownloadBuffer stays as it was
\* until its end, and a buffer is handed over exactly for a file that is not empty.
DoneFacts(t) ==
    /\ call[t].op \in Uploads /\ Done(t) =>
           identifier[t] \in 1..Number /\ written[identifier[t]] = call[t].content
    /\ call[t].op \in Downloads \cup {"DeleteFile"} => call[t].file \in 1..Number
    /\ call[t].op = "DeleteFile" /\ Done(t) => call[t].file \notin files
    /\ call[t].op \in Downloads =>
           /\ call[t].op = "DownloadBuffer" /\ ~Done(t) => output[t] = Old
           /\ pc[t] = "idle" /\ Done(t) => output[t] = written[call[t].file]
           /\ pc[t] = "finish" /\ Done(t) =>
                  IF call[t].op = "DownloadFile"
                  THEN output[t] = written[call[t].file]
                  ELSE t \in buffers <=> written[call[t].file] # Empty

DoneInv == \A t \in Threads : DoneFacts(t)

\* Files are only added behind those that were stored, and a file that is gone stays gone.
LEMMA StoreGrows ==
    ASSUME TypeOK, Next
    PROVE  /\ Number \in Nat /\ 1..Number \subseteq 1..Number'
           /\ \A i \in 1..Number : written'[i] = written[i] /\ (i \notin files => i \notin files')
<1> USE DEF TypeOK, StorageTypeOK, Number
<1>1. PICK t \in Threads : Call(t) \/ Step(t)
  BY DEF Next
<1>2. CASE Transfer(t) /\ Upload(t)
  <2>1. call[t].content \in Contents
    BY DEF ThreadTypeOK, Calls
  <2>2. CASE UNCHANGED storageVars
    BY <2>2 DEF storageVars
  <2>3. CASE /\ written' = Append(written, call[t].content)
             /\ files' = files \cup {Len(written) + 1}
    <3>1. /\ Len(written') = Len(written) + 1 /\ Len(written) \in Nat
          /\ \A i \in 1..Len(written) : written'[i] = written[i]
      BY <2>1, <2>3, AppendProperties
    <3>2. \A i \in 1..Len(written) : i # Len(written) + 1
      BY <3>1
    <3> QED
      BY <2>3, <3>1, <3>2
  <2> QED
    BY <1>2, <2>2, <2>3 DEF Upload
<1>3. CASE Transfer(t) /\ (Download(t) \/ Delete(t))
  <2>1. written' = written /\ files' \subseteq files
    BY <1>3 DEF Download, Delete, storageVars
  <2> QED
    BY <2>1
<1>4. CASE UNCHANGED storageVars
  BY <1>4 DEF storageVars
<1> QED
  BY <1>1, <1>2, <1>3, <1>4 DEF Call, Step, Lock, Locked, Create, Destroy, Set, Check, Connect,
     Transfer, Finish

\* A step of one thread touches nothing of another's call.
LEMMA OthersCall ==
    ASSUME TypeOK, NEW t \in Threads, Call(t) \/ Step(t), NEW u \in Threads, u # t
    PROVE  /\ result'[u] = result[u] /\ identifier'[u] = identifier[u] /\ output'[u] = output[u]
           /\ u \in buffers' <=> u \in buffers
<1> USE DEF TypeOK, ThreadTypeOK, StorageTypeOK
<1>1. CASE Call(t) \/ Lock(t) \/ Locked(t) \/ Create(t) \/ Destroy(t) \/ Set(t)
  BY <1>1 DEF Call, Lock, Locked, Create, Destroy, Set, Return, localVars, libraryVars
<1>2. CASE Check(t) \/ Connect(t) \/ Finish(t)
  BY <1>2 DEF Check, Connect, Finish, Return, libraryVars
<1>3. CASE Transfer(t)
  BY <1>3 DEF Transfer, Upload, Download, Delete
<1> QED
  BY <1>1, <1>2, <1>3 DEF Step

\* What was reported stays true while other threads go on.
LEMMA DoneKept ==
    ASSUME TypeOK, Next, NEW u \in Threads, DoneFacts(u),
           UNCHANGED <<pc[u], call[u], code[u], result[u], identifier[u], output[u]>>,
           u \in buffers' <=> u \in buffers
    PROVE  DoneFacts(u)'
<1>1. /\ Number \in Nat /\ 1..Number \subseteq 1..Number'
      /\ \A i \in 1..Number : written'[i] = written[i] /\ (i \notin files => i \notin files')
  BY StoreGrows
<1>2. Done(u)' <=> Done(u)
  BY DEF Done
<1> QED
  BY <1>1, <1>2 DEF DoneFacts

LEMMA DoneStep ==
    ASSUME TypeOK, LockInv, HeldInTransfer, DoneInv, Next
    PROVE  DoneInv'
<1> USE DEF TypeOK, ThreadTypeOK, StorageTypeOK
<1>1. PICK t \in Threads : Call(t) \/ Step(t)
  BY DEF Next
<1>2. \A u \in Threads : u # t => DoneFacts(u)'
  BY <1>1, Others, OthersCall, DoneKept DEF DoneInv
<1>3. /\ Number \in Nat /\ 1..Number \subseteq 1..Number'
      /\ \A i \in 1..Number : written'[i] = written[i] /\ (i \notin files => i \notin files')
  BY StoreGrows
<1>4. DoneFacts(t)
  BY DEF DoneInv
<1> SUFFICES DoneFacts(t)'
  BY <1>2 DEF DoneInv
<1>5. CASE Call(t)
  <2>1. PICK o \in Operations : \E a \in Arguments(o) :
            /\ call' = [call EXCEPT ![t] = [op |-> o, content |-> a[1], file |-> a[2]]]
            /\ Goto(t, IF o \in Transfers THEN "check" ELSE "lock")
    BY <1>5 DEF Call
  <2>2. PICK a \in Arguments(o) :
            /\ call' = [call EXCEPT ![t] = [op |-> o, content |-> a[1], file |-> a[2]]]
            /\ Goto(t, IF o \in Transfers THEN "check" ELSE "lock")
    BY <2>1
  <2>3. pc'[t] \in {"check", "lock"} /\ output'[t] = Old /\ call'[t].op = o /\ call'[t].file = a[2]
    BY <1>5, <2>2 DEF Call, Goto
  <2>4. o \in Downloads \cup {"DeleteFile"} => a[2] \in 1..Number
    BY <2>2 DEF Arguments, Downloads, Uploads, Transfers, Number
  <2>5. ~Done(t)'
    BY <2>3 DEF Done
  <2> QED
    BY <1>3, <2>3, <2>4, <2>5 DEF DoneFacts
<1>6. CASE Lock(t) \/ Locked(t) \/ Create(t) \/ Destroy(t) \/ Set(t)
  <2>1. call'[t] = call[t] /\ call[t].op \in {"Initialize", "Destory"}
    BY <1>6 DEF Lock, Locked, Create, Destroy, Set, localVars, LockInv, InTheRightCall, Holding
  <2> QED
    BY <2>1 DEF DoneFacts, Uploads, Downloads
<1>7. CASE Check(t) \/ Connect(t)
  <2>1. /\ UNCHANGED <<call, output>> /\ pc[t] \in {"check", "connect"}
        /\ pc'[t] \in {"connect", "transfer"} \/ (pc'[t] = "idle" /\ result'[t] = FALSE)
    BY <1>7 DEF Check, Connect, Goto, Return
  <2>2. ~Done(t) /\ ~Done(t)'
    BY <2>1 DEF Done
  <2> QED
    BY <1>3, <1>4, <2>1, <2>2 DEF DoneFacts
<1>8. CASE Transfer(t)
  <2>1. pc[t] = "transfer" /\ pc'[t] = "finish" /\ call' = call
    BY <1>8 DEF Transfer, Goto
  <2>2. ~Done(t) /\ (Done(t)' => code'[t])
    BY <2>1 DEF Done
  <2>3. CASE Upload(t)
    <3>1. call[t].op \in Uploads /\ call[t].content \in Contents
      BY <2>3 DEF Upload, Calls
    <3>2. code'[t] => /\ written' = Append(written, call[t].content)
                      /\ identifier'[t] = Number + 1
      BY <2>3 DEF Upload
    <3>3. code'[t] => identifier'[t] \in 1..Number' /\ written'[identifier'[t]] = call[t].content
      BY <1>3, <3>1, <3>2, AppendProperties DEF Number
    <3> QED
      BY <2>1, <2>2, <3>1, <3>3 DEF DoneFacts, Uploads, Downloads
  <2>4. CASE Download(t)
    <3>1. call[t].op \in Downloads /\ call[t].op \notin Uploads \cup {"DeleteFile"}
      BY <2>4 DEF Download, Downloads, Uploads
    <3>2. /\ call[t].file \in 1..Number /\ t \notin buffers
          /\ call[t].op = "DownloadBuffer" => output[t] = Old
      BY <1>4, <2>1, <2>2, <3>1 DEF DoneFacts, HeldInTransfer
    <3>3. UNCHANGED <<written, files>>
      BY <2>4 DEF Download, storageVars
    <3>4. /\ ~code'[t] /\ call[t].op = "DownloadBuffer" => output' = output
          /\ code'[t] => IF call[t].op = "DownloadFile"
                         THEN output'[t] = written[call[t].file]
                         ELSE t \in buffers' <=> written[call[t].file] # Empty
      BY <2>4, <3>2 DEF Download
    <3>5. Done(t)' <=> code'[t]
      BY <2>1 DEF Done
    <3> QED
      BY <2>1, <3>1, <3>2, <3>3, <3>4, <3>5 DEF DoneFacts, Number
  <2>5. CASE Delete(t)
    <3>1. call[t].op = "DeleteFile" /\ UNCHANGED written
      BY <2>5 DEF Delete
    <3>2. code'[t] => call[t].file \notin files'
      BY <2>5 DEF Delete
    <3> QED
      BY <1>4, <2>1, <2>2, <3>1, <3>2 DEF DoneFacts, Uploads, Downloads, Number
  <2> QED
    BY <1>8, <2>3, <2>4, <2>5 DEF Transfer
<1>9. CASE Finish(t)
  <2>1. /\ pc[t] = "finish" /\ pc'[t] = "idle" /\ result'[t] = code[t]
        /\ UNCHANGED <<call, code, identifier, written, files>>
    BY <1>9 DEF Finish, Return, Goto, Success, storageVars
  <2>2. (Done(t)' <=> code[t]) /\ (Done(t) <=> code[t])
    BY <2>1 DEF Done
  <2>3. CASE call[t].op = "DownloadBuffer" /\ code[t]
    <3>1. output'[t] = Received(t)
      BY <1>9, <2>3 DEF Finish, Success
    <3>2. output'[t] = written[call[t].file]
      BY <1>4, <2>1, <2>2, <2>3, <3>1 DEF DoneFacts, Received, Downloads
    <3> QED
      BY <1>4, <2>1, <2>2, <2>3, <3>2 DEF DoneFacts, Uploads, Downloads, Number
  <2>4. CASE ~(call[t].op = "DownloadBuffer" /\ code[t])
    <3>1. output' = output
      BY <1>9, <2>4 DEF Finish, Success
    <3> QED
      BY <1>4, <2>1, <2>2, <2>4, <3>1 DEF DoneFacts, Uploads, Downloads, Number
  <2> QED
    BY <2>3, <2>4
<1> QED
  BY <1>1, <1>5, <1>6, <1>7, <1>8, <1>9 DEF Step

-----------------------------------------------------------------------------
(* The theorems.                                                           *)

Inv == TypeOK /\ LockInv /\ HeldInTransfer

\* The initial state and every step keep the inductive invariant.
LEMMA Initially == Init => Inv /\ GuardedUse
<1> SUFFICES ASSUME Init PROVE Inv /\ GuardedUse
  OBVIOUS
<1> USE FastDFSAssumption DEF Init
<1>1. ThreadTypeOK
  BY DEF ThreadTypeOK, Labels, Calls, NoFile
<1>2. ClientTypeOK
  <2>1. clients = 0 /\ isInitialized = FALSE /\ mutex = Nobody
    OBVIOUS
  <2>2. connections \subseteq Threads /\ buffers \subseteq Threads
    OBVIOUS
  <2>3. clients \in 0..1
    BY ONLY <2>1
  <2>4. isInitialized \in BOOLEAN /\ mutex \in Threads \cup {Nobody}
    BY ONLY <2>1
  <2> QED
    BY ONLY <2>2, <2>3, <2>4 DEF ClientTypeOK
<1>3. StorageTypeOK
  BY DEF StorageTypeOK, Number, NoFile
<1>4. LockInv
  BY DEF LockInv, Exclusion, Holding, InTheRightCall, FlagFollows, Expectation
<1>5. HeldInTransfer /\ GuardedUse
  BY DEF HeldInTransfer, GuardedUse, UsingClient
<1> QED
  BY <1>1, <1>2, <1>3, <1>4, <1>5 DEF Inv, TypeOK

LEMMA Inductive ==
    ASSUME Inv, [Next]_vars
    PROVE  Inv'
<1>1. CASE Next
  <2>1. TypeOK'
    BY <1>1, ThreadType, ClientType, StorageType DEF Inv, TypeOK
  <2>2. LockInv'
    BY <1>1, ExclusionStep, RightCallStep, FlagStep DEF Inv, LockInv
  <2> QED
    BY <1>1, <2>1, <2>2, HeldStep DEF Inv
<1>2. CASE UNCHANGED vars
  BY <1>2 DEF vars, sharedVars, libraryVars, storageVars, localVars, Inv, TypeOK, ThreadTypeOK,
     ClientTypeOK, StorageTypeOK, Number, LockInv, Exclusion, Holding, InTheRightCall,
     FlagFollows, Expectation, HeldInTransfer
<1> QED
  BY <1>1, <1>2

\* Initialize, Destory and the transfers of any threads keep the inductive invariant.
THEOREM Invariance == Spec => []Inv
<1>1. Init => Inv
  BY Initially
<1>2. Inv /\ [Next]_vars => Inv'
  BY Inductive
<1> QED
  BY <1>1, <1>2, PTL DEF Spec

\* The type invariant, and with it: there is never a second client, however many threads call
\* Initialize and Destory (FastDFSUtil.cpp:44-84).
THEOREM TypeCorrect == Spec => []TypeOK
<1>1. Inv => TypeOK
  BY DEF Inv
<1> QED
  BY <1>1, Invariance, PTL

\* The flag the transfers test says what the library is in, whenever nobody is in Initialize
\* or Destory.
THEOREM FlagTrue == Spec => []FlagIsTrue
<1>1. Inv => FlagIsTrue
  BY FastDFSAssumption DEF Inv, LockInv, FlagFollows, Exclusion, Holding, FlagIsTrue
<1> QED
  BY <1>1, Invariance, PTL

\* No exit of any call keeps a tracker connection, a buffer of the library or the mutex.
THEOREM NothingStaysHeld == Spec => []NothingHeld
<1>1. Inv => NothingHeld
  BY DEF Inv, LockInv, Exclusion, Holding, HeldInTransfer, NothingHeld
<1> QED
  BY <1>1, Invariance, PTL

\* Only a transfer that a Destory overlaps can use a client that was destroyed.
THEOREM UseIsGuarded == Spec => []GuardedUse
<1>1. Init => GuardedUse
  BY Initially
<1>2. Inv /\ GuardedUse /\ [Next]_vars => GuardedUse'
  <2>1. Inv /\ GuardedUse /\ Next => GuardedUse'
    BY GuardedStep DEF Inv
  <2>2. GuardedUse /\ UNCHANGED vars => GuardedUse'
    BY DEF vars, sharedVars, localVars, GuardedUse, UsingClient
  <2> QED
    BY <2>1, <2>2
<1> QED
  BY <1>1, <1>2, Invariance, PTL DEF Spec

\* An upload, a download or a delete that returns true did what it says, whatever the other
\* threads store and delete, and a DownloadBuffer that returns false left the buffer alone.
THEOREM DoneIsReallyDone == Spec => []DoneIsDone
<1>1. Init => DoneInv
  <2>1. Init => call = [t \in Threads |-> [op |-> "none", content |-> Empty, file |-> NoFile]]
    BY DEF Init
  <2>2. ASSUME Init, NEW t \in Threads
        PROVE  call[t].op = "none"
    <3>1. call[t] = [op |-> "none", content |-> Empty, file |-> NoFile]
      BY <2>1, <2>2
    <3> QED
      BY <3>1
  <2> QED
    BY <2>2 DEF DoneInv, DoneFacts, Uploads, Downloads
<1>2. Inv /\ DoneInv /\ [Next]_vars => DoneInv'
  <2>1. Inv /\ DoneInv /\ Next => DoneInv'
    BY DoneStep DEF Inv
  <2>2. DoneInv /\ UNCHANGED vars => DoneInv'
    BY DEF vars, libraryVars, storageVars, localVars, DoneInv, DoneFacts, Done, Number
  <2> QED
    BY <2>1, <2>2
<1>3. Inv /\ DoneInv => DoneIsDone
  <2> SUFFICES ASSUME Inv, DoneInv, NEW t \in Threads, pc[t] = "idle"
               PROVE  /\ result[t] /\ call[t].op \in Uploads =>
                             /\ identifier[t] \in DOMAIN written
                             /\ written[identifier[t]] = call[t].content
                      /\ result[t] /\ call[t].op = "DeleteFile" => call[t].file \notin files
                      /\ result[t] /\ call[t].op \in {"DownloadFile", "DownloadBuffer"} =>
                             output[t] = written[call[t].file]
                      /\ ~result[t] /\ call[t].op = "DownloadBuffer" => output[t] = Old
    BY DEF DoneIsDone
  <2>1. DoneFacts(t) /\ (Done(t) <=> result[t])
    BY DEF DoneInv, Done
  <2>2. DOMAIN written = 1..Number
    BY DEF Inv, TypeOK, StorageTypeOK, Number
  <2>3. result[t] \in BOOLEAN
    BY DEF Inv, TypeOK, ThreadTypeOK
  <2> QED
    BY <2>1, <2>2, <2>3 DEF DoneFacts, Downloads
<1> QED
  BY <1>1, <1>2, <1>3, Invariance, PTL DEF Spec

-----------------------------------------------------------------------------

\* A step of the composition is a step of each component, or leaves it alone.
LEMMA StepOfEach ==
    ASSUME [CallsNext]_callsVars
    PROVE  /\ [Manager!Next]_Manager!vars
           /\ [Redis!Next]_Redis!vars
           /\ [Mail!Next]_Mail!vars
           /\ [Remuxer!Next]_Remuxer!vars
<1> USE DEF CallsNext, callsVars
<1>1. [Manager!Next]_Manager!vars
  BY DEF managerVars, Manager!vars
<1>2. [Redis!Next]_Redis!vars
  BY DEF redisVars, Redis!vars
<1>3. [Mail!Next]_Mail!vars
  BY DEF mailVars, Mail!vars
<1>4. [Remuxer!Next]_Remuxer!vars
  BY DEF remuxerVars, Remuxer!vars
<1> QED BY <1>1, <1>2, <1>3, <1>4

-----------------------------------------------------------------------------
\* The first n bytes of a payload.
Bytes(n) == [i \in 1..n |-> i]

\* The mail that a send of this payload is for.
WholeMail == [to |-> to, bytes |-> Bytes(length)]

MailSets ==
    /\ step \in {"idle", "recipients", "upload", "response"}
    /\ refused \subseteq to /\ to \subseteq Addresses
    /\ sent \in BOOLEAN

MailCounts ==
    /\ length \in Lengths \cup {0} /\ length \in Nat
    /\ offset \in Nat /\ offset <= length
    /\ sends \in Nat /\ sends <= MaxSends

MailTypes == MailSets /\ MailCounts

\* What the server got is what readCallback went past, and it took no mail before the payload
\* ended; only a mail that was taken, or a message without recipients, makes send return true.
MailInv ==
    /\ MailTypes
    /\ uploaded = Bytes(offset)
    /\ taken \in {<<>>, <<WholeMail>>}
    /\ step \in {"recipients", "upload"} => taken = <<>>
    /\ step = "response" => taken = <<WholeMail>>
    /\ sent /\ to # {} => taken = <<WholeMail>>

\* The first n bytes and the next k are the first n + k.
LEMMA NextBytes ==
    ASSUME NEW n \in Nat, NEW k \in Nat
    PROVE  Bytes(n) \o [i \in 1..k |-> n + i] = Bytes(n + k)
<1> DEFINE p == Bytes(n)
           q == [i \in 1..k |-> n + i]
           r == Bytes(n + k)
<1>1. /\ p \in Seq(Int) /\ Len(p) = n /\ \A i \in 1..n : p[i] = i
      /\ q \in Seq(Int) /\ Len(q) = k /\ \A i \in 1..k : q[i] = n + i
      /\ r \in Seq(Int) /\ Len(r) = n + k /\ \A i \in 1..(n + k) : r[i] = i
  BY DEF Bytes
<1> HIDE DEF p, q, r
<1>2. /\ p \o q \in Seq(Int) /\ Len(p \o q) = Len(p) + Len(q)
      /\ \A i \in 1..(Len(p) + Len(q)) :
             (p \o q)[i] = IF i <= Len(p) THEN p[i] ELSE q[i - Len(p)]
  <2>1. p \in Seq(Int) /\ q \in Seq(Int)
    BY <1>1
  <2> QED BY ONLY <2>1, ConcatProperties
<1>3. ASSUME NEW i \in 1..(n + k)
      PROVE  (p \o q)[i] = r[i]
  <2>1. CASE i <= n
    BY <1>1, <1>2, <2>1
  <2>2. CASE ~(i <= n)
    <3>1. i - n \in 1..k /\ n + (i - n) = i
      BY <2>2
    <3> QED BY <1>1, <1>2, <2>2, <3>1
  <2> QED BY <2>1, <2>2
<1>4. p \o q = r
  BY <1>1, <1>2, <1>3, SeqEqual
<1> QED BY <1>4 DEF p, q, r

LEMMA NoBytes == Bytes(0) = <<>>
<1>1. Bytes(0) \in Seq(Int) /\ Len(Bytes(0)) = 0
  BY DEF Bytes
<1> QED BY <1>1, EmptySeq

LEMMA MailInitial ==
    ASSUME Mail!Init
    PROVE  MailInv
<1>1. MailTypes
  <2>1. MailSets
    BY DEF Mail!Init, MailSets
  <2>2. MailCounts
    BY ServiceAssumption DEF Mail!Init, MailCounts
  <2> QED BY <2>1, <2>2 DEF MailTypes
<1> QED BY <1>1, NoBytes DEF Mail!Init, MailInv

\* A step keeps the invariant: one case per action.
LEMMA MailStep ==
    ASSUME MailInv, [Mail!Next]_Mail!vars
    PROVE  MailInv'
<1> USE ServiceAssumption DEF MailInv, MailTypes, MailSets, MailCounts, WholeMail
<1>1. CASE Mail!Send
  <2>1. PICK addresses \in SUBSET Addresses, n \in Lengths :
            /\ sends < MaxSends /\ sends' = sends + 1
            /\ step' \in {"idle", "recipients"}
            /\ to' = addresses /\ refused' = addresses
            /\ length' = n /\ offset' = 0
            /\ uploaded' = <<>> /\ taken' = <<>> /\ sent' = FALSE
    BY <1>1 DEF Mail!Send
  <2>2. MailTypes'
    <3>1. MailSets'
      BY <2>1, Zenon
    <3>2. MailCounts'
      BY <2>1
    <3> QED BY <3>1, <3>2
  <2>3. uploaded' = Bytes(offset')
    BY <2>1, NoBytes
  <2> QED BY <2>1, <2>2, <2>3
<1>2. CASE Mail!Recipient
  BY <1>2 DEF Mail!Recipient
<1>3. CASE Mail!Data
  BY <1>3 DEF Mail!Data
<1>4. CASE Mail!readCallback
  <2>1. PICK max \in 1..MaxBuffer :
            LET count == Mail!Smaller(max, length - offset)
            IN /\ step = "upload" /\ offset < length
               /\ uploaded' = uploaded \o Mail!Piece(count)
               /\ offset' = offset + count
               /\ UNCHANGED <<step, to, refused, length, taken, sent, sends>>
    BY <1>4 DEF Mail!readCallback
  <2> DEFINE count == Mail!Smaller(max, length - offset)
  <2>2. count \in Nat /\ offset + count <= length
    BY <2>1 DEF Mail!Smaller
  <2> HIDE DEF count
  <2>3. uploaded' = Bytes(offset) \o [i \in 1..count |-> offset + i]
    BY <2>1 DEF Mail!Piece, count
  <2>4. uploaded' = Bytes(offset')
    BY <2>1, <2>2, <2>3, NextBytes DEF count
  <2>5. offset' \in Nat /\ offset' <= length'
    BY <2>1, <2>2 DEF count
  <2> QED BY <2>1, <2>4, <2>5
<1>5. CASE Mail!EndOfData
  <2>1. offset = length
    BY <1>5 DEF Mail!EndOfData
  <2>2. taken' = <<WholeMail>>
    BY <1>5, <2>1 DEF Mail!EndOfData
  <2> QED BY <1>5, <2>2 DEF Mail!EndOfData
<1>6. CASE Mail!Success
  BY <1>6 DEF Mail!Success
<1>7. CASE Mail!Failure
  BY <1>7 DEF Mail!Failure
<1>8. CASE UNCHANGED Mail!vars
  BY <1>8 DEF Mail!vars
<1> QED BY <1>1, <1>2, <1>3, <1>4, <1>5, <1>6, <1>7, <1>8 DEF Mail!Next

\* SMTPClient::send mails the whole payload once: a send that returned true gave the server
\* one mail with every byte in its order, whatever pieces curl asked readCallback for, and one
\* that returned false gave it one mail at most.
THEOREM MailIsSentOnce == CallsSpec => [](Mail!TypeOK /\ MailedOnce)
<1>1. CallsInit => MailInv
  BY MailInitial DEF CallsInit
<1>2. MailInv /\ [CallsNext]_callsVars => MailInv'
  BY MailStep, StepOfEach
<1>3. MailInv => Mail!TypeOK /\ MailedOnce
  <2>1. MailInv => Mail!TypeOK
    BY DEF MailInv, MailTypes, MailSets, MailCounts, Mail!TypeOK
  <2>2. ASSUME MailInv PROVE Len(taken) <= 1
    <3>1. CASE taken = <<>>
      <4>1. Len(taken) = 0
        BY <3>1
      <4> QED BY <4>1
    <3>2. CASE taken = <<WholeMail>>
      <4>1. Len(taken) = 1
        BY <3>2
      <4> QED BY <4>1
    <3> QED BY <2>2, <3>1, <3>2 DEF MailInv
  <2>3. MailInv => (sent /\ to # {} => taken = <<WholeMail>>)
    BY DEF MailInv
  <2> QED BY <2>1, <2>2, <2>3 DEF WholeMail, Bytes, MailedOnce, Mail!MailedOnce
<1> QED BY <1>1, <1>2, <1>3, PTL DEF CallsSpec
-----------------------------------------------------------------------------
\* What the server does for a command, and what a call may be told.
Results == Values \cup {Absent, Yes, 0, 1}
Replies == {No} \cup {<<v>> : v \in Results}

RedisTypes ==
    /\ store \in [Keys -> Values \cup {Absent}]
    /\ command \in [Threads -> Redis!Commands \cup {Redis!Idle}]
    /\ reply \in [Threads -> Replies]
    /\ late \subseteq Redis!Commands
    /\ told \in [Threads -> [cmd : Redis!Commands \cup {Redis!Idle},
                             answer : Results \cup {No}, reply : Replies]]

\* The reply a thread waits for is one to its command.
ReplyFits(t) ==
    reply[t] # No =>
        /\ command[t] \in Redis!Commands
        /\ \E v \in Results :
               /\ reply[t] = <<v>>
               /\ command[t].op \in {"del", "exists"} => v \in {0, 1}

\* What a thread was told is true.
ToldTrue(t) ==
    LET c == told[t].cmd
        r == told[t].reply
    IN told[t].answer # No /\ ~(c.op = "set" /\ c.ttl < 0) =>
           /\ r # No
           /\ c.op = "get" => r = <<told[t].answer>> /\ told[t].answer # Absent
           /\ c.op \in {"del", "exists"} => r = <<1>>

RedisInv == RedisTypes /\ \A t \in Threads : ReplyFits(t) /\ ToldTrue(t)

\* A command leaves values under the keys.
LEMMA EffectTypes ==
    ASSUME RedisTypes, NEW cmd \in Redis!Commands, Redis!Effect(cmd)
    PROVE  store' \in [Keys -> Values \cup {Absent}]
BY DEF RedisTypes, Redis!Commands, Redis!Effect

\* The result of a command is what a call can make an answer of.
LEMMA ExecutedFits ==
    ASSUME RedisTypes, NEW cmd \in Redis!Commands
    PROVE  /\ Redis!Executed(cmd) \in Results
           /\ cmd.op \in {"del", "exists"} => Redis!Executed(cmd) \in {0, 1}
BY DEF RedisTypes, Redis!Commands, Redis!Executed, Results

LEMMA RedisInitial ==
    ASSUME Redis!Init
    PROVE  RedisInv
BY DEF Redis!Init, RedisInv, RedisTypes, ReplyFits, ToldTrue, Replies, Results

\* A call that ends leaves no reply behind, and disturbs no other thread.
LEMMA CallEnds ==
    ASSUME RedisInv, NEW t \in Threads, NEW answer_ \in Results \cup {No},
           Redis!Tell(t, command[t], answer_),
           command' = [command EXCEPT ![t] = Redis!Idle],
           reply' = [reply EXCEPT ![t] = No],
           store' = store, late' \subseteq Redis!Commands,
           ToldTrue(t)'
    PROVE  RedisInv'
<1>1. RedisTypes'
  BY DEF RedisInv, RedisTypes, Redis!Tell, Replies
<1>2. ASSUME NEW u \in Threads
      PROVE  ReplyFits(u)'
  BY DEF RedisInv, RedisTypes, ReplyFits
<1>3. ASSUME NEW u \in Threads
      PROVE  ToldTrue(u)'
  BY DEF RedisInv, RedisTypes, ToldTrue, Redis!Tell
<1> QED BY <1>1, <1>2, <1>3 DEF RedisInv

\* A step keeps the invariant: one case per action.
LEMMA RedisStep ==
    ASSUME RedisInv, [Redis!Next]_Redis!vars
    PROVE  RedisInv'
<1>1. CASE Redis!SetNothing
  BY <1>1 DEF Redis!SetNothing, RedisInv, RedisTypes, ReplyFits, ToldTrue, Results, Replies
<1>2. CASE Redis!Send
  BY <1>2 DEF Redis!Send, RedisInv, RedisTypes, ReplyFits, ToldTrue, Replies
<1>3. CASE Redis!Execute
  <2>1. PICK t \in Threads :
            /\ command[t] # Redis!Idle /\ reply[t] = No
            /\ Redis!Effect(command[t])
            /\ reply' = [reply EXCEPT ![t] = <<Redis!Executed(command[t])>>]
            /\ UNCHANGED <<command, late, told, made>>
    BY <1>3 DEF Redis!Execute
  <2>2. command[t] \in Redis!Commands
    BY <2>1 DEF RedisInv, RedisTypes
  <2>3. store' \in [Keys -> Values \cup {Absent}]
    BY <2>1, <2>2, EffectTypes DEF RedisInv
  <2>4. PICK v \in Results :
            /\ v = Redis!Executed(command[t])
            /\ command[t].op \in {"del", "exists"} => v \in {0, 1}
    BY <2>2, ExecutedFits DEF RedisInv
  <2>5. RedisTypes'
    BY <2>1, <2>3, <2>4 DEF RedisInv, RedisTypes, Replies
  <2>6. ASSUME NEW u \in Threads
        PROVE  ReplyFits(u)' /\ ToldTrue(u)'
    <3>1. CASE u = t
      BY <2>1, <2>2, <2>4, <3>1 DEF RedisInv, RedisTypes, ReplyFits, ToldTrue
    <3>2. CASE u # t
      BY <2>1, <3>2 DEF RedisInv, RedisTypes, ReplyFits, ToldTrue
    <3> QED BY <3>1, <3>2
  <2> QED BY <2>5, <2>6 DEF RedisInv
<1>4. CASE Redis!ExecuteLate
  <2>1. store' \in [Keys -> Values \cup {Absent}]
    BY <1>4, EffectTypes DEF Redis!ExecuteLate, RedisInv, RedisTypes
  <2> QED BY <1>4, <2>1 DEF Redis!ExecuteLate, RedisInv, RedisTypes, ReplyFits, ToldTrue
<1>5. CASE Redis!Expire
  BY <1>5 DEF Redis!Expire, RedisInv, RedisTypes, ReplyFits, ToldTrue
<1>6. CASE Redis!Return
  <2>1. PICK t \in Threads :
            /\ reply[t] # No
            /\ Redis!Tell(t, command[t], Redis!Answer(command[t], reply[t][1]))
            /\ command' = [command EXCEPT ![t] = Redis!Idle]
            /\ reply' = [reply EXCEPT ![t] = No]
            /\ UNCHANGED <<store, expiring, late, made>>
    BY <1>6 DEF Redis!Return
  <2>2. PICK v \in Results :
            /\ reply[t] = <<v>>
            /\ command[t].op \in {"del", "exists"} => v \in {0, 1}
    BY <2>1 DEF RedisInv, ReplyFits
  <2>3. command[t] \in Redis!Commands /\ reply[t][1] = v
    <3>1. command[t] \in Redis!Commands
      BY <2>1 DEF RedisInv, ReplyFits
    <3>2. reply[t][1] = v
      BY <2>2
    <3> QED BY <3>1, <3>2
  <2> DEFINE a == Redis!Answer(command[t], v)
  <2>4. /\ a \in Results \cup {No}
        /\ command[t].op = "get" /\ a # No => a = v /\ v # Absent
        /\ command[t].op \in {"del", "exists"} /\ a # No => v = 1
    BY <2>2, <2>3 DEF Redis!Answer, Redis!Commands, Results
  <2>5. told'[t] = [cmd |-> command[t], answer |-> a, reply |-> reply[t]]
    BY <2>1, <2>3 DEF Redis!Tell, RedisInv, RedisTypes
  <2> HIDE DEF a
  <2>6. ToldTrue(t)'
    BY <2>1, <2>2, <2>4, <2>5 DEF ToldTrue
  <2> QED BY <2>1, <2>3, <2>4, <2>6, CallEnds DEF RedisInv, RedisTypes, a
<1>7. CASE Redis!Throw
  <2>1. PICK t \in Threads :
            /\ command[t] # Redis!Idle
            /\ Redis!Tell(t, command[t], Redis!Caught(command[t]))
            /\ late' \in {late} \cup
                   (IF reply[t] = No THEN {late \cup {command[t]}} ELSE {})
            /\ command' = [command EXCEPT ![t] = Redis!Idle]
            /\ reply' = [reply EXCEPT ![t] = No]
            /\ UNCHANGED <<store, expiring, made>>
    BY <1>7 DEF Redis!Throw
  <2>2. late' \subseteq Redis!Commands
    BY <2>1 DEF RedisInv, RedisTypes
  <2>3. Redis!Tell(t, command[t], No)
    BY <2>1 DEF Redis!Caught
  <2>4. ToldTrue(t)'
    BY <2>3 DEF Redis!Tell, RedisInv, RedisTypes, ToldTrue
  <2> QED BY <2>1, <2>2, <2>3, <2>4, CallEnds
<1>8. CASE UNCHANGED Redis!vars
  BY <1>8 DEF Redis!vars, RedisInv, RedisTypes, ReplyFits, ToldTrue
<1> QED BY <1>1, <1>2, <1>3, <1>4, <1>5, <1>6, <1>7, <1>8 DEF Redis!Next

\* RedisClient tells its caller nothing that the server did not do: whatever the interleaving
\* of the threads, the time-outs, and the commands that run after their call gave up, an answer
\* other than "no" is that of the very call.
THEOREM RedisAnswersAreTrue == CallsSpec => []YesIsTrue
<1>1. CallsInit => RedisInv
  BY RedisInitial DEF CallsInit
<1>2. RedisInv /\ [CallsNext]_callsVars => RedisInv'
  BY RedisStep, StepOfEach
<1>3. RedisInv => YesIsTrue
  BY DEF RedisInv, ToldTrue, YesIsTrue, Redis!YesIsTrue
<1> QED BY <1>1, <1>2, <1>3, PTL DEF CallsSpec
-----------------------------------------------------------------------------
\* The packets with a time stamp each.
AllStamped(packets) == [i \in DOMAIN packets |-> [packets[i] EXCEPT !.stamped = TRUE]]

RemuxTypes == reading \in Seq(Remuxer!Packets) /\ runs \in Nat

\* A Remux that has not returned holds only what an owner on its stack frees, has not ended
\* the playlist, and has muxed what it read; it reads once every stream is there.
Running ==
    /\ runs > 0 /\ ~trailer
    /\ held \subseteq Remuxer!Owned
    /\ muxed = AllStamped(reading)
    /\ stage \in {"read", "trailer"} => streams = Streams

RemuxInv ==
    /\ RemuxTypes
    /\ stage # "returned" => Running
    /\ Remuxer!RemuxIsWhole

\* One more packet read, and one more stamped.
LEMMA StampedAppend ==
    ASSUME NEW s \in Seq(Remuxer!Packets), NEW p \in Remuxer!Packets
    PROVE  AllStamped(s) \o Remuxer!Stamped(p) = AllStamped(Append(s, p))
<1> DEFINE stamp(v) == [v EXCEPT !.stamped = TRUE]
           n == Len(s)
           a == AllStamped(s)
           b == Remuxer!Stamped(p)
           c == AllStamped(Append(s, p))
<1>1. \A v \in Remuxer!Packets : stamp(v) \in Remuxer!Packets
  BY DEF Remuxer!Packets
<1>2. /\ n \in Nat /\ DOMAIN s = 1..n /\ \A i \in 1..n : s[i] \in Remuxer!Packets
      /\ Append(s, p) \in Seq(Remuxer!Packets) /\ DOMAIN Append(s, p) = 1..(n + 1)
      /\ \A i \in 1..n : Append(s, p)[i] = s[i]
      /\ Append(s, p)[n + 1] = p
  BY AppendProperties, LenProperties
<1>3. /\ a \in Seq(Remuxer!Packets) /\ Len(a) = n
      /\ \A i \in 1..n : a[i] = stamp(s[i])
  BY <1>1, <1>2 DEF AllStamped
<1>4. /\ b \in Seq(Remuxer!Packets) /\ Len(b) = 1 /\ b[1] = stamp(p)
  BY <1>1 DEF Remuxer!Stamped
<1>5. \A i \in 1..(n + 1) : Append(s, p)[i] \in Remuxer!Packets
  BY <1>2
<1>6. /\ c \in Seq(Remuxer!Packets) /\ Len(c) = n + 1
      /\ \A i \in 1..(n + 1) : c[i] = stamp(Append(s, p)[i])
  <2>1. c = [i \in 1..(n + 1) |-> stamp(Append(s, p)[i])]
    BY <1>2 DEF AllStamped
  <2>2. n + 1 \in Nat /\ \A i \in 1..(n + 1) : stamp(Append(s, p)[i]) \in Remuxer!Packets
    BY <1>1, <1>2, <1>5
  <2> HIDE DEF stamp, c, n
  <2>3. PICK m \in Nat : m = n + 1
    BY <2>2
  <2>4. DOMAIN c = 1..m /\ \A i \in 1..m : c[i] = stamp(Append(s, p)[i])
    BY <2>1, <2>3
  <2>5. c \in [1..m -> Remuxer!Packets]
    BY <2>1, <2>2, <2>3
  <2>6. c \in Seq(Remuxer!Packets) /\ Len(c) = m
    BY <2>4, <2>5, LenProperties
  <2> QED BY <2>3, <2>4, <2>6
<1> HIDE DEF a, b, c, stamp, n
<1>7. /\ a \o b \in Seq(Remuxer!Packets) /\ Len(a \o b) = Len(a) + Len(b)
      /\ \A i \in 1..(Len(a) + Len(b)) :
             (a \o b)[i] = IF i <= Len(a) THEN a[i] ELSE b[i - Len(a)]
  BY <1>3, <1>4, ConcatProperties
<1>8. ASSUME NEW i \in 1..(n + 1)
      PROVE  (a \o b)[i] = c[i]
  <2>1. CASE i <= n
    <3>1. i \in 1..n
      BY <1>2, <2>1
    <3> QED BY <1>2, <1>3, <1>4, <1>6, <1>7, <2>1, <3>1
  <2>2. CASE ~(i <= n)
    <3>1. i = n + 1 /\ i - n = 1
      BY <1>2, <2>2
    <3> QED BY <1>2, <1>3, <1>4, <1>6, <1>7, <2>2, <3>1
  <2> QED BY <2>1, <2>2
<1>9. a \o b = c
  BY <1>2, <1>3, <1>4, <1>6, <1>7, <1>8, SeqEqual
<1> QED BY <1>9 DEF a, b, c

\* A call that fails leaves a Remux that tells why, and nothing but what only its exit leaves.
LEMMA FailureIsWhole ==
    ASSUME RemuxInv, stage # "returned", NEW where, NEW value \in BOOLEAN,
           value => where = "parameters",
           stage' = "returned", remuxed' = value, exit' = where, context' = runs, runs' = runs,
           reading' \in Seq(Remuxer!Packets), trailer' = trailer,
           held' \subseteq (IF where = "header" THEN {"options"} ELSE {})
    PROVE  RemuxInv'
BY DEF RemuxInv, RemuxTypes, Running, Remuxer!RemuxIsWhole

LEMMA Fails ==
    ASSUME RemuxInv, stage # "returned", NEW where, NEW value \in BOOLEAN,
           value => where = "parameters", Remuxer!Fails(value, where)
    PROVE  RemuxInv'
<1>1. held' = {}
  BY DEF Remuxer!Fails, Remuxer!Returns, Remuxer!Freed, RemuxInv, Running
<1> QED BY <1>1, FailureIsWhole DEF Remuxer!Fails, Remuxer!Returns, RemuxInv, RemuxTypes

\* A call that succeeds takes nothing that no owner frees.
LEMMA Goes ==
    ASSUME RemuxInv, stage # "returned", NEW next, NEW resources \in SUBSET Remuxer!Owned,
           next # "returned", next \in {"read", "trailer"} => streams = Streams,
           Remuxer!Goes(next, resources)
    PROVE  RemuxInv'
BY DEF RemuxInv, RemuxTypes, Running, Remuxer!RemuxIsWhole, Remuxer!Goes

LEMMA RemuxInitial ==
    ASSUME Remuxer!Init
    PROVE  RemuxInv
BY DEF Remuxer!Init, RemuxInv, RemuxTypes, Remuxer!RemuxIsWhole

\* A step keeps the invariant: one case per action.
LEMMA RemuxStep ==
    ASSUME RemuxInv, [Remuxer!Next]_Remuxer!vars
    PROVE  RemuxInv'
<1>1. CASE Remuxer!Remux
  <2>1. AllStamped(<<>>) = <<>>
    <3>1. AllStamped(<<>>) \in Seq(Int) /\ Len(AllStamped(<<>>)) = 0
      BY DEF AllStamped
    <3> QED BY <3>1, EmptySeq
  <2> QED BY <1>1, <2>1 DEF Remuxer!Remux, RemuxInv, RemuxTypes, Running, Remuxer!RemuxIsWhole
<1>2. CASE Remuxer!OpenInput
  BY <1>2, Fails, Goes DEF Remuxer!OpenInput, Remuxer!Owned
<1>3. CASE Remuxer!FindStreamInfo
  BY <1>3, Fails, Goes DEF Remuxer!FindStreamInfo, Remuxer!Owned
<1>4. CASE Remuxer!AllocOutput
  BY <1>4, Fails, Goes DEF Remuxer!AllocOutput, Remuxer!Owned
<1>5. CASE Remuxer!NewStream
  <2>1. CASE Remuxer!Fails(FALSE, "stream") \/ Remuxer!Fails(TRUE, "parameters")
    BY <1>5, <2>1, Fails DEF Remuxer!NewStream
  <2>2. CASE ~(Remuxer!Fails(FALSE, "stream") \/ Remuxer!Fails(TRUE, "parameters"))
    <3>1. /\ stage = "streams"
          /\ UNCHANGED <<stage, held, reading, muxed, trailer, remuxed, exit, context,
                         progress, runs>>
      BY <1>5, <2>2 DEF Remuxer!NewStream
    <3> QED BY <3>1 DEF RemuxInv, RemuxTypes, Running, Remuxer!RemuxIsWhole
  <2> QED BY <2>1, <2>2
<1>6. CASE Remuxer!WriteHeader
  <2>1. CASE Remuxer!Goes("read", {"packet"})
    BY <1>6, <2>1, Goes DEF Remuxer!WriteHeader, Remuxer!Owned
  <2>2. CASE ~Remuxer!Goes("read", {"packet"})
    <3>1. held' \subseteq {"options"} /\ stage = "streams"
      BY <1>6, <2>2 DEF Remuxer!WriteHeader, Remuxer!Freed, RemuxInv, Running
    <3> QED BY <1>6, <2>2, <3>1, FailureIsWhole DEF Remuxer!WriteHeader, RemuxInv, RemuxTypes
  <2> QED BY <2>1, <2>2
<1>7. CASE Remuxer!ReadFrame
  <2>1. PICK p \in Remuxer!Packets :
            /\ stage = "read" /\ reading' = Append(reading, p)
            /\ \/ /\ muxed' = muxed \o Remuxer!Stamped(p)
                  /\ UNCHANGED <<stage, held, remuxed, exit, context>>
               \/ /\ Remuxer!Returns(FALSE, "frame") /\ context' = runs
                  /\ UNCHANGED muxed
            /\ UNCHANGED <<streams, trailer, runs>>
    BY <1>7 DEF Remuxer!ReadFrame
  <2>2. reading \in Seq(Remuxer!Packets) /\ reading' \in Seq(Remuxer!Packets)
    BY <2>1, AppendProperties DEF RemuxInv, RemuxTypes
  <2>3. CASE Remuxer!Returns(FALSE, "frame") /\ context' = runs
    <3>1. held' = {}
      BY <2>1, <2>3 DEF Remuxer!Returns, Remuxer!Freed, RemuxInv, Running
    <3> QED BY <2>1, <2>2, <2>3, <3>1, FailureIsWhole DEF Remuxer!Returns
  <2>4. CASE ~(Remuxer!Returns(FALSE, "frame") /\ context' = runs)
    <3>1. muxed' = AllStamped(reading')
      BY <2>1, <2>2, <2>4, StampedAppend DEF RemuxInv, Running
    <3> QED BY <2>1, <2>2, <2>4, <3>1 DEF RemuxInv, RemuxTypes, Running, Remuxer!RemuxIsWhole
  <2> QED BY <2>3, <2>4
<1>8. CASE Remuxer!EndOfInput
  BY <1>8, Goes DEF Remuxer!EndOfInput, RemuxInv, Running
<1>9. CASE Remuxer!WriteTrailer
  <2>1. CASE Remuxer!Fails(FALSE, "trailer")
    BY <1>9, <2>1, Fails DEF Remuxer!WriteTrailer
  <2>2. CASE ~Remuxer!Fails(FALSE, "trailer")
    BY <1>9, <2>2 DEF Remuxer!WriteTrailer, Remuxer!Returns, Remuxer!Freed, Remuxer!Told,
                      RemuxInv, RemuxTypes, Running, AllStamped, Remuxer!RemuxIsWhole
  <2> QED BY <2>1, <2>2
<1>10. CASE UNCHANGED Remuxer!vars
  BY <1>10 DEF Remuxer!vars, RemuxInv, RemuxTypes, Running, Remuxer!RemuxIsWhole
<1> QED BY <1>1, <1>2, <1>3, <1>4, <1>5, <1>6, <1>7, <1>8, <1>9, <1>10 DEF Remuxer!Next

\* HLSSegmenter::Remux, for any source and any call of libavformat that fails: when it returns
\* true, but from the exit whose -1 is true, all of the source is in the playlist; when it
\* returns false, it tells why; and only a header that failed leaves something allocated.
THEOREM RemuxLeavesNothing == CallsSpec => []RemuxIsWhole
<1>1. CallsInit => RemuxInv
  BY RemuxInitial DEF CallsInit
<1>2. RemuxInv /\ [CallsNext]_callsVars => RemuxInv'
  BY RemuxStep, StepOfEach
<1>3. RemuxInv => RemuxIsWhole
  BY DEF RemuxInv, RemuxIsWhole
<1> QED BY <1>1, <1>2, <1>3, PTL DEF CallsSpec

-----------------------------------------------------------------------------
\* No address is twice in a list, and a list has addresses only once it is in the map, which
\* it does not leave.
Lists ==
    /\ \A s \in Services : IsInjective(channels[s])
    /\ \A s \in Services : s \notin map => channels[s] = <<>>
    /\ \A t \in Threads : op[t] # Manager!Idle => op[t].service \in map

\* What select chooses of a list when the counter is at i.
Choice(list, i) == list[(i % Len(list)) + 1]

\* The latest choices of a service are those its counter made, one after the other: the k-th
\* of the m in recent was made when the counter was m - k + 1 lower than it is.
Rotation(s) ==
    LET m == Len(recent[s])
    IN /\ m <= index[s]
       /\ channels[s] = <<>> => recent[s] = <<>>
       /\ \A k \in 1..m : recent[s][k] = Choice(channels[s], index[s] - 1 - m + k)

ManagerInv == Manager!TypeOK /\ Lists /\ \A s \in Services : Rotation(s)

\* The operators on sequences that the manager uses are those the lemmas are about.
LEMMA SameSets == \A s : Manager!ToSet(s) = ToSet(s)
BY DEF Manager!ToSet, ToSet

LEMMA SameRemoval == \A s, a : Manager!RemoveFirst(s, a) = RemoveFirst(s, a)
BY DEF Manager!RemoveFirst, RemoveFirst, Manager!RemoveAt, RemoveAt,
       Manager!SelectInSeq, SelectInSeq, Manager!Min, Min

LEMMA ManagerInitial ==
    ASSUME Manager!Init
    PROVE  ManagerInv
<1>1. Manager!TypeOK
  BY ServiceAssumption DEF Manager!Init, Manager!TypeOK
<1>2. Lists
  BY DEF Manager!Init, Lists, IsInjective
<1>3. ASSUME NEW s \in Services
      PROVE  Rotation(s)
  <2>1. recent[s] = <<>> /\ index[s] = 0 /\ Len(<<>>) = 0
    BY DEF Manager!Init
  <2> QED BY <2>1 DEF Rotation
<1> QED BY <1>1, <1>2, <1>3 DEF ManagerInv

-----------------------------------------------------------------------------
(* The steps of select.                                                    *)

\* The counter goes up by one, or starts again at 0.
LEMMA CounterAdvances ==
    ASSUME NEW i \in 0..(Wrap - 1)
    PROVE  /\ Manager!Advance(i) \in 0..(Wrap - 1)
           /\ Manager!Advance(i) # 0 => Manager!Advance(i) = i + 1
BY ServiceAssumption, Wraps DEF Manager!Advance

\* What select chooses is in the list.
LEMMA ChoiceIsListed ==
    ASSUME NEW list \in Seq(Addrs), list # <<>>, NEW i \in Nat
    PROVE  Choice(list, i) \in Addrs /\ Choice(list, i) \in ToSet(list)
<1>1. Len(list) \in Nat /\ Len(list) > 0 /\ DOMAIN list = 1..Len(list)
  BY EmptySeq, LenProperties
<1>2. (i % Len(list)) + 1 \in 1..Len(list)
  BY <1>1
<1> QED BY <1>1, <1>2 DEF Choice, ToSet

\* All the choices, or all but the first.
LEMMA LatestPicks ==
    ASSUME NEW picks \in Seq(Addrs), picks # <<>>
    PROVE  /\ Manager!Latest(picks) \in Seq(Addrs)
           /\ \E dropped \in {0, 1} :
                  /\ Len(Manager!Latest(picks)) = Len(picks) - dropped
                  /\ \A k \in 1..(Len(picks) - dropped) :
                         Manager!Latest(picks)[k] = picks[k + dropped]
<1>1. Len(picks) \in Nat /\ Len(picks) >= 1 /\ \A k \in 1..Len(picks) : picks[k] \in Addrs
  BY EmptySeq, LenProperties
<1>2. CASE Len(picks) > Manager!Window
  <2>1. Manager!Latest(picks) = SubSeq(picks, 2, Len(picks))
    BY <1>2 DEF Manager!Latest
  <2>2. /\ SubSeq(picks, 2, Len(picks)) \in Seq(Addrs)
        /\ Len(SubSeq(picks, 2, Len(picks))) = Len(picks) - 1
        /\ \A k \in 1..(Len(picks) - 1) : SubSeq(picks, 2, Len(picks))[k] = picks[k + 1]
    <3> DEFINE n == Len(picks)
               rest == SubSeq(picks, 2, n)
    <3>1. /\ n \in Int /\ n - 2 + 1 = n - 1 /\ (2 <= n \/ n - 1 = 0)
          /\ \A k \in 2..n : picks[k] \in Addrs
          /\ \A k \in 1..(n - 1) : 2 + k - 1 = k + 1
      <4>1. n \in Nat /\ n >= 1
        BY <1>1
      <4>2. \A k \in 2..n : picks[k] \in Addrs
        BY <1>1
      <4> HIDE DEF n
      <4>3. n \in Int /\ n - 2 + 1 = n - 1 /\ (2 <= n \/ n - 1 = 0)
        BY <4>1
      <4>4. \A k \in 1..(n - 1) : 2 + k - 1 = k + 1
        OBVIOUS
      <4> QED BY <4>2, <4>3, <4>4
    <3>2. /\ rest \in Seq(Addrs)
          /\ Len(rest) = IF 2 <= n THEN n - 2 + 1 ELSE 0
          /\ \A k \in 1..(n - 2 + 1) : rest[k] = picks[2 + k - 1]
      BY <3>1, SubSeqProperties
    <3> HIDE DEF n, rest
    <3>3. Len(rest) = n - 1
      BY <3>1, <3>2
    <3>4. \A k \in 1..(n - 1) : rest[k] = picks[k + 1]
      BY <3>1, <3>2
    <3> QED BY <3>2, <3>3, <3>4 DEF n, rest
  <2> QED BY <2>1, <2>2
<1>3. CASE ~(Len(picks) > Manager!Window)
  <2>1. Manager!Latest(picks) = SubSeq(picks, 1, Len(picks))
    BY <1>3 DEF Manager!Latest
  <2>2. /\ SubSeq(picks, 1, Len(picks)) \in Seq(Addrs)
        /\ Len(SubSeq(picks, 1, Len(picks))) = Len(picks) - 0
        /\ \A k \in 1..(Len(picks) - 0) : SubSeq(picks, 1, Len(picks))[k] = picks[k + 0]
    BY <1>1, SubSeqProperties
  <2> QED BY <2>1, <2>2
<1> QED BY <1>2, <1>3

\* select changes the counter and the choices of its service only.
LEMMA SelectEffect ==
    ASSUME ManagerInv, NEW t \in Threads, Manager!select(t)
    PROVE  LET s    == op[t].service
               list == channels[s]
               pick == Choice(list, index[s])
           IN /\ s \in Services /\ s \in map
              /\ op' = [op EXCEPT ![t] = Manager!Idle] /\ UNCHANGED <<map, channels>>
              /\ list = <<>> =>
                     /\ answer' = [answer EXCEPT ![t] = NoAddr]
                     /\ UNCHANGED <<index, recent>>
              /\ list # <<>> =>
                     /\ pick \in Addrs /\ pick \in ToSet(list)
                     /\ answer' = [answer EXCEPT ![t] = pick]
                     /\ index' = [index EXCEPT ![s] = Manager!Advance(index[s])]
                     /\ recent' = [recent EXCEPT ![s] =
                                      IF Manager!Advance(index[s]) = 0 THEN <<>>
                                      ELSE Manager!Latest(Append(recent[s], pick))]
<1> DEFINE s == op[t].service
<1>1. op[t] # Manager!Idle /\ op[t] \in Manager!Ops
  BY DEF ManagerInv, Manager!TypeOK, Manager!Idle, Manager!select
<1>2. s \in Services /\ s \in map
  BY <1>1 DEF ManagerInv, Lists, Manager!Ops
<1>3. channels[s] \in Seq(Addrs) /\ index[s] \in Nat
  BY <1>2 DEF ManagerInv, Manager!TypeOK
<1>4. channels[s] # <<>> =>
          Choice(channels[s], index[s]) \in Addrs
          /\ Choice(channels[s], index[s]) \in ToSet(channels[s])
  BY <1>3, ChoiceIsListed
<1>5. channels[s][Manager!Slot(s)] = Choice(channels[s], index[s])
  BY DEF Manager!Slot, Choice
<1>6. op' = [op EXCEPT ![t] = Manager!Idle] /\ UNCHANGED <<map, channels>>
  BY DEF Manager!select, Manager!Finish
<1>7. CASE channels[s] = <<>>
  BY <1>2, <1>6, <1>7 DEF Manager!select
<1>8. CASE channels[s] # <<>>
  <2>1. recent' = [recent EXCEPT ![s] = IF Manager!Advance(index[s]) = 0 THEN <<>>
                                        ELSE Manager!Latest(Append(@, channels[s][Manager!Slot(s)]))]
    BY <1>8 DEF Manager!select
  <2>2. answer' = [answer EXCEPT ![t] = channels[s][Manager!Slot(s)]]
        /\ index' = [index EXCEPT ![s] = Manager!Advance(index[s])]
    BY <1>8 DEF Manager!select
  <2> QED BY <1>2, <1>4, <1>5, <1>6, <1>8, <2>1, <2>2
<1> QED BY <1>7, <1>8

\* The rotation goes on over a choice.
LEMMA RotationGoesOn ==
    ASSUME ManagerInv, NEW t \in Threads, Manager!select(t), NEW s \in Services
    PROVE  Rotation(s)'
<1> DEFINE z == op[t].service
           i == index[z]
           m == Len(recent[z])
           list == channels[z]
           full == Append(recent[z], Choice(list, i))
<1>1. /\ z \in Services /\ UNCHANGED channels
      /\ list = <<>> => UNCHANGED <<index, recent>>
      /\ list # <<>> =>
             /\ Choice(list, i) \in Addrs
             /\ index' = [index EXCEPT ![z] = Manager!Advance(i)]
             /\ recent' = [recent EXCEPT ![z] =
                                         IF Manager!Advance(i) = 0 THEN <<>> ELSE Manager!Latest(full)]
  BY SelectEffect
<1>2. Rotation(s)
  BY DEF ManagerInv
<1>3. CASE list = <<>> \/ s # z
  <2>1. recent'[s] = recent[s] /\ index'[s] = index[s]
    BY <1>1, <1>3 DEF ManagerInv, Manager!TypeOK
  <2> QED BY <1>1, <1>2, <2>1 DEF Rotation
<1>4. CASE list # <<>> /\ s = z
  <2>1. /\ recent[z] \in Seq(Addrs) /\ m \in Nat /\ i \in 0..(Wrap - 1) /\ m <= i
        /\ \A k \in 1..m : recent[z][k] = Choice(list, i - 1 - m + k)
    BY <1>1, <1>2, <1>4 DEF ManagerInv, Manager!TypeOK, Rotation
  <2>2. Manager!Advance(i) \in 0..(Wrap - 1) /\ (Manager!Advance(i) # 0 => Manager!Advance(i) = i + 1)
    BY <2>1, CounterAdvances
  <2>3. index'[z] = Manager!Advance(i)
        /\ recent'[z] = IF Manager!Advance(i) = 0 THEN <<>> ELSE Manager!Latest(full)
    BY <1>1, <1>4 DEF ManagerInv, Manager!TypeOK
  <2>4. CASE Manager!Advance(i) = 0
    <3>1. recent'[z] = <<>> /\ index'[z] = 0 /\ Len(<<>>) = 0
      BY <2>3, <2>4
    <3> QED BY <1>4, <3>1 DEF Rotation
  <2>5. CASE Manager!Advance(i) # 0
    <3>1. /\ full \in Seq(Addrs) /\ Len(full) = m + 1
          /\ \A k \in 1..m : full[k] = recent[z][k]
          /\ full[m + 1] = Choice(list, i)
      BY <1>1, <1>4, <2>1, AppendProperties
    <3> HIDE DEF full, m, i
    <3>2. \A k \in 1..(m + 1) : full[k] = Choice(list, i - 1 - m + k)
      <4>1. \A k \in 1..(m + 1) : k \in 1..m \/ k = m + 1
        BY <2>1
      <4>2. i - 1 - m + (m + 1) = i
        BY <2>1
      <4> QED BY <2>1, <3>1, <4>1, <4>2
    <3>3. full # <<>>
      BY <2>1, <3>1, EmptySeq
    <3>4. PICK dropped \in {0, 1} :
              /\ Len(Manager!Latest(full)) = m + 1 - dropped
              /\ \A k \in 1..(m + 1 - dropped) : Manager!Latest(full)[k] = full[k + dropped]
      <4>1. PICK d \in {0, 1} :
                /\ Len(Manager!Latest(full)) = Len(full) - d
                /\ \A k \in 1..(Len(full) - d) : Manager!Latest(full)[k] = full[k + d]
        BY <3>1, <3>3, LatestPicks
      <4>2. Len(full) - d = m + 1 - d
        <5>1. Len(full) = m + 1 /\ m \in Nat /\ d \in Nat
          BY <2>1, <3>1
        <5> QED BY <5>1
      <4>3. /\ Len(Manager!Latest(full)) = m + 1 - d
            /\ \A k \in 1..(m + 1 - d) : Manager!Latest(full)[k] = full[k + d]
        BY <4>1, <4>2
      <4> QED BY <4>3
    <3>5. recent'[z] = Manager!Latest(full) /\ index'[z] = i + 1
      BY <2>2, <2>3, <2>5
    <3> DEFINE l == m + 1 - dropped
    <3>6. l \in Int /\ l <= i + 1
      BY <2>1
    <3>7. ASSUME NEW k \in 1..l
          PROVE  Manager!Latest(full)[k] = Choice(list, (i + 1) - 1 - l + k)
      <4>1. k + dropped \in 1..(m + 1) /\ i - 1 - m + (k + dropped) = (i + 1) - 1 - l + k
        BY <2>1
      <4>2. Manager!Latest(full)[k] = full[k + dropped]
        BY <3>4
      <4> QED BY <3>2, <4>1, <4>2
    <3>8. Len(recent'[z]) = l /\ channels'[z] = list /\ list # <<>>
      BY <1>1, <1>4, <3>4, <3>5
    <3> HIDE DEF l, list
    <3> USE DEF i
    <3> QED BY <1>4, <3>5, <3>6, <3>7, <3>8 DEF Rotation
  <2> QED BY <2>4, <2>5
<1> QED BY <1>3, <1>4

-----------------------------------------------------------------------------
(* The steps that change a list.                                           *)

\* insert appends an address that is new to its list and that brpc takes.
LEMMA InsertEffect ==
    ASSUME ManagerInv, NEW t \in Threads, Manager!insert(t)
    PROVE  LET s == op[t].service
               a == op[t].addr
           IN /\ s \in Services /\ s \in map /\ a \in Addrs
              /\ op' = [op EXCEPT ![t] = Manager!Idle] /\ UNCHANGED <<map, index, answer>>
              /\ \/ UNCHANGED <<channels, recent>>
                 \/ /\ a \notin Malformed /\ a \notin ToSet(channels[s])
                    /\ channels' = [channels EXCEPT ![s] = Append(channels[s], a)]
                    /\ recent' = [recent EXCEPT ![s] = <<>>]
<1>1. op[t] # Manager!Idle /\ op[t] \in Manager!Ops /\ op[t].kind = "add"
  BY DEF ManagerInv, Manager!TypeOK, Manager!Idle, Manager!insert
<1>2. op[t].service \in Services /\ op[t].addr \in Addrs
  BY <1>1 DEF Manager!Ops
<1>3. op[t].service \in map
  BY <1>1 DEF ManagerInv, Lists
<1> QED BY <1>2, <1>3, SameSets DEF Manager!insert, Manager!Finish,
    Manager!SetChannels, Manager!Rejected

\* remove takes an address out of its list, if it is there.
LEMMA RemoveEffect ==
    ASSUME ManagerInv, NEW t \in Threads, Manager!remove(t)
    PROVE  LET s == op[t].service
               a == op[t].addr
           IN /\ s \in Services /\ s \in map /\ a \in Addrs
              /\ op' = [op EXCEPT ![t] = Manager!Idle] /\ UNCHANGED <<map, index, answer>>
              /\ \/ a \notin ToSet(channels[s]) /\ UNCHANGED <<channels, recent>>
                 \/ /\ a \in ToSet(channels[s])
                    /\ channels' = [channels EXCEPT ![s] = RemoveFirst(channels[s], a)]
                    /\ recent' = [recent EXCEPT ![s] = <<>>]
<1>1. op[t] # Manager!Idle /\ op[t] \in Manager!Ops /\ op[t].kind = "remove"
  BY DEF ManagerInv, Manager!TypeOK, Manager!Idle, Manager!remove
<1>2. op[t].service \in Services /\ op[t].addr \in Addrs
  BY <1>1 DEF Manager!Ops
<1>3. op[t].service \in map
  BY <1>1 DEF ManagerInv, Lists
<1> QED BY <1>2, <1>3, SameSets, SameRemoval DEF Manager!remove, Manager!Finish, Manager!SetChannels

\* An operation ends without a change.
LEMMA OperationEnds ==
    ASSUME ManagerInv, NEW t \in Threads, op' = [op EXCEPT ![t] = Manager!Idle],
           UNCHANGED <<map, index, answer, channels, recent>>
    PROVE  ManagerInv'
<1>1. Manager!TypeOK'
  BY DEF ManagerInv, Manager!TypeOK
<1>2. Lists'
  BY DEF ManagerInv, Manager!TypeOK, Lists
<1>3. \A s \in Services : Rotation(s)'
  BY DEF ManagerInv, Rotation
<1> QED BY <1>1, <1>2, <1>3 DEF ManagerInv

\* An operation ends and leaves another list, where nothing is twice either.
LEMMA ListChanges ==
    ASSUME ManagerInv, NEW t \in Threads, op' = [op EXCEPT ![t] = Manager!Idle],
           UNCHANGED <<map, index, answer>>,
           NEW s \in Services, s \in map, NEW list \in Seq(Addrs), IsInjective(list),
           channels' = [channels EXCEPT ![s] = list],
           recent' = [recent EXCEPT ![s] = <<>>]
    PROVE  ManagerInv'
<1>1. Manager!TypeOK'
  BY DEF ManagerInv, Manager!TypeOK
<1>2. Lists'
  <2>1. ASSUME NEW u \in Services
        PROVE  IsInjective(channels'[u]) /\ (u \notin map' => channels'[u] = <<>>)
    BY DEF ManagerInv, Manager!TypeOK, Lists
  <2>2. ASSUME NEW u \in Threads, op'[u] # Manager!Idle
        PROVE  op'[u].service \in map'
    BY <2>2 DEF ManagerInv, Manager!TypeOK, Lists
  <2> QED BY <2>1, <2>2 DEF Lists
<1>3. ASSUME NEW u \in Services
      PROVE  Rotation(u)'
  <2>1. CASE u = s
    <3>1. recent'[s] = <<>> /\ Len(<<>>) = 0 /\ index'[s] \in Nat
      BY DEF ManagerInv, Manager!TypeOK
    <3> QED BY <2>1, <3>1 DEF Rotation
  <2>2. CASE u # s
    <3>1. recent'[u] = recent[u] /\ channels'[u] = channels[u] /\ index'[u] = index[u]
      BY <2>2 DEF ManagerInv, Manager!TypeOK
    <3> QED BY <3>1 DEF ManagerInv, Rotation
  <2> QED BY <2>1, <2>2
<1> QED BY <1>1, <1>2, <1>3 DEF ManagerInv

\* A step keeps the invariant: one case per operation.
LEMMA ManagerStep ==
    ASSUME ManagerInv, [Manager!Next]_Manager!vars
    PROVE  ManagerInv'
<1>1. ASSUME NEW t \in Threads, NEW s \in Services, Manager!watch(t, s)
      PROVE  ManagerInv'
  <2>1. Manager!TypeOK'
    BY <1>1 DEF Manager!watch, ManagerInv, Manager!TypeOK
  <2>2. Lists'
    BY <1>1 DEF Manager!watch, ManagerInv, Lists
  <2>3. \A u \in Services : Rotation(u)'
    BY <1>1 DEF Manager!watch, ManagerInv, Rotation
  <2> QED BY <2>1, <2>2, <2>3 DEF ManagerInv
<1>2. ASSUME NEW t \in Threads, NEW o \in Manager!Ops, Manager!getChannels(t, o)
      PROVE  ManagerInv'
  <2>1. Manager!TypeOK'
    BY <1>2 DEF Manager!getChannels, ManagerInv, Manager!TypeOK
  <2>2. Lists'
    BY <1>2 DEF Manager!getChannels, ManagerInv, Manager!TypeOK, Lists
  <2>3. \A u \in Services : Rotation(u)'
    BY <1>2 DEF Manager!getChannels, ManagerInv, Rotation
  <2> QED BY <2>1, <2>2, <2>3 DEF ManagerInv
<1>3. ASSUME NEW t \in Threads, Manager!insert(t)
      PROVE  ManagerInv'
  <2> DEFINE s == op[t].service
             a == op[t].addr
  <2>1. CASE UNCHANGED <<channels, recent>>
    BY <1>3, <2>1, InsertEffect, OperationEnds
  <2>2. CASE ~UNCHANGED <<channels, recent>>
    <3>1. /\ s \in Services /\ s \in map /\ a \in Addrs /\ a \notin ToSet(channels[s])
          /\ channels' = [channels EXCEPT ![s] = Append(channels[s], a)]
          /\ recent' = [recent EXCEPT ![s] = <<>>]
          /\ op' = [op EXCEPT ![t] = Manager!Idle] /\ UNCHANGED <<map, index, answer>>
      BY <1>3, <2>2, InsertEffect
    <3>2. channels[s] \in Seq(Addrs) /\ IsInjective(channels[s])
      BY <3>1 DEF ManagerInv, Manager!TypeOK, Lists
    <3>3. Append(channels[s], a) \in Seq(Addrs) /\ IsInjective(Append(channels[s], a))
      BY <3>1, <3>2, InjectiveAppend, AppendProperties
    <3> QED BY <3>1, <3>3, ListChanges
  <2> QED BY <2>1, <2>2
<1>4. ASSUME NEW t \in Threads, Manager!remove(t)
      PROVE  ManagerInv'
  <2> DEFINE s == op[t].service
             a == op[t].addr
  <2>1. CASE UNCHANGED <<channels, recent>>
    BY <1>4, <2>1, RemoveEffect, OperationEnds
  <2>2. CASE ~UNCHANGED <<channels, recent>>
    <3>1. /\ s \in Services /\ s \in map /\ a \in ToSet(channels[s])
          /\ channels' = [channels EXCEPT ![s] = RemoveFirst(channels[s], a)]
          /\ recent' = [recent EXCEPT ![s] = <<>>]
          /\ op' = [op EXCEPT ![t] = Manager!Idle] /\ UNCHANGED <<map, index, answer>>
      BY <1>4, <2>2, RemoveEffect
    <3>2. channels[s] \in Seq(Addrs) /\ IsInjective(channels[s])
      BY <3>1 DEF ManagerInv, Manager!TypeOK, Lists
    <3>3. RemoveFirst(channels[s], a) \in Seq(Addrs) /\ IsInjective(RemoveFirst(channels[s], a))
      BY <3>1, <3>2, RemoveFirstInjective
    <3> QED BY <3>1, <3>3, ListChanges
  <2> QED BY <2>1, <2>2
<1>5. ASSUME NEW t \in Threads, Manager!select(t)
      PROVE  ManagerInv'
  <2> DEFINE s == op[t].service
             list == channels[s]
             pick == Choice(list, index[s])
  <2>1. /\ s \in Services /\ s \in map
        /\ op' = [op EXCEPT ![t] = Manager!Idle] /\ UNCHANGED <<map, channels>>
        /\ list = <<>> =>
               answer' = [answer EXCEPT ![t] = NoAddr] /\ UNCHANGED <<index, recent>>
        /\ list # <<>> =>
               /\ pick \in Addrs
               /\ answer' = [answer EXCEPT ![t] = pick]
               /\ index' = [index EXCEPT ![s] = Manager!Advance(index[s])]
               /\ recent' = [recent EXCEPT ![s] =
                                IF Manager!Advance(index[s]) = 0 THEN <<>>
                                ELSE Manager!Latest(Append(recent[s], pick))]
    BY <1>5, SelectEffect
  <2>2. Manager!TypeOK'
    <3>1. CASE list = <<>>
      BY <2>1, <3>1 DEF ManagerInv, Manager!TypeOK
    <3>2. CASE list # <<>>
      <4>1. Manager!Advance(index[s]) \in 0..(Wrap - 1)
        BY <2>1, CounterAdvances DEF ManagerInv, Manager!TypeOK
      <4>2. Manager!Latest(Append(recent[s], pick)) \in Seq(Addrs)
        <5>1. recent[s] \in Seq(Addrs) /\ pick \in Addrs
          BY <2>1, <3>2 DEF ManagerInv, Manager!TypeOK
        <5> HIDE DEF pick
        <5>2. Append(recent[s], pick) \in Seq(Addrs) /\ Append(recent[s], pick) # <<>>
          BY <5>1, AppendProperties
        <5> QED BY <5>2, LatestPicks
      <4> HIDE DEF pick
      <4>3. index' \in [Services -> 0..(Wrap - 1)]
        BY <2>1, <3>2, <4>1 DEF ManagerInv, Manager!TypeOK
      <4>4. recent' \in [Services -> Seq(Addrs)]
        <5>1. <<>> \in Seq(Addrs)
          OBVIOUS
        <5> DEFINE next == IF Manager!Advance(index[s]) = 0 THEN <<>>
                           ELSE Manager!Latest(Append(recent[s], pick))
        <5>2. next \in Seq(Addrs)
          BY <4>2, <5>1
        <5>3. recent' = [recent EXCEPT ![s] = next]
          BY <2>1, <3>2
        <5> HIDE DEF next
        <5> QED BY <2>1, <5>2, <5>3 DEF ManagerInv, Manager!TypeOK
      <4>5. answer' \in [Threads -> Addrs \cup {NoAddr}]
        BY <2>1, <3>2 DEF ManagerInv, Manager!TypeOK
      <4> QED BY <2>1, <4>3, <4>4, <4>5 DEF ManagerInv, Manager!TypeOK
    <3> QED BY <3>1, <3>2
  <2>3. Lists'
    BY <2>1 DEF ManagerInv, Manager!TypeOK, Lists
  <2>4. \A u \in Services : Rotation(u)'
    BY <1>5, RotationGoesOn
  <2> QED BY <2>2, <2>3, <2>4 DEF ManagerInv
<1>6. CASE UNCHANGED Manager!vars
  BY <1>6 DEF Manager!vars, ManagerInv, Manager!TypeOK, Lists, Rotation
<1> QED BY <1>1, <1>2, <1>3, <1>4, <1>5, <1>6 DEF Manager!Next

\* What the lists, the counters and the operations in progress are (RpcUtil::Channels and
\* ServiceManager), for any threads, services and addresses and any width of the counter.
THEOREM ManagerInvariant == CallsSpec => []ManagerInv
<1>1. CallsInit => ManagerInv
  BY ManagerInitial DEF CallsInit
<1>2. ManagerInv /\ [CallsNext]_callsVars => ManagerInv'
  BY ManagerStep, StepOfEach
<1> QED BY <1>1, <1>2, PTL DEF CallsSpec

-----------------------------------------------------------------------------
\* Two choices less than a turn apart are of different places of the list, and no node is at
\* two places.
LEMMA RotationIsRound ==
    ASSUME ManagerInv, NEW s \in Services,
           NEW i \in DOMAIN recent[s], NEW j \in DOMAIN recent[s],
           i < j, j - i < Len(channels[s])
    PROVE  recent[s][i] # recent[s][j]
<1> DEFINE n == Len(channels[s])
           m == Len(recent[s])
           x == index[s] - 1 - m + i
           d == j - i
<1>1. /\ recent[s] \in Seq(Addrs) /\ channels[s] \in Seq(Addrs) /\ index[s] \in Nat
      /\ IsInjective(channels[s]) /\ Rotation(s)
  BY DEF ManagerInv, Manager!TypeOK, Lists
<1>2. m \in Nat /\ n \in Nat /\ i \in 1..m /\ j \in 1..m /\ DOMAIN channels[s] = 1..n
  BY <1>1, LenProperties
<1>3. m <= index[s]
      /\ \A k \in 1..m : recent[s][k] = Choice(channels[s], index[s] - 1 - m + k)
  BY <1>1 DEF Rotation
<1>4. /\ recent[s][i] = channels[s][(x % n) + 1]
      /\ recent[s][j] = channels[s][((index[s] - 1 - m + j) % n) + 1]
  BY <1>2, <1>3 DEF Choice
<1> HIDE DEF n, m
<1>5. n > 0 /\ x \in Nat /\ d \in 1..(n - 1) /\ index[s] - 1 - m + j = x + d
  <2>1. d < n
    BY DEF n
  <2>2. PICK y \in Nat : y = index[s] /\ m <= y
    BY <1>1, <1>3
  <2>3. i \in Nat /\ i >= 1 /\ j \in Nat /\ n \in Nat /\ m \in Nat
    BY <1>2
  <2>4. y - 1 - m + i \in Nat /\ y - 1 - m + j = (y - 1 - m + i) + (j - i)
    <3>1. m <= y
      BY <2>2
    <3>2. y - 1 - m + i >= 0
      BY <2>3, <3>1
    <3>3. y - 1 - m + j = (y - 1 - m + i) + (j - i)
      BY <2>3
    <3> QED BY <2>3, <3>2, <3>3
  <2>5. n > 0 /\ d \in 1..(n - 1)
    BY <2>1, <2>3
  <2> QED BY <2>2, <2>4, <2>5
<1> HIDE DEF x, d
<1>6. x % n # (x + d) % n
  BY <1>2, <1>5, RemaindersDiffer
<1>7. PICK u \in 0..(n - 1), v \in 0..(n - 1) : u = x % n /\ v = (x + d) % n
  BY <1>2, <1>5
<1>8. u + 1 \in 1..n /\ v + 1 \in 1..n /\ u + 1 # v + 1
  BY <1>2, <1>6, <1>7
<1>9. recent[s][i] = channels[s][u + 1] /\ recent[s][j] = channels[s][v + 1]
  BY <1>4, <1>5, <1>7
<1> QED BY <1>1, <1>2, <1>8, <1>9 DEF IsInjective

\* Channels::select goes round: between two choices of a node every other node of the service
\* is chosen, while its list does not change and its counter does not wrap, whatever the
\* threads and the length of the list.
THEOREM ManagerRoundRobin == CallsSpec => []RoundRobin
<1>1. ManagerInv => RoundRobin
  BY RotationIsRound DEF RoundRobin, Manager!RoundRobin
<1> QED BY <1>1, ManagerInvariant, PTL

-----------------------------------------------------------------------------
(* The refinement of ServiceRegistry.                                      *)

Nodes == [s \in Services |-> Manager!ToSet(channels[s])]

\* Another list is another set of nodes of its service.
LEMMA NodesChange ==
    ASSUME Manager!TypeOK, NEW s \in Services, NEW list,
           channels' = [channels EXCEPT ![s] = list]
    PROVE  Nodes' = [Nodes EXCEPT ![s] = ToSet(list)]
BY SameSets DEF Manager!TypeOK, Nodes

LEMMA RegistryInitial ==
    ASSUME Manager!Init
    PROVE  Manager!Registry!Init
<1>1. Manager!ToSet(<<>>) = {}
  BY DEF Manager!ToSet
<1> QED BY <1>1 DEF Manager!Init, Manager!Registry!Init

\* Each step is one operation of the registry, or none: an add, a remove and a lookup take
\* effect at their second step; a lookup of a service that is not watched at its only one.
LEMMA RegistryStep ==
    ASSUME ManagerInv, [Manager!Next]_Manager!vars
    PROVE  [Manager!Registry!Next]_Manager!Registry!vars
<1>1. ASSUME NEW t \in Threads, NEW s \in Services, Manager!watch(t, s)
      PROVE  Manager!Registry!Next
  <2>1. Manager!Registry!Watch(s)
    BY <1>1 DEF Manager!watch, Manager!Registry!Watch
  <2> QED BY <2>1 DEF Manager!Registry!Next
<1>2. ASSUME NEW t \in Threads, NEW o \in Manager!Ops, Manager!getChannels(t, o)
      PROVE  [Manager!Registry!Next]_Manager!Registry!vars
  <2> DEFINE s == o.service
  <2>1. s \in Services
    BY DEF Manager!Ops
  <2>2. CASE s \notin map /\ o.kind = "get"
    <3>1. ToSet(channels[s]) = {}
      <4>1. channels[s] = <<>>
        BY <2>1, <2>2 DEF ManagerInv, Lists
      <4>2. DOMAIN channels[s] = {}
        BY <4>1
      <4> QED BY <4>2 DEF ToSet
    <3>2. Nodes[s] = {} /\ UNCHANGED <<map, Nodes>>
      BY <1>2, <2>1, <3>1, SameSets DEF Manager!getChannels, Nodes
    <3>3. answer' = [answer EXCEPT ![t] = NoAddr]
      BY <1>2, <2>2 DEF Manager!getChannels
    <3>4. Manager!Registry!GetNode(t, s)
      BY <3>2, <3>3 DEF Manager!Registry!GetNode, Nodes
    <3> QED BY <2>1, <3>4 DEF Manager!Registry!Next
  <2>3. CASE ~(s \notin map /\ o.kind = "get")
    <3>1. UNCHANGED <<map, channels, answer>>
      BY <1>2, <2>3 DEF Manager!getChannels
    <3> QED BY <3>1 DEF Manager!Registry!vars
  <2> QED BY <2>2, <2>3
<1>3. ASSUME NEW t \in Threads, Manager!insert(t)
      PROVE  [Manager!Registry!Next]_Manager!Registry!vars
  <2> DEFINE s == op[t].service
             a == op[t].addr
  <2>1. CASE UNCHANGED <<channels, recent>>
    BY <1>3, <2>1, InsertEffect DEF Manager!Registry!vars
  <2>2. CASE ~UNCHANGED <<channels, recent>>
    <3>1. /\ s \in Services /\ s \in map /\ a \in Addrs /\ a \notin Malformed
          /\ channels' = [channels EXCEPT ![s] = Append(channels[s], a)]
          /\ UNCHANGED <<map, answer>>
      BY <1>3, <2>2, InsertEffect
    <3>2. channels[s] \in Seq(Addrs)
      BY <3>1 DEF ManagerInv, Manager!TypeOK
    <3>3. ToSet(Append(channels[s], a)) = ToSet(channels[s]) \cup {a}
      BY <3>1, <3>2, ToSetAppend
    <3>4. Nodes' = [Nodes EXCEPT ![s] = ToSet(channels[s]) \cup {a}]
      BY <3>1, <3>3, NodesChange DEF ManagerInv
    <3>5. Nodes' = [Nodes EXCEPT ![s] = @ \cup {a}]
      BY <3>1, <3>4, SameSets DEF Nodes
    <3>6. Manager!Registry!AddNode(s, a)
      BY <3>1, <3>5 DEF Manager!Registry!AddNode, Nodes
    <3> QED BY <3>1, <3>6 DEF Manager!Registry!Next
  <2> QED BY <2>1, <2>2
<1>4. ASSUME NEW t \in Threads, Manager!remove(t)
      PROVE  [Manager!Registry!Next]_Manager!Registry!vars
  <2> DEFINE s == op[t].service
             a == op[t].addr
  <2>1. CASE UNCHANGED <<channels, recent>>
    BY <1>4, <2>1, RemoveEffect DEF Manager!Registry!vars
  <2>2. CASE ~UNCHANGED <<channels, recent>>
    <3>1. /\ s \in Services /\ a \in Addrs /\ a \in ToSet(channels[s])
          /\ channels' = [channels EXCEPT ![s] = RemoveFirst(channels[s], a)]
          /\ UNCHANGED <<map, answer>>
      BY <1>4, <2>2, RemoveEffect
    <3>2. channels[s] \in Seq(Addrs) /\ IsInjective(channels[s])
      BY <3>1 DEF ManagerInv, Manager!TypeOK, Lists
    <3>3. ToSet(RemoveFirst(channels[s], a)) = ToSet(channels[s]) \ {a}
      BY <3>1, <3>2, RemoveFirstInjective
    <3>4. Nodes' = [Nodes EXCEPT ![s] = ToSet(channels[s]) \ {a}]
      BY <3>1, <3>3, NodesChange DEF ManagerInv
    <3>5. Nodes' = [Nodes EXCEPT ![s] = @ \ {a}]
      BY <3>1, <3>4, SameSets DEF Nodes
    <3>6. Manager!Registry!RemoveNode(s, a)
      BY <3>1, <3>5 DEF Manager!Registry!RemoveNode, Nodes
    <3> QED BY <3>1, <3>6 DEF Manager!Registry!Next
  <2> QED BY <2>1, <2>2
<1>5. ASSUME NEW t \in Threads, Manager!select(t)
      PROVE  [Manager!Registry!Next]_Manager!Registry!vars
  <2> DEFINE s == op[t].service
             list == channels[s]
             pick == Choice(list, index[s])
  <2>1. /\ s \in Services /\ UNCHANGED <<map, channels>>
        /\ list = <<>> => answer' = [answer EXCEPT ![t] = NoAddr]
        /\ list # <<>> => pick \in ToSet(list) /\ answer' = [answer EXCEPT ![t] = pick]
    BY <1>5, SelectEffect
  <2>2. UNCHANGED <<map, Nodes>> /\ Nodes[s] = ToSet(list)
    BY <2>1, SameSets DEF Nodes
  <2>3. PICK a \in IF Nodes[s] = {} THEN {NoAddr} ELSE Nodes[s] :
            answer' = [answer EXCEPT ![t] = a]
    <3>1. CASE list = <<>>
      <4>1. DOMAIN list = {}
        BY <3>1
      <4>2. Nodes[s] = {}
        BY <2>2, <4>1 DEF ToSet
      <4> QED BY <2>1, <3>1, <4>2
    <3>2. CASE list # <<>>
      BY <2>1, <2>2, <3>2
    <3> QED BY <3>1, <3>2
  <2>4. Manager!Registry!GetNode(t, s)
    BY <2>2, <2>3 DEF Manager!Registry!GetNode, Nodes
  <2> QED BY <2>1, <2>4 DEF Manager!Registry!Next
<1>6. CASE UNCHANGED Manager!vars
  BY <1>6 DEF Manager!vars, Manager!Registry!vars
<1> QED BY <1>1, <1>2, <1>3, <1>4, <1>5, <1>6 DEF Manager!Next

\* The operations of ServiceManager, which lock the map and then a list, behave as if each took
\* effect at one instant: whatever happens between the two locks, a node that is added is one
\* of a watched service, and a lookup answers with a node that is there, or that there is none.
THEOREM ManagerIsLinearizable == CallsSpec => LinearizableRegistry
<1>1. CallsInit => Manager!Registry!Init
  BY RegistryInitial DEF CallsInit
<1>2. ManagerInv /\ [CallsNext]_callsVars => [Manager!Registry!Next]_Manager!Registry!vars
  BY RegistryStep, StepOfEach
<1> QED BY <1>1, <1>2, ManagerInvariant, PTL
        DEF CallsSpec, LinearizableRegistry, Manager!LinearizableRegistry, Manager!Registry!Spec

-----------------------------------------------------------------------------
(* The types of all of them.                                               *)

\* Cardinality is the same in the instances.
LEMMA CardinalityIs ==
    /\ \A S : Redis!Cardinality(S) = Cardinality(S)
    /\ \A S : Remuxer!Cardinality(S) = Cardinality(S)
<1>1. \A S : Redis!Cardinality(S) = Cardinality(S)
  BY Zenon DEF Cardinality, Redis!Cardinality
<1>2. \A S : Remuxer!Cardinality(S) = Cardinality(S)
  BY Zenon DEF Cardinality, Remuxer!Cardinality
<1> QED BY <1>1, <1>2

Busy == {t \in Threads : command[t] # Redis!Idle}

\* What the types of RedisCalls add to RedisInv.
RedisBounds ==
    /\ expiring \subseteq {k \in Keys : store[k] # Absent}
    /\ IsFiniteSet(Busy) /\ Cardinality(Busy) <= PoolSize
    /\ made \in Nat /\ made <= MaxCommands

\* A command leaves a time to live only where it leaves a value.
LEMMA EffectExpires ==
    ASSUME RedisTypes, expiring \subseteq {k \in Keys : store[k] # Absent},
           NEW cmd \in Redis!Commands, Redis!Effect(cmd)
    PROVE  expiring' \subseteq {k \in Keys : store'[k] # Absent}
<1>1. /\ cmd.key \in Keys /\ cmd.op \in {"get", "del", "exists", "set"}
      /\ cmd.op = "set" => cmd.value # Absent
  BY ServiceAssumption DEF Redis!Commands
<1>2. CASE cmd.op = "set"
  <2>1. store' = [store EXCEPT ![cmd.key] = cmd.value] /\ expiring' \subseteq expiring \cup {cmd.key}
    BY <1>2 DEF Redis!Effect
  <2> QED BY <1>1, <1>2, <2>1 DEF RedisTypes
<1>3. CASE cmd.op = "del"
  <2>1. store' = [store EXCEPT ![cmd.key] = Absent] /\ expiring' = expiring \ {cmd.key}
    BY <1>3 DEF Redis!Effect
  <2> QED BY <1>1, <2>1 DEF RedisTypes
<1>4. CASE cmd.op \in {"get", "exists"}
  <2>1. store' = store /\ expiring' = expiring
    BY <1>4 DEF Redis!Effect
  <2> QED BY <2>1
<1> QED BY <1>1, <1>2, <1>3, <1>4

\* Fewer calls wait.
LEMMA FewerBusy ==
    ASSUME RedisBounds, Busy' \subseteq Busy
    PROVE  IsFiniteSet(Busy') /\ Cardinality(Busy') <= PoolSize
<1>1. IsFiniteSet(Busy) /\ Cardinality(Busy) <= PoolSize
  BY DEF RedisBounds
<1>2. IsFiniteSet(Busy') /\ Cardinality(Busy') <= Cardinality(Busy)
  BY <1>1, FS_Subset
<1>3. Cardinality(Busy) \in Nat /\ Cardinality(Busy') \in Nat /\ PoolSize \in Nat
  BY <1>1, <1>2, FS_CardinalityType, ServiceAssumption
<1> QED BY <1>1, <1>2, <1>3

LEMMA RedisBounded ==
    ASSUME RedisInv, RedisBounds, [Redis!Next]_Redis!vars
    PROVE  RedisBounds'
<1>0. /\ expiring \subseteq {k \in Keys : store[k] # Absent} /\ made \in Nat /\ made <= MaxCommands
      /\ RedisTypes /\ MaxCommands \in Nat
  BY ServiceAssumption DEF RedisBounds, RedisInv
<1>1. CASE Redis!SetNothing
  <2>1. UNCHANGED <<store, expiring, command>> /\ made < MaxCommands /\ made' = made + 1
    BY <1>1 DEF Redis!SetNothing
  <2>2. Busy' \subseteq Busy
    BY <2>1 DEF Busy
  <2> QED BY <1>0, <2>1, <2>2, FewerBusy DEF RedisBounds
<1>2. CASE Redis!Send
  <2>1. PICK t \in Threads, cmd \in Redis!Commands :
            /\ command[t] = Redis!Idle /\ made < MaxCommands /\ made' = made + 1
            /\ Cardinality({u \in Threads : command[u] # Redis!Idle}) < PoolSize
            /\ command' = [command EXCEPT ![t] = cmd]
            /\ UNCHANGED <<store, expiring>>
    BY <1>2, CardinalityIs DEF Redis!Send
  <2>2. IsFiniteSet(Busy) /\ Cardinality(Busy) < PoolSize
    BY <2>1 DEF RedisBounds, Busy
  <2>3. Busy' \subseteq Busy \cup {t}
    BY <1>0, <2>1 DEF Busy, RedisTypes
  <2>4. IsFiniteSet(Busy \cup {t}) /\ Cardinality(Busy \cup {t}) <= Cardinality(Busy) + 1
    <3>1. CASE t \in Busy
      <4>1. Busy \cup {t} = Busy
        BY <3>1
      <4>2. Cardinality(Busy) <= Cardinality(Busy) + 1
        BY <2>2, FS_CardinalityType
      <4> QED BY <2>2, <4>1, <4>2
    <3>2. CASE t \notin Busy
      <4>1. /\ IsFiniteSet(Busy \cup {t})
            /\ Cardinality(Busy \cup {t}) = Cardinality(Busy) + 1
        BY <2>2, <3>2, FS_AddElement
      <4> QED BY <2>2, <4>1, FS_CardinalityType
    <3> QED BY <3>1, <3>2
  <2>5. IsFiniteSet(Busy') /\ Cardinality(Busy') <= Cardinality(Busy \cup {t})
    BY <2>3, <2>4, FS_Subset
  <2>6. Cardinality(Busy') <= PoolSize
    <3>1. Cardinality(Busy) \in Nat /\ Cardinality(Busy') \in Nat
          /\ Cardinality(Busy \cup {t}) \in Nat /\ PoolSize \in Nat
      BY <2>2, <2>4, <2>5, FS_CardinalityType, ServiceAssumption
    <3> QED BY <2>2, <2>4, <2>5, <3>1
  <2>7. made' \in Nat /\ made' <= MaxCommands
    BY <1>0, <2>1
  <2> QED BY <1>0, <2>1, <2>5, <2>6, <2>7 DEF RedisBounds
<1>3. CASE Redis!Execute
  <2>1. PICK t \in Threads :
            /\ command[t] # Redis!Idle /\ Redis!Effect(command[t])
            /\ UNCHANGED <<command, made>>
    BY <1>3 DEF Redis!Execute
  <2>2. command[t] \in Redis!Commands
    BY <1>0, <2>1 DEF RedisTypes
  <2>3. Busy' \subseteq Busy
    BY <2>1 DEF Busy
  <2>4. expiring' \subseteq {k \in Keys : store'[k] # Absent}
    BY <1>0, <2>1, <2>2, EffectExpires
  <2> QED BY <1>0, <2>1, <2>3, <2>4, FewerBusy DEF RedisBounds
<1>4. CASE Redis!ExecuteLate
  <2>1. PICK cmd \in late : Redis!Effect(cmd) /\ UNCHANGED <<command, made>>
    BY <1>4 DEF Redis!ExecuteLate
  <2>2. cmd \in Redis!Commands
    BY <1>0 DEF RedisTypes
  <2>3. Busy' \subseteq Busy
    BY <2>1 DEF Busy
  <2>4. expiring' \subseteq {k \in Keys : store'[k] # Absent}
    BY <1>0, <2>1, <2>2, EffectExpires
  <2> QED BY <1>0, <2>1, <2>3, <2>4, FewerBusy DEF RedisBounds
<1>5. CASE Redis!Expire
  <2>1. PICK k \in expiring :
            /\ store' = [store EXCEPT ![k] = Absent] /\ expiring' = expiring \ {k}
            /\ UNCHANGED <<command, made>>
    BY <1>5 DEF Redis!Expire
  <2>2. Busy' \subseteq Busy
    BY <2>1 DEF Busy
  <2>3. expiring' \subseteq {n \in Keys : store'[n] # Absent}
    BY <1>0, <2>1 DEF RedisTypes
  <2> QED BY <1>0, <2>1, <2>2, <2>3, FewerBusy DEF RedisBounds
<1>6. CASE Redis!Return \/ Redis!Throw
  <2>1. PICK t \in Threads :
            command' = [command EXCEPT ![t] = Redis!Idle] /\ UNCHANGED <<store, expiring, made>>
    BY <1>6 DEF Redis!Return, Redis!Throw
  <2>2. Busy' \subseteq Busy
    BY <1>0, <2>1 DEF Busy, RedisTypes
  <2> QED BY <1>0, <2>1, <2>2, FewerBusy DEF RedisBounds
<1>7. CASE UNCHANGED Redis!vars
  <2>1. UNCHANGED <<store, expiring, command, made>>
    BY <1>7 DEF Redis!vars
  <2>2. Busy' \subseteq Busy
    BY <2>1 DEF Busy
  <2> QED BY <1>0, <2>1, <2>2, FewerBusy DEF RedisBounds
<1> QED BY <1>1, <1>2, <1>3, <1>4, <1>5, <1>6, <1>7 DEF Redis!Next

LEMMA RedisBoundedFirst ==
    ASSUME Redis!Init
    PROVE  RedisBounds
<1>1. Busy = {}
  BY DEF Redis!Init, Busy
<1>2. IsFiniteSet(Busy) /\ Cardinality(Busy) = 0
  BY <1>1, FS_EmptySet
<1>3. expiring = {} /\ made = 0
  BY DEF Redis!Init
<1> QED BY <1>2, <1>3, ServiceAssumption DEF RedisBounds

\* The types of HlsRemux: the streams of the output are the first ones of the source.
RemuxBounds ==
    /\ stage \in {"returned", "open", "info", "alloc", "streams", "read", "trailer"}
    /\ held \subseteq Remuxer!Owned \cup {"options"}
    /\ \E m \in Nat : streams = 1..m
    /\ streams \subseteq Streams
    /\ remuxed \in BOOLEAN /\ progress \in {"null", "less", "full"}
    /\ runs \in Nat /\ context \in Nat /\ context <= runs /\ runs <= MaxRuns

\* One stream more.
LEMMA StreamAdded ==
    ASSUME NEW m \in Nat, streams = 1..m, streams \subseteq Streams, streams # Streams
    PROVE  /\ streams \cup {Cardinality(streams) + 1} = 1..(m + 1)
           /\ 1..(m + 1) \subseteq Streams
<1>1. Cardinality(streams) = m
  BY FS_Interval
<1>2. PICK n \in Nat : Streams = 1..n
  BY ServiceAssumption, FS_CardinalityType
<1>3. m < n
  BY <1>2
<1>4. 1..m \cup {m + 1} = 1..(m + 1)
  OBVIOUS
<1> QED BY <1>1, <1>2, <1>3, <1>4

LEMMA RemuxBounded ==
    ASSUME RemuxBounds, [Remuxer!Next]_Remuxer!vars
    PROVE  RemuxBounds'
<1> USE DEF Remuxer!Owned, Remuxer!Freed, Remuxer!Told
<1>1. CASE Remuxer!Remux
  <2>1. streams' = 1..0
    BY <1>1 DEF Remuxer!Remux
  <2>2. stage' = "open" /\ held' = {} /\ runs < MaxRuns /\ runs' = runs + 1
         /\ progress' \in {"null", "less"} /\ UNCHANGED <<remuxed, context>>
    BY <1>1 DEF Remuxer!Remux
  <2>3. streams' = {}
    BY <2>1
  <2>4. /\ runs' \in Nat /\ context' \in Nat /\ context' <= runs' /\ runs' <= MaxRuns
    BY <2>2, ServiceAssumption DEF RemuxBounds
  <2> QED BY <2>1, <2>2, <2>3, <2>4 DEF RemuxBounds
<1>2. ASSUME NEW value \in BOOLEAN, NEW where, Remuxer!Fails(value, where)
      PROVE  RemuxBounds'
  BY <1>2 DEF Remuxer!Fails, Remuxer!Returns, RemuxBounds
<1>3. ASSUME NEW next \in {"info", "alloc", "streams", "read", "trailer"},
             NEW resources \in SUBSET Remuxer!Owned, Remuxer!Goes(next, resources)
      PROVE  RemuxBounds'
  BY <1>3 DEF Remuxer!Goes, RemuxBounds
<1>4. CASE Remuxer!OpenInput
  BY <1>2, <1>3, <1>4 DEF Remuxer!OpenInput
<1>5. CASE Remuxer!FindStreamInfo
  BY <1>2, <1>3, <1>5 DEF Remuxer!FindStreamInfo
<1>6. CASE Remuxer!AllocOutput
  BY <1>2, <1>3, <1>6 DEF Remuxer!AllocOutput
<1>7. CASE Remuxer!NewStream
  <2>1. CASE Remuxer!Fails(FALSE, "stream") \/ Remuxer!Fails(TRUE, "parameters")
    BY <1>2, <2>1
  <2>2. CASE ~(Remuxer!Fails(FALSE, "stream") \/ Remuxer!Fails(TRUE, "parameters"))
    <3>1. /\ streams # Streams /\ streams' = streams \cup {Cardinality(streams) + 1}
          /\ UNCHANGED <<stage, held, remuxed, context, progress, runs>>
      BY <1>7, <2>2, CardinalityIs DEF Remuxer!NewStream
    <3>2. PICK m \in Nat : streams = 1..m
      BY DEF RemuxBounds
    <3>3. streams' = 1..(m + 1) /\ streams' \subseteq Streams /\ m + 1 \in Nat
      BY <3>1, <3>2, StreamAdded DEF RemuxBounds
    <3> QED BY <3>1, <3>3 DEF RemuxBounds
  <2> QED BY <2>1, <2>2
<1>8. CASE Remuxer!WriteHeader
  <2>1. CASE Remuxer!Goes("read", {"packet"})
    BY <1>3, <2>1
  <2>2. CASE ~Remuxer!Goes("read", {"packet"})
    <3>1. /\ stage' = "returned" /\ remuxed' = FALSE /\ context' = runs
          /\ held' = (held \cup {"options"}) \ Remuxer!Owned /\ UNCHANGED <<streams, progress, runs>>
      BY <1>8, <2>2 DEF Remuxer!WriteHeader
    <3>2. runs <= runs
      BY DEF RemuxBounds
    <3> QED BY <3>1, <3>2 DEF RemuxBounds
  <2> QED BY <2>1, <2>2
<1>9. CASE Remuxer!ReadFrame
  <2>1. /\ UNCHANGED <<streams, runs>> /\ progress' \in {progress, Remuxer!Told}
        /\ \/ UNCHANGED <<stage, held, remuxed, context>>
           \/ /\ stage' = "returned" /\ remuxed' = FALSE /\ context' = runs
              /\ held' = held \ Remuxer!Owned
    BY <1>9 DEF Remuxer!ReadFrame, Remuxer!Returns
  <2>2. runs <= runs
    BY DEF RemuxBounds
  <2> QED BY <2>1, <2>2 DEF RemuxBounds
<1>10. CASE Remuxer!EndOfInput
  BY <1>3, <1>10 DEF Remuxer!EndOfInput
<1>11. CASE Remuxer!WriteTrailer
  <2>1. CASE Remuxer!Fails(FALSE, "trailer")
    BY <1>2, <2>1
  <2>2. CASE ~Remuxer!Fails(FALSE, "trailer")
    BY <1>11, <2>2 DEF Remuxer!WriteTrailer, Remuxer!Returns, RemuxBounds
  <2> QED BY <2>1, <2>2
<1>12. CASE UNCHANGED Remuxer!vars
  BY <1>12 DEF Remuxer!vars, RemuxBounds
<1> QED BY <1>1, <1>4, <1>5, <1>6, <1>7, <1>8, <1>9, <1>10, <1>11, <1>12 DEF Remuxer!Next

LEMMA RemuxBoundedFirst ==
    ASSUME Remuxer!Init
    PROVE  RemuxBounds
<1>1. streams = {} /\ {} = 1..0
  BY DEF Remuxer!Init
<1>2. \E m \in Nat : streams = 1..m
  BY <1>1
<1>3. runs = 0 /\ context = 0 /\ 0 <= 0 /\ 0 <= MaxRuns /\ 0 \in Nat
  BY ServiceAssumption DEF Remuxer!Init
<1>4. stage = "returned" /\ held = {} /\ remuxed = FALSE /\ progress = "null"
  BY DEF Remuxer!Init
<1>5. context <= runs /\ runs <= MaxRuns
  BY <1>3
<1> QED BY <1>1, <1>2, <1>3, <1>4, <1>5 DEF RemuxBounds

\* The composition runs FastDFS as FastDFSClient does.
LEMMA FastDFSRuns == CallsSpec => Spec
<1>1. CallsInit => Init
  BY DEF CallsInit
<1>2. [CallsNext]_callsVars => [Next]_vars
  BY DEF CallsNext, callsVars
<1> QED BY <1>1, <1>2, PTL DEF CallsSpec, Spec

\* The type invariants of the five clients: among others, the pool of connections is never
\* exceeded (RedisUtil), nothing expires that is not there, the streams of the output are streams of
\* the source, and the error that is remembered is of a call that was made (HLSSegmenter).
THEOREM TypesCorrect == CallsSpec => []TypesOK
<1>1. CallsInit => RedisInv /\ RedisBounds
  BY RedisInitial, RedisBoundedFirst DEF CallsInit
<1>2. RedisInv /\ RedisBounds /\ [CallsNext]_callsVars => (RedisInv /\ RedisBounds)'
  BY RedisStep, RedisBounded, StepOfEach
<1>3. RedisInv /\ RedisBounds => Redis!TypeOK
  BY CardinalityIs DEF RedisInv, RedisTypes, RedisBounds, Busy, Redis!TypeOK
<1>4. CallsInit => RemuxBounds
  BY RemuxBoundedFirst DEF CallsInit
<1>5. RemuxBounds /\ [CallsNext]_callsVars => RemuxBounds'
  BY RemuxBounded, StepOfEach
<1>6. RemuxBounds => Remuxer!TypeOK
  BY DEF RemuxBounds, Remuxer!TypeOK
<1>7. ManagerInv => Manager!TypeOK
  BY DEF ManagerInv
<1>8. TypeOK /\ Manager!TypeOK /\ Redis!TypeOK /\ Mail!TypeOK /\ Remuxer!TypeOK => TypesOK
  BY DEF TypesOK
<1> QED BY <1>1, <1>2, <1>3, <1>4, <1>5, <1>6, <1>7, <1>8, FastDFSRuns, TypeCorrect,
           ManagerInvariant, MailIsSentOnce, PTL DEF CallsSpec
=============================================================================
