----------------------------- MODULE FastDFSClient -----------------------------
(***************************************************************************)
(* FastDFSUtil::FastDFSClient (src/src/utils/FastDFSUtil.cpp): static      *)
(* operations, called by any thread, on one process-wide FastDFS client.   *)
(* Initialize and Destory hold a mutex; the transfers read _isInitialized  *)
(* without it, open a tracker connection, make one library call and close  *)
(* the connection on whatever exit they take.                              *)
(*                                                                         *)
(* External, modelled from how the code uses it: init_from_buffer and      *)
(* destroy create and free the client; the storage numbers the files it    *)
(* takes in; a request that fails may have been executed; a download that  *)
(* fails hands over no buffer, but leaves the local file it was to write   *)
(* untouched, cut short or removed; one that succeeds hands over a buffer  *)
(* for the caller to free, and none for an empty file.  A library call on  *)
(* a client that was destroyed is undefined: here it ends like one on a    *)
(* living client, or the process does; GuardedUse says when it can happen. *)
(***************************************************************************)
EXTENDS Naturals, Sequences

CONSTANTS Threads,
          Contents, Empty,   \* what a file may hold, and the file of no bytes
          Old,               \* what the caller's output buffer, or local file, held before
          Spoilt,            \* a local file that was cut short or removed
          Nobody,            \* the mutex is free
          MaxFiles,          \* bound on the files stored
          MaxCalls,          \* bound on the calls, altogether
          Operations         \* those the threads make

Transfers == {"UploadFile", "UploadBuffer", "DownloadFile", "DownloadBuffer", "DeleteFile"}
Uploads   == {"UploadFile", "UploadBuffer"}

ASSUME FastDFSAssumption ==
    /\ Empty \in Contents /\ Old \notin Contents /\ Spoilt \notin Contents \cup {Old}
    /\ Nobody \notin Threads
    /\ MaxFiles \in Nat /\ MaxCalls \in Nat
    /\ Operations \subseteq Transfers \cup {"Initialize", "Destory"}

NoFile == 0   \* the empty identifier

VARIABLES
    isInitialized,  \* _isInitialized
    mutex,          \* who holds _initializationMutex
    clients,        \* library: clients created and not destroyed
    connections,    \* library: the threads with a tracker connection
    buffers,        \* library: the threads that were handed a buffer not freed yet
    written,        \* storage: what was written to each file, in order
    files,          \* storage: the files that are there
    pc,             \* where each thread is
    call,           \* the call it makes, or the last it made
    code,           \* the library call succeeded
    identifier,     \* generatedFileIdentifier
    output,         \* the caller's output buffer, or the file on the local disk
    result,         \* what the last call of the thread returned
    calls,          \* calls made so far
    overtaken       \* history: the transfers under way when a Destory returned

sharedVars  == <<isInitialized, mutex, clients>>
libraryVars == <<connections, buffers>>
storageVars == <<written, files>>
localVars   == <<call, code, identifier, output, result>>
vars == <<sharedVars, libraryVars, storageVars, localVars, pc, calls, overtaken>>

Labels == {"idle", "lock", "locked", "create", "destroy", "set",
           "check", "connect", "transfer", "finish"}
Calls == [op : Operations \cup {"none"}, content : Contents, file : 0..MaxFiles]
Number == Len(written)

ThreadTypeOK ==
    /\ pc \in [Threads -> Labels] /\ call \in [Threads -> Calls]
    /\ code \in [Threads -> BOOLEAN] /\ result \in [Threads -> BOOLEAN]
    /\ calls \in 0..MaxCalls /\ overtaken \subseteq Threads

ClientTypeOK ==
    /\ isInitialized \in BOOLEAN /\ mutex \in Threads \cup {Nobody}
    /\ clients \in 0..1
    /\ connections \subseteq Threads /\ buffers \subseteq Threads

StorageTypeOK ==
    /\ written \in Seq(Contents) /\ Number <= MaxFiles
    /\ files \subseteq 1..Number
    /\ identifier \in [Threads -> 0..Number]
    /\ output \in [Threads -> Contents \cup {Old, Spoilt}]

TypeOK == ThreadTypeOK /\ ClientTypeOK /\ StorageTypeOK

Init ==
    /\ isInitialized = FALSE /\ mutex = Nobody /\ clients = 0
    /\ connections = {} /\ buffers = {}
    /\ written = <<>> /\ files = {}
    /\ pc = [t \in Threads |-> "idle"]
    /\ call = [t \in Threads |-> [op |-> "none", content |-> Empty, file |-> NoFile]]
    /\ code = [t \in Threads |-> FALSE] /\ result = [t \in Threads |-> FALSE]
    /\ identifier = [t \in Threads |-> NoFile]
    /\ output = [t \in Threads |-> Old]
    /\ calls = 0 /\ overtaken = {}

-----------------------------------------------------------------------------
Goto(t, label) == pc' = [pc EXCEPT ![t] = label]
Return(t, value) == Goto(t, "idle") /\ result' = [result EXCEPT ![t] = value]

\* Uploads carry a content, the others the identifier of a file there was.
Arguments(op) ==
    IF op \in Uploads THEN Contents \X {NoFile}
    ELSE IF op \in Transfers THEN {Empty} \X DOMAIN written
    ELSE {<<Empty, NoFile>>}

Call(t) ==
    /\ pc[t] = "idle"
    /\ calls < MaxCalls
    /\ calls' = calls + 1
    /\ \E op \in Operations : \E a \in Arguments(op) :
           /\ call' = [call EXCEPT ![t] = [op |-> op, content |-> a[1], file |-> a[2]]]
           /\ Goto(t, IF op \in Transfers THEN "check" ELSE "lock")
    /\ identifier' = [identifier EXCEPT ![t] = NoFile]
    /\ output' = [output EXCEPT ![t] = Old]
    /\ overtaken' = overtaken \ {t}
    /\ UNCHANGED <<sharedVars, libraryVars, storageVars, code, result>>

-----------------------------------------------------------------------------
(* Initialize and Destory.                                                 *)

\* Mutant: no lock_guard.
Free_Always == TRUE

Free == mutex = Nobody

Lock(t) ==
    /\ pc[t] = "lock"
    /\ Free
    /\ mutex' = t
    /\ Goto(t, "locked")
    /\ UNCHANGED <<isInitialized, clients, libraryVars, storageVars, localVars, calls, overtaken>>

Unlocked == Nobody

\* A second Initialize is true, a second Destory does nothing.
Locked(t) ==
    LET wanted == call[t].op = "Initialize"
    IN /\ pc[t] = "locked"
       /\ IF isInitialized = wanted
          THEN Return(t, wanted) /\ mutex' = Unlocked
          ELSE Goto(t, IF wanted THEN "create" ELSE "destroy") /\ UNCHANGED <<result, mutex>>
       /\ UNCHANGED <<isInitialized, clients, libraryVars, storageVars, call, code, identifier,
                      output, calls, overtaken>>

\* fdfs_client_init_from_buffer
Create(t) ==
    /\ pc[t] = "create"
    /\ \/ /\ clients' = clients + 1
          /\ Goto(t, "set")
          /\ UNCHANGED <<result, mutex>>
       \/ /\ Return(t, FALSE)
          /\ mutex' = Nobody
          /\ UNCHANGED clients
    /\ UNCHANGED <<isInitialized, libraryVars, storageVars, call, code, identifier, output,
                   calls, overtaken>>

\* fdfs_client_destroy
Destroy(t) ==
    /\ pc[t] = "destroy"
    /\ clients' = clients - 1
    /\ Goto(t, "set")
    /\ UNCHANGED <<isInitialized, mutex, libraryVars, storageVars, localVars, calls, overtaken>>

Flag(t) == call[t].op = "Initialize"

UsingClient == {t \in Threads : pc[t] \in {"connect", "transfer"}}

Set(t) ==
    /\ pc[t] = "set"
    /\ isInitialized' = Flag(t)
    /\ overtaken' = IF call[t].op = "Destory" THEN overtaken \cup UsingClient ELSE overtaken
    /\ Return(t, TRUE)
    /\ mutex' = Nobody
    /\ UNCHANGED <<clients, libraryVars, storageVars, call, code, identifier, output, calls>>

-----------------------------------------------------------------------------
(* The transfers.                                                          *)

\* Mutant: the flag is not tested.
Ready_Always == TRUE

Ready == isInitialized

\* UploadBuffer refuses an empty buffer, UploadFile takes an empty file.
Check(t) ==
    /\ pc[t] = "check"
    /\ IF Ready /\ ~(call[t].op = "UploadBuffer" /\ call[t].content = Empty)
       THEN Goto(t, "connect") /\ UNCHANGED result
       ELSE Return(t, FALSE)
    /\ UNCHANGED <<sharedVars, libraryVars, storageVars, call, code, identifier, output, calls,
                   overtaken>>

\* tracker_get_connection, and the guard that will close what it returns.
Connect(t) ==
    /\ pc[t] = "connect"
    /\ \/ /\ connections' = connections \cup {t}
          /\ Goto(t, "transfer")
          /\ UNCHANGED result
       \/ /\ Return(t, FALSE)
          /\ UNCHANGED connections
    /\ UNCHANGED <<sharedVars, buffers, storageVars, call, code, identifier, output, calls,
                   overtaken>>

\* storage_upload_by_filename1, storage_upload_by_filebuff1
Upload(t) ==
    /\ call[t].op \in Uploads
    /\ \/ /\ Number < MaxFiles
          /\ written' = Append(written, call[t].content)
          /\ files' = files \cup {Number + 1}
          /\ \/ code' = [code EXCEPT ![t] = TRUE]
                /\ identifier' = [identifier EXCEPT ![t] = Number + 1]
             \/ code' = [code EXCEPT ![t] = FALSE] /\ UNCHANGED identifier
       \/ /\ code' = [code EXCEPT ![t] = FALSE]
          /\ UNCHANGED <<storageVars, identifier>>
    /\ UNCHANGED <<buffers, output>>

\* storage_download_file_to_file1 writes the local file by itself, storage_download_file1 into
\* a buffer of its own, so that DownloadBuffer has its output still to assign.
Download(t) ==
    LET file == call[t].file
    IN /\ call[t].op \in {"DownloadFile", "DownloadBuffer"}
       /\ \/ /\ file \in files
             /\ code' = [code EXCEPT ![t] = TRUE]
             /\ IF call[t].op = "DownloadFile"
                THEN output' = [output EXCEPT ![t] = written[file]] /\ UNCHANGED buffers
                ELSE /\ buffers' = IF written[file] = Empty THEN buffers ELSE buffers \cup {t}
                     /\ UNCHANGED output
          \/ /\ code' = [code EXCEPT ![t] = FALSE]
             /\ \/ UNCHANGED output
                \/ /\ call[t].op = "DownloadFile"
                   /\ output' = [output EXCEPT ![t] = Spoilt]
             /\ UNCHANGED buffers
       /\ UNCHANGED <<storageVars, identifier>>

\* storage_delete_file1
Delete(t) ==
    /\ call[t].op = "DeleteFile"
    /\ \/ /\ call[t].file \in files
          /\ code' = [code EXCEPT ![t] = TRUE]
          /\ files' = files \ {call[t].file}
       \/ /\ code' = [code EXCEPT ![t] = FALSE]
          /\ files' = files \ {call[t].file} \/ UNCHANGED files
    /\ UNCHANGED <<written, buffers, identifier, output>>

Transfer(t) ==
    /\ pc[t] = "transfer"
    /\ Upload(t) \/ Download(t) \/ Delete(t)
    /\ Goto(t, "finish")
    /\ UNCHANGED <<sharedVars, connections, call, result, calls, overtaken>>

\* Mutant: without the guard, the connection is closed where the call succeeded.
Closed_OnSuccess(t) == IF code[t] THEN connections \ {t} ELSE connections

Closed(t) == connections \ {t}

\* Mutant: the return code is not looked at.
Success_Always(t) == TRUE

Success(t) == code[t]

\* DownloadBuffer assigns what it was handed, or clears.
Received(t) == IF t \in buffers THEN written[call[t].file] ELSE Empty

Finish(t) ==
    /\ pc[t] = "finish"
    /\ Return(t, Success(t))
    /\ IF call[t].op = "DownloadBuffer" /\ Success(t)
       THEN output' = [output EXCEPT ![t] = Received(t)] /\ buffers' = buffers \ {t}
       ELSE UNCHANGED <<output, buffers>>
    /\ connections' = Closed(t)
    /\ UNCHANGED <<sharedVars, storageVars, call, code, identifier, calls, overtaken>>

-----------------------------------------------------------------------------
Step(t) ==
    \/ Lock(t) \/ Locked(t) \/ Create(t) \/ Destroy(t) \/ Set(t)
    \/ Check(t) \/ Connect(t) \/ Transfer(t) \/ Finish(t)

Next == \E t \in Threads : Call(t) \/ Step(t)

Spec == Init /\ [][Next]_vars

-----------------------------------------------------------------------------
\* The flag says what the library is in, whenever the mutex is free.
FlagIsTrue == mutex = Nobody => (isInitialized <=> clients = 1)

\* A transfer uses a client that is not there only if a Destory overlaps it.
GuardedUse ==
    clients = 0 => \A t \in UsingClient :
        t \in overtaken \/ \E u \in Threads : pc[u] = "set" /\ call[u].op = "Destory"

\* Whichever exit a call takes, nothing it held stays behind: no tracker connection, no
\* buffer of the library and not the mutex.
NothingHeld ==
    \A t \in Threads : pc[t] = "idle" =>
        t \notin connections /\ t \notin buffers /\ mutex # t

\* What a call reports as done was done: the identifier is that of a file with the bytes that
\* were uploaded, what was deleted is gone, a download replaced the whole output by the file,
\* also by an empty one; and a DownloadBuffer that returns false left the caller's buffer as it
\* was.  (A DownloadFile that returns false may have spoilt the local file.)
DoneIsDone ==
    \A t \in Threads : pc[t] = "idle" =>
        /\ result[t] /\ call[t].op \in Uploads =>
               identifier[t] \in DOMAIN written /\ written[identifier[t]] = call[t].content
        /\ result[t] /\ call[t].op = "DeleteFile" => call[t].file \notin files
        /\ result[t] /\ call[t].op \in {"DownloadFile", "DownloadBuffer"} =>
               output[t] = written[call[t].file]
        /\ ~result[t] /\ call[t].op = "DownloadBuffer" => output[t] = Old
=============================================================================
