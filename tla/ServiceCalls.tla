------------------------------ MODULE ServiceCalls ------------------------------
(***************************************************************************)
(* The clients of external services whose calls return an outcome:         *)
(* FastDFSClient, ServiceManager, RedisCalls, MailUpload and HlsRemux,     *)
(* composed.  They share no state in the program, so that their            *)
(* interleavings say nothing new: a behaviour picks one of them and stays  *)
(* with it.                                                                *)
(***************************************************************************)
EXTENDS FastDFSClient, Integers, FiniteSets

CONSTANTS
    Services, Addrs, Malformed, NoAddr, Wrap,                   \* ServiceManager
    Keys, Values, Ttls, Absent, Yes, No, PoolSize, MaxCommands, \* RedisCalls
    Addresses, Lengths, MaxBuffer, MaxSends,                    \* MailUpload
    Streams, MaxPackets, MaxRuns                                \* HlsRemux

\* A uint32_t has a value, no value is none, streams are counted, and sizes and bounds are
\* natural numbers.
ASSUME ServiceAssumption ==
    /\ Wrap \in Nat \ {0}
    /\ Absent \notin Values /\ PoolSize \in Nat /\ MaxCommands \in Nat
    /\ Lengths \subseteq Nat /\ MaxBuffer \in Nat /\ MaxSends \in Nat
    /\ IsFiniteSet(Streams) /\ Streams = 1..Cardinality(Streams) /\ MaxRuns \in Nat

VARIABLES
    component,                                                        \* the one that runs
    map, channels, index, op, answer, recent,                         \* ServiceManager
    store, expiring, command, reply, late, told, made,                \* RedisCalls
    step, to, refused, length, offset, uploaded, taken, sent, sends,  \* MailUpload
    stage, streams, held, reading, muxed, trailer, remuxed, exit, context, progress, runs
                                                                      \* HlsRemux

managerVars == <<map, channels, index, op, answer, recent>>
redisVars   == <<store, expiring, command, reply, late, told, made>>
mailVars    == <<step, to, refused, length, offset, uploaded, taken, sent, sends>>
remuxerVars == <<stage, streams, held, reading, muxed, trailer, remuxed, exit, context, progress,
                 runs>>
callsVars   == <<component, vars, managerVars, redisVars, mailVars, remuxerVars>>

Manager == INSTANCE ServiceManager
Redis   == INSTANCE RedisCalls
Mail    == INSTANCE MailUpload WITH answer <- sent
Remuxer == INSTANCE HlsRemux WITH pc <- stage, written <- muxed, result <- remuxed

-----------------------------------------------------------------------------
Components == {"FastDFSClient", "ServiceManager", "RedisCalls", "MailUpload", "HlsRemux"}

CallsInit ==
    /\ component \in Components
    /\ Init /\ Manager!Init /\ Redis!Init /\ Mail!Init /\ Remuxer!Init

CallsNext ==
    /\ UNCHANGED component
    /\ \/ /\ component = "FastDFSClient" /\ Next
          /\ UNCHANGED <<managerVars, redisVars, mailVars, remuxerVars>>
       \/ /\ component = "ServiceManager" /\ Manager!Next
          /\ UNCHANGED <<vars, redisVars, mailVars, remuxerVars>>
       \/ /\ component = "RedisCalls" /\ Redis!Next
          /\ UNCHANGED <<vars, managerVars, mailVars, remuxerVars>>
       \/ /\ component = "MailUpload" /\ Mail!Next
          /\ UNCHANGED <<vars, managerVars, redisVars, remuxerVars>>
       \/ /\ component = "HlsRemux" /\ Remuxer!Next
          /\ UNCHANGED <<vars, managerVars, redisVars, mailVars>>

CallsSpec == CallsInit /\ [][CallsNext]_callsVars

-----------------------------------------------------------------------------
\* The type invariant of each component.
TypesOK == TypeOK /\ Manager!TypeOK /\ Redis!TypeOK /\ Mail!TypeOK /\ Remuxer!TypeOK

\* Round robin among the addresses of a service (Channels::select).
RoundRobin == Manager!RoundRobin

\* Each two-step operation on the registry is as if it took effect at once (ServiceManager).
LinearizableRegistry == Manager!LinearizableRegistry

\* What RedisClient does not answer with "no" is what the server did for the call.
YesIsTrue == Redis!YesIsTrue

\* A send that returned true mailed the whole payload once (SMTPClient::send).
MailedOnce == Mail!MailedOnce

\* A Remux that returned true is whole, one that failed left nothing behind (HLSSegmenter).
RemuxIsWhole == Remuxer!RemuxIsWhole
=============================================================================
