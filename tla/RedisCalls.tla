------------------------------- MODULE RedisCalls -------------------------------
(***************************************************************************)
(* RedisUtil::RedisClient (src/src/utils/RedisUtil.cpp): threads that      *)
(* share a client make get, set, del and exists calls; each is one command *)
(* on a connection of the pool, and an error or a time-out becomes the     *)
(* answer "no".                                                            *)
(*                                                                         *)
(* External: redis++ and the server.  A call waits for a connection; a     *)
(* connection that timed out is closed, and what was sent on it may still  *)
(* be executed later, after commands on a newer connection.                *)
(***************************************************************************)
EXTENDS Integers, FiniteSets

CONSTANTS Threads, Keys, Values,
          Ttls,       \* those set is called with: negative (-1), 0 for none, or positive
          Absent,     \* no value under the key
          Yes,        \* true
          No,         \* false, nullopt, and no reply yet
          PoolSize,
          MaxCommands \* bound on the calls

VARIABLES
    store,     \* what the server has under each key
    expiring,  \* the keys set with a time to live
    command,   \* what each thread waits for, or Idle
    reply,     \* what the server did for it: a witness of its execution
    late,      \* commands of closed connections the server has not seen yet
    told,      \* what the last call of each thread was, returned, and rests on
    made       \* number of calls

vars == <<store, expiring, command, reply, late, told, made>>

Idle == [op |-> "none"]

Commands ==
    [op : {"get", "del", "exists"}, key : Keys]
        \cup [op : {"set"}, key : Keys, value : Values, ttl : Ttls]

Init ==
    /\ store = [k \in Keys |-> Absent] /\ expiring = {}
    /\ command = [t \in Threads |-> Idle]
    /\ reply = [t \in Threads |-> No]
    /\ late = {} /\ made = 0
    /\ told = [t \in Threads |-> [cmd |-> Idle, answer |-> No, reply |-> No]]

Tell(t, cmd, answer) ==
    told' = [told EXCEPT ![t] = [cmd |-> cmd, answer |-> answer, reply |-> reply[t]]]

\* A negative ttl takes neither branch of set, which goes on to its end.
SetNothing ==
    \E t \in Threads, cmd \in Commands :
        /\ command[t] = Idle /\ made < MaxCommands /\ made' = made + 1
        /\ cmd.op = "set" /\ cmd.ttl < 0
        /\ told' = [told EXCEPT ![t] = [cmd |-> cmd, answer |-> Yes, reply |-> No]]
        /\ UNCHANGED <<store, expiring, command, reply, late>>

\* get, set, del, exists: a connection is taken and the command is sent.
Send ==
    \E t \in Threads, cmd \in Commands :
        /\ command[t] = Idle /\ made < MaxCommands /\ made' = made + 1
        /\ Cardinality({u \in Threads : command[u] # Idle}) < PoolSize
        /\ cmd.op = "set" => cmd.ttl >= 0
        /\ command' = [command EXCEPT ![t] = cmd]
        /\ reply' = [reply EXCEPT ![t] = No]
        /\ UNCHANGED <<store, expiring, late, told>>

-----------------------------------------------------------------------------
(* The server.                                                             *)

Executed(cmd) ==
    CASE cmd.op = "set"    -> Yes
      [] cmd.op = "get"    -> store[cmd.key]
      [] cmd.op = "del"    -> IF store[cmd.key] # Absent THEN 1 ELSE 0
      [] cmd.op = "exists" -> IF store[cmd.key] # Absent THEN 1 ELSE 0

Effect(cmd) ==
    /\ store' = CASE cmd.op = "set" -> [store EXCEPT ![cmd.key] = cmd.value]
                  [] cmd.op = "del" -> [store EXCEPT ![cmd.key] = Absent]
                  [] OTHER -> store
    /\ expiring' = CASE cmd.op = "set" /\ cmd.ttl > 0 -> expiring \cup {cmd.key}
                     [] cmd.op \in {"set", "del"} -> expiring \ {cmd.key}
                     [] OTHER -> expiring

Execute ==
    \E t \in Threads :
        /\ command[t] # Idle /\ reply[t] = No
        /\ Effect(command[t])
        /\ reply' = [reply EXCEPT ![t] = <<Executed(command[t])>>]
        /\ UNCHANGED <<command, late, told, made>>

ExecuteLate ==
    \E cmd \in late :
        /\ Effect(cmd)
        /\ late' = late \ {cmd}
        /\ UNCHANGED <<command, reply, told, made>>

Expire ==
    \E k \in expiring :
        /\ store' = [store EXCEPT ![k] = Absent]
        /\ expiring' = expiring \ {k}
        /\ UNCHANGED <<command, reply, late, told, made>>

-----------------------------------------------------------------------------
\* What a call makes of the reply.
Answer(cmd, r) ==
    CASE cmd.op = "set" -> Yes
      [] cmd.op = "get" -> IF r = Absent THEN No ELSE r
      [] OTHER -> IF r > 0 THEN Yes ELSE No

Return ==
    \E t \in Threads :
        /\ reply[t] # No
        /\ Tell(t, command[t], Answer(command[t], reply[t][1]))
        /\ command' = [command EXCEPT ![t] = Idle]
        /\ reply' = [reply EXCEPT ![t] = No]
        /\ UNCHANGED <<store, expiring, late, made>>

\* Mutant: the catch of set falls through to its return true.
Caught_Yes(cmd) == IF cmd.op = "set" THEN Yes ELSE No

Caught(cmd) == No

\* TimeoutError or Error, before or after the server executed the command.
Throw ==
    \E t \in Threads :
        /\ command[t] # Idle
        /\ Tell(t, command[t], Caught(command[t]))
        /\ late' \in {late} \cup (IF reply[t] = No THEN {late \cup {command[t]}} ELSE {})
        /\ command' = [command EXCEPT ![t] = Idle]
        /\ reply' = [reply EXCEPT ![t] = No]
        /\ UNCHANGED <<store, expiring, made>>

Next == SetNothing \/ Send \/ Execute \/ ExecuteLate \/ Expire \/ Return \/ Throw

Spec == Init /\ [][Next]_vars

-----------------------------------------------------------------------------
TypeOK ==
    /\ store \in [Keys -> Values \cup {Absent}]
    /\ expiring \subseteq {k \in Keys : store[k] # Absent}
    /\ command \in [Threads -> Commands \cup {Idle}]
    /\ Cardinality({t \in Threads : command[t] # Idle}) <= PoolSize
    /\ late \subseteq Commands /\ made <= MaxCommands

\* An answer other than "no" is what the server did for this very call: the value was there,
\* the key was there, the key was removed, the value was stored.  Only the set with a negative
\* ttl answers without asking.  ("No" says nothing: the command may have been executed, or be
\* executed later.)
YesIsTrue ==
    \A t \in Threads :
        LET c == told[t].cmd
            r == told[t].reply
        IN told[t].answer # No /\ ~(c.op = "set" /\ c.ttl < 0) =>
               /\ r # No
               /\ c.op = "get" => r = <<told[t].answer>> /\ told[t].answer # Absent
               /\ c.op \in {"del", "exists"} => r = <<1>>
=============================================================================
