-------------------------------- MODULE RpcCalls --------------------------------
(***************************************************************************)
(* Asynchronous calls through the generated stub: the client of            *)
(* src/example-utils/RpcUtil/client.cpp with closures of                   *)
(* RpcUtil::ClosureFactory, a server of RpcUtil::RpcServerFactory, and the *)
(* three kinds of service there are: one that answers in the handler       *)
(* (server.cpp), one that answers from a thread of its own                 *)
(* (src/example/brpc/simple/asynService.cpp), and the generated base class *)
(* that implements no method.                                              *)
(*                                                                         *)
(* External: brpc.  It loses packets, sends a request again when its       *)
(* connection broke, fails a call at its time-out, and matches an answer   *)
(* to the call and the attempt it is for.  A sum that overflows, undefined *)
(* for the compiler, wraps as the machine's addition does.                 *)
(***************************************************************************)
EXTENDS ProtoMessages

CONSTANTS Calls,     \* 1..n: the calls of the loop, in its order
          Numbers,   \* what is added
          Attempts   \* bound on the times brpc sends a request: 1 + max_retry

VARIABLES
    service,   \* what the server runs: "none" before RpcServerFactory::create
    request,   \* the AddRequest of each call, New before it is issued
    attempt,   \* the attempt each call is at, 0 before it is issued
    net,       \* packets on their way
    jobs,      \* requests in a handler of the server
    ended      \* what each call's closure found, each time it ran

vars == <<service, request, attempt, net, jobs, ended>>

Packet(kind, c, n, wire) == [kind |-> kind, call |-> c, attempt |-> n, wire |-> wire]

Init ==
    /\ service = "none"
    /\ request = [c \in Calls |-> New(AddRequest)]
    /\ attempt = [c \in Calls |-> 0]
    /\ net = {} /\ jobs = {}
    /\ ended = [c \in Calls |-> <<>>]

-----------------------------------------------------------------------------
(* The server.                                                             *)

\* create, which gives no server when AddService or Start fails.
Create ==
    /\ service = "none"
    /\ service' \in {"sync", "async", "base", "failed"}
    /\ UNCHANGED <<request, attempt, net, jobs, ended>>

Running == service \in {"sync", "async", "base"}

ParseRequest(wire)      == Parse(AddRequest, wire).message
SerializeResponse(m)    == Serialize(AddResponse, m)
Sum(m)                  == Int32(m.fields[1] + m.fields[2])
SetResult(response, n)  == [response EXCEPT !.fields[1] = n]

\* Mutant: the base class runs done without SetFailed.
NotImplemented_Succeeds == "response"

\* What done->Run () sends for a method the base class has.
NotImplemented == "error"

\* A request arrives.  CallMethod hands it to the method of its index, with a new response.
CallMethod ==
    \E p \in net :
        LET m == ParseRequest(p.wire)
        IN /\ p.kind = "request" /\ Running
           /\ \/ /\ service = "sync"
                 /\ \E w \in SerializeResponse(SetResult(New(AddResponse), Sum(m))) :
                        net' = (net \ {p}) \cup {Packet("response", p.call, p.attempt, w)}
                 /\ UNCHANGED jobs
              \/ /\ service = "base"
                 /\ net' = (net \ {p}) \cup {Packet(NotImplemented, p.call, p.attempt, <<>>)}
                 /\ UNCHANGED jobs
              \/ /\ service = "async"
                 /\ net' = net \ {p}
                 /\ jobs' = jobs \cup {[call |-> p.call, attempt |-> p.attempt, request |-> m]}
           /\ UNCHANGED <<service, request, attempt, ended>>

\* The thread of the asynchronous handler, three seconds later.
WorkThread ==
    \E j \in jobs :
        /\ \E w \in SerializeResponse(SetResult(New(AddResponse), Sum(j.request))) :
               net' = net \cup {Packet("response", j.call, j.attempt, w)}
        /\ jobs' = jobs \ {j}
        /\ UNCHANGED <<service, request, attempt, ended>>

-----------------------------------------------------------------------------
(* The client.                                                             *)

Waiting(c) == attempt[c] > 0 /\ ended[c] = <<>>

Send(c, m) ==
    \E w \in Serialize(AddRequest, m) :
        net' = net \cup {Packet("request", c, attempt'[c], w)}

\* One turn of the loop: a controller, a request, a response and a closure, and stub.Add.
Add ==
    \E c \in Calls, a, b \in Numbers :
        LET m == [New(AddRequest) EXCEPT !.fields = <<a, b>>]
        IN /\ attempt[c] = 0 /\ \A d \in Calls : d < c => attempt[d] > 0
           /\ request' = [request EXCEPT ![c] = m]
           /\ attempt' = [attempt EXCEPT ![c] = 1]
           /\ Send(c, m)
           /\ UNCHANGED <<service, jobs, ended>>

\* The connection of an attempt broke, with what was on it: brpc tries again.
Retry ==
    \E c \in Calls :
        /\ Waiting(c) /\ attempt[c] < Attempts
        /\ ~ \E p \in net : p.call = c /\ p.attempt = attempt[c]
        /\ attempt' = [attempt EXCEPT ![c] = @ + 1]
        /\ Send(c, request[c])
        /\ UNCHANGED <<service, request, jobs, ended>>

Lose ==
    /\ \E p \in net : net' = net \ {p}
    /\ UNCHANGED <<service, request, attempt, jobs, ended>>

\* The closure: the callback looks at the controller and at the response.  The objects are
\* deleted when it returns, so it may not run again.
Run(c, outcome) == ended' = [ended EXCEPT ![c] = Append(@, outcome)]

ParseResponse(wire) == Parse(AddResponse, wire).message

Accepted(p) == Waiting(p.call) /\ p.attempt = attempt[p.call]

Answer ==
    \E p \in net :
        /\ p.kind # "request"
        /\ IF ~Accepted(p) THEN UNCHANGED ended
           ELSE IF p.kind = "error" THEN Run(p.call, [failed |-> TRUE, result |-> 0])
           ELSE Run(p.call, [failed |-> FALSE, result |-> ParseResponse(p.wire).fields[1]])
        /\ net' = net \ {p}
        /\ UNCHANGED <<service, request, attempt, jobs>>

Timeout ==
    \E c \in Calls :
        /\ Waiting(c)
        /\ Run(c, [failed |-> TRUE, result |-> 0])
        /\ UNCHANGED <<service, request, attempt, net, jobs>>

Next == Create \/ CallMethod \/ WorkThread \/ Add \/ Retry \/ Lose \/ Answer \/ Timeout

Spec == Init /\ [][Next]_vars

-----------------------------------------------------------------------------
\* The closure of a call runs once, whatever is lost, late or sent twice, and a call that did
\* not fail has the sum of the numbers of its own request, zero included.
AnswerIsOwn ==
    \A c \in Calls :
        /\ Len(ended[c]) <= 1
        /\ \A i \in DOMAIN ended[c] : ~ended[c][i].failed => ended[c][i].result = Sum(request[c])
=============================================================================
