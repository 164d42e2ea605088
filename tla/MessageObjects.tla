----------------------------- MODULE MessageObjects -----------------------------
(***************************************************************************)
(* Two objects of class person (src/example/protobuf) that an application  *)
(* sets, merges, copies, swaps and serializes, and that parse what they    *)
(* are sent: by each other, or by a peer with another version of the       *)
(* class, and with a peer in between that knows the first field only       *)
(* (HelloRequest, HelloResponse).                                          *)
(*                                                                         *)
(* Without arenas.  Accessors that hand out a pointer (mutable_, release_) *)
(* are taken with what the application does through it: the field has      *)
(* another value.                                                          *)
(***************************************************************************)
EXTENDS ProtoMessages

CONSTANTS Strings,    \* values of the string fields
          Ages, Scores, Keys,
          Foreign,    \* records other peers send
          MaxScores,  \* bound on the scores of an object that are added
          MaxSteps    \* bound on what is done

VARIABLES
    object,   \* the two persons
    wire,     \* what was serialized, or arrived, last
    parsed,   \* what the last parse returned
    did       \* number of steps

vars == <<object, wire, parsed, did>>

Objects == {"p", "q"}

Init ==
    /\ object = [o \in Objects |-> New(person)]
    /\ wire = <<>> /\ parsed = TRUE /\ did = 0

Step == did < MaxSteps /\ did' = did + 1

Becomes(o, message) ==
    /\ Step
    /\ object' = [object EXCEPT ![o] = message]
    /\ UNCHANGED <<wire, parsed>>

SetField(o, n, value) == Becomes(o, [object[o] EXCEPT !.fields[n] = value])

SetName  == \E o \in Objects, s \in Strings : SetField(o, 1, s)
SetAge   == \E o \in Objects, n \in Ages : SetField(o, 2, n)
SetEmail == \E o \in Objects, s \in Strings : SetField(o, 3, s)

AddScore ==
    \E o \in Objects, x \in Scores :
        LET scores == object[o].fields[4]
        IN Len(scores) < MaxScores /\ SetField(o, 4, Append(scores, x))

SetScore ==
    \E o \in Objects, x \in Scores :
        \E i \in DOMAIN object[o].fields[4] :
            SetField(o, 4, [object[o].fields[4] EXCEPT ![i] = x])

PutOther ==
    \E o \in Objects, k \in Keys, s \in Strings :
        SetField(o, 5, Over(Entry(k, s), object[o].fields[5]))

ClearField == \E o \in Objects : \E n \in DOMAIN person : SetField(o, n, Default[person[n]])

Clear == \E o \in Objects : Becomes(o, New(person))

MergeFrom ==
    \E o, from \in Objects : o # from /\ Becomes(o, Merge(person, object[o], object[from]))

CopyFrom == \E o, from \in Objects : o # from /\ Becomes(o, Copy(person, object[from]))

\* Swap, and the assignment from an object that is moved from.
Swap ==
    /\ Step
    /\ object' = [p |-> object["q"], q |-> object["p"]]
    /\ UNCHANGED <<wire, parsed>>

SerializeAsString ==
    \E o \in Objects :
        /\ Step
        /\ wire' \in Serialize(person, object[o])
        /\ UNCHANGED <<object, parsed>>

ParseFromString ==
    \E o \in Objects :
        LET p == Parse(person, wire)
        IN /\ Step
           /\ object' = [object EXCEPT ![o] = p.message]
           /\ parsed' = p.ok
           /\ UNCHANGED wire

\* Another peer appends to what is on its way.
Arrive ==
    /\ Step
    /\ \E r \in Foreign : wire' = Append(wire, r)
    /\ UNCHANGED <<object, parsed>>

Next ==
    \/ SetName \/ SetAge \/ SetEmail \/ AddScore \/ SetScore \/ PutOther \/ ClearField
    \/ Clear \/ MergeFrom \/ CopyFrom \/ Swap \/ SerializeAsString \/ ParseFromString \/ Arrive

Spec == Init /\ [][Next]_vars

-----------------------------------------------------------------------------
(* The peer in between.                                                    *)

RequestParse(w)      == Parse(HelloRequest, w)
RequestSerialize(m)  == Serialize(HelloRequest, m)
ResponseParse(w)     == Parse(HelloResponse, w)
ResponseSerialize(m) == Serialize(HelloResponse, m)

-----------------------------------------------------------------------------
\* Strings that are not UTF-8 can be set, and are serialized, but not parsed.
Sendable(message) ==
    \A n \in DOMAIN person :
        /\ person[n] = "string" => message.fields[n].utf8
        /\ person[n] = "map" => \A k \in DOMAIN message.fields[n] : message.fields[n][k].utf8

\* What is serialized, in any order of the map, is parsed to the same message with its
\* unknown fields, by a person and after two peers that do not know its fields.
RoundTrip ==
    \A o \in Objects : \A w \in Serialize(person, object[o]) :
        IF Sendable(object[o])
        THEN /\ Parse(person, w) = [message |-> object[o], ok |-> TRUE]
             /\ \A v \in RequestSerialize(RequestParse(w).message) :
                \A u \in ResponseSerialize(ResponseParse(v).message) :
                    Parse(person, u) = [message |-> object[o], ok |-> TRUE]
        ELSE ~Parse(person, w).ok

\* One serialized message after the other is parsed to what MergeFrom makes of the two,
\* whatever the order in which their fields are met.
ConcatenationMerges ==
    \A o, from \in Objects :
        Sendable(object[o]) /\ Sendable(object[from]) =>
            \A v \in Serialize(person, object[o]), w \in Serialize(person, object[from]) :
                Parse(person, v \o w).message = Merge(person, object[o], object[from])
=============================================================================
