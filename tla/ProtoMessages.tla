----------------------------- MODULE ProtoMessages -----------------------------
(***************************************************************************)
(* What the classes protoc generated do with a message                     *)
(* (src/example/protobuf/test.pb.cc, src/example-utils/RpcUtil/            *)
(* calculator.pb.cc): clear, merge, parse and serialize.  The classes      *)
(* differ in their fields only, so the operators take the fields of a      *)
(* class, the kind of each at its number; they follow `person`, which has  *)
(* every kind.                                                             *)
(*                                                                         *)
(* A wire is a sequence of <<<<number, type>>, payload>>, a tag and what   *)
(* follows it.  A string is its size and whether it is UTF-8.  A record of *)
(* type "cut" ends before its payload does.  Two classes that use one      *)
(* number for different kinds use different wire types for it.             *)
(***************************************************************************)
EXTENDS Integers, Sequences, SequencesExt

CONSTANT IntLimit  \* an int32 is in -IntLimit..(IntLimit - 1): 2^31 in the code

ASSUME IntAssumption == IntLimit \in Nat \ {0}

\* The fields of the classes.
person        == <<"string", "int32", "string", "floats", "map">>
HelloRequest  == <<"string">>
HelloResponse == <<"string">>
AddRequest    == <<"int32", "int32">>
AddResponse   == <<"int32">>

\* The value of a field of each kind in a new message; proto3 does not send it.
Default == [string |-> [size |-> 0, utf8 |-> TRUE], int32 |-> 0, floats |-> <<>>, map |-> <<>>]

WireType == [string |-> "len", int32 |-> "varint", floats |-> "len", map |-> "len"]

\* An int32 of what the varint says.
Int32(n) == ((n + IntLimit) % (2 * IntLimit)) - IntLimit

New(class) == [fields |-> [n \in DOMAIN class |-> Default[class[n]]], unknown |-> <<>>]

-----------------------------------------------------------------------------
(* _InternalParse                                                          *)

Known(class, tag) ==
    /\ tag[1] \in DOMAIN class
    /\ \/ tag[2] = WireType[class[tag[1]]]
       \/ class[tag[1]] = "floats" /\ tag[2] = "fixed32"

\* VerifyUTF8, and ValidateValue of the map entry.
Verified(kind, payload) ==
    /\ kind = "string" => payload.utf8
    /\ kind = "map" => payload.value.utf8

\* Mutant: the scores that come replace those that are there.
AddScores_Replaces(old, type, payload) == IF type = "fixed32" THEN <<payload>> ELSE payload

\* Packed, or one at a time.
AddScores(old, type, payload) == old \o (IF type = "fixed32" THEN <<payload>> ELSE payload)

\* The entries of both maps, the new one's where they have a key in common.
Over(new, old) ==
    [k \in DOMAIN new \cup DOMAIN old |-> IF k \in DOMAIN new THEN new[k] ELSE old[k]]

Entry(key, value) == [k \in {key} |-> value]

Read(kind, old, type, payload) ==
    CASE kind = "string" -> payload
      [] kind = "int32"  -> Int32(payload)
      [] kind = "floats" -> AddScores(old, type, payload)
      [] kind = "map"    -> Over(Entry(payload.key, payload.value), old)

\* Mutant: what the class does not know is skipped.
Keep_Skips(message, r) == message

Keep(message, r) == [message EXCEPT !.unknown = Append(@, r)]

\* One record: a field of the class, the end of a group, or a field to be kept as it is.
ParseRecord(class, p, r) ==
    LET tag == r[1]
    IN IF p.status # "parsing" THEN p
       ELSE CASE Known(class, tag) ->
                     [p EXCEPT !.message.fields[tag[1]] = Read(class[tag[1]], @, tag[2], r[2]),
                               !.status = IF Verified(class[tag[1]], r[2]) THEN @ ELSE "failed"]
              [] tag[2] = "cut" -> [p EXCEPT !.status = "failed"]
              [] tag[2] = "end_group" -> [p EXCEPT !.status = "ended"]
              [] OTHER -> [p EXCEPT !.message = Keep(@, r)]

MergeFromWire(class, message, wire) ==
    FoldLeft(LAMBDA p, r : ParseRecord(class, p, r),
             [message |-> message, status |-> "parsing"], wire)

\* ParseFromString: into a cleared message, all of the wire.  What failed leaves a part of it.
Parse(class, wire) ==
    LET p == MergeFromWire(class, New(class), wire)
    IN [message |-> p.message, ok |-> p.status = "parsing"]

-----------------------------------------------------------------------------
(* _InternalSerialize                                                      *)

\* The records of one field.  The entries of a map go in the order of the keys given.
Records(kind, n, value, keys) ==
    LET payloads == IF value = Default[kind] THEN <<>>
                    ELSE IF kind = "map"
                    THEN [i \in DOMAIN keys |-> [key |-> keys[i], value |-> value[keys[i]]]]
                    ELSE <<value>>
    IN [i \in DOMAIN payloads |-> <<<<n, WireType[kind]>>, payloads[i]>>]

Orders(class, message) ==
    LET maps == {n \in DOMAIN class : class[n] = "map"}
    IN SetToSeqs(UNION {DOMAIN message.fields[n] : n \in maps})

\* The wires a message may become: those of its fields, by number, and the unknown ones.
Serialize(class, message) ==
    {FlattenSeq([n \in DOMAIN class |-> Records(class[n], n, message.fields[n], keys)])
        \o message.unknown : keys \in Orders(class, message)}

-----------------------------------------------------------------------------
(* MergeFrom and CopyFrom                                                  *)

MergeField(kind, old, new) ==
    CASE kind = "floats" -> old \o new
      [] kind = "map" -> Over(new, old)
      [] OTHER -> IF new = Default[kind] THEN old ELSE new

Merge(class, message, from) ==
    [fields  |-> [n \in DOMAIN class |->
                     MergeField(class[n], message.fields[n], from.fields[n])],
     unknown |-> message.unknown \o from.unknown]

Copy(class, from) == Merge(class, New(class), from)
=============================================================================
