--------------------------------- MODULE Codecs ---------------------------------
(***************************************************************************)
(* The code that gives data another form and takes it back: rows           *)
(* (OdbDatabase), bytes (MessageObjects, RpcCalls) and lines of text       *)
(* (M3U8Playlist), composed.  They share no state in the program: a        *)
(* behaviour picks one of them and stays with it.                          *)
(***************************************************************************)
EXTENDS OdbDatabase, ProtoMessages

CONSTANTS
    Texts, Ages, Scores, Keys, Foreign, MaxScores, MaxSteps,  \* MessageObjects
    Issued, Addends, Attempts,                                \* RpcCalls
    Files, Old, Bases, MaxLines                               \* M3U8Playlist

\* What a field of a kind is sent as.
Text == [size : Nat, utf8 : BOOLEAN]

Fits(kind, type, payload) ==
    CASE kind = "string" -> payload \in Text
      [] kind = "int32"  -> payload \in Int
      [] kind = "floats" -> IF type = "fixed32" THEN payload \in Int ELSE payload \in Seq(Int)
      [] kind = "map"    -> payload.value \in Text

\* Fields have values of their types, and records of a known number and wire type payloads
\* of the kind; a float is one of some numbers.
ASSUME CodecsAssumption ==
    /\ Texts \subseteq Text
    /\ Ages \subseteq -IntLimit..(IntLimit - 1) /\ Scores \subseteq Int
    /\ \A r \in Foreign : Known(person, r[1]) => Fits(person[r[1][1]], r[1][2], r[2])
    /\ Addends \subseteq -IntLimit..(IntLimit - 1) /\ Attempts \in Nat

VARIABLES
    component,                                   \* the one that runs
    object, wire, parsed, did,                   \* MessageObjects
    service, request, attempt, net, jobs, ended, \* RpcCalls
    text, parser, read, lines                    \* M3U8Playlist

messageVars  == <<object, wire, parsed, did>>
rpcVars      == <<service, request, attempt, net, jobs, ended>>
playlistVars == <<text, parser, read, lines>>
codecsVars   == <<component, vars, messageVars, rpcVars, playlistVars>>

Messages == INSTANCE MessageObjects WITH Strings <- Texts
Rpc      == INSTANCE RpcCalls WITH Calls <- Issued, Numbers <- Addends
Playlist == INSTANCE M3U8Playlist

-----------------------------------------------------------------------------
Components == {"OdbDatabase", "MessageObjects", "RpcCalls", "M3U8Playlist"}

CodecsInit ==
    /\ component \in Components
    /\ Init /\ Messages!Init /\ Rpc!Init /\ Playlist!Init

CodecsNext ==
    /\ UNCHANGED component
    /\ \/ component = "OdbDatabase" /\ Next /\ UNCHANGED <<messageVars, rpcVars, playlistVars>>
       \/ /\ component = "MessageObjects" /\ Messages!Next
          /\ UNCHANGED <<vars, rpcVars, playlistVars>>
       \/ component = "RpcCalls" /\ Rpc!Next /\ UNCHANGED <<vars, messageVars, playlistVars>>
       \/ component = "M3U8Playlist" /\ Playlist!Next /\ UNCHANGED <<vars, messageVars, rpcVars>>

CodecsSpec == CodecsInit /\ [][CodecsNext]_codecsVars

-----------------------------------------------------------------------------
\* A message survives serialization and peers that do not know its fields (person).
RoundTrip == Messages!RoundTrip

\* Serialized messages in a row are merged by the parser (person::_InternalParse, MergeFrom).
ConcatenationMerges == Messages!ConcatenationMerges

\* A call's closure runs once and has the answer to its own request (RpcUtil, the stubs).
AnswerIsOwn == Rpc!AnswerIsOwn

\* A regular playlist comes back line by line (M3U8Parser).
PlaylistKept == Playlist!PlaylistKept
=============================================================================
