-------------------------------- MODULE HlsRemux --------------------------------
(***************************************************************************)
(* FFmpegUtil::HLSSegmenter::Remux (src/src/utils/FFmpegUtil.cpp): the     *)
(* calls it makes of libavformat, in their order, each of which may fail,  *)
(* what it holds at each of its exits, and what it reports.                *)
(*                                                                         *)
(* A packet has a stream and says whether it has a time stamp.  External:  *)
(* libavformat.  An error of av_read_frame looks like the end of the       *)
(* source.  The source adds no streams while it is read.  Rescaling is     *)
(* left out; of the ratios that are reported, only whether one was 1.0.    *)
(***************************************************************************)
EXTENDS Naturals, Sequences, FiniteSets

CONSTANTS Streams,     \* 1..n, those of the source
          MaxPackets,  \* bound on the packets of the source
          MaxRuns      \* bound on the calls of Remux

VARIABLES
    pc,        \* the next call of libavformat, or "returned"
    streams,   \* the streams of the output so far
    held,      \* what was allocated and not freed
    reading,   \* the packets av_read_frame gave
    written,   \* those the muxer took
    trailer,   \* the playlist was ended
    result,    \* what Remux returned
    exit,      \* the line of the code that returned
    context,   \* the run of Remux that _lastErrorContext tells of, 0 for none
    progress,  \* what on_progress was told: at most less than 1.0, 1.0 once, or it is null
    runs

vars == <<pc, streams, held, reading, written, trailer, result, exit, context, progress, runs>>

Owned == {"demuxer", "muxer", "packet"}  \* by a unique_ptr with a deleter that frees it

Init ==
    /\ pc = "returned" /\ streams = {} /\ held = {}
    /\ reading = <<>> /\ written = <<>> /\ trailer = FALSE
    /\ result = FALSE /\ exit = "none" /\ context = 0 /\ progress = "null" /\ runs = 0

Remux ==
    /\ pc = "returned" /\ runs < MaxRuns /\ runs' = runs + 1
    /\ pc' = "open"
    /\ streams' = {} /\ held' = {} /\ reading' = <<>> /\ written' = <<>>
    /\ trailer' = FALSE /\ progress' \in {"null", "less"}
    /\ UNCHANGED <<result, exit, context>>

-----------------------------------------------------------------------------
Freed == Owned

\* A return: the owners on the stack free what they own.
Returns(value, where) ==
    /\ pc' = "returned" /\ result' = value /\ exit' = where
    /\ held' = held \ Freed

\* if(ret < 0): SetErrorContext and a return.
Fails(value, where) ==
    /\ Returns(value, where)
    /\ context' = runs
    /\ UNCHANGED <<streams, reading, written, trailer, progress, runs>>

Goes(next, resources) ==
    /\ pc' = next /\ held' = held \cup resources
    /\ UNCHANGED <<streams, reading, written, trailer, result, exit, context, progress, runs>>

OpenInput == pc = "open" /\ (Fails(FALSE, "open") \/ Goes("info", {"demuxer"}))

FindStreamInfo == pc = "info" /\ (Fails(FALSE, "info") \/ Goes("alloc", {}))

AllocOutput == pc = "alloc" /\ (Fails(FALSE, "alloc") \/ Goes("streams", {"muxer"}))

\* One turn of the loop over the streams.  The return of -1 is true for the caller.
NewStream ==
    /\ pc = "streams" /\ streams # Streams
    /\ \/ Fails(FALSE, "stream")
       \/ Fails(TRUE, "parameters")
       \/ /\ streams' = streams \cup {Cardinality(streams) + 1}
          /\ UNCHANGED <<pc, held, reading, written, trailer, result, exit, context, progress, runs>>

\* The dictionary is released before the call, which frees it unless it fails.
WriteHeader ==
    /\ pc = "streams" /\ streams = Streams
    /\ \/ /\ pc' = "returned" /\ result' = FALSE /\ exit' = "header"
          /\ held' = (held \cup {"options"}) \ Freed
          /\ context' = runs
          /\ UNCHANGED <<streams, reading, written, trailer, progress, runs>>
       \/ Goes("read", {"packet"})

Packets == [stream : Streams, stamped : BOOLEAN]

\* Mutant: a packet without a time stamp is skipped.
Stamped_Skips(p) == IF p.stamped THEN <<p>> ELSE <<>>

\* What is written of a packet: without a time stamp it gets one.
Stamped(p) == <<[p EXCEPT !.stamped = TRUE]>>

\* if(on_progress): it is told 1.0.
Told == IF progress = "null" THEN "null" ELSE "full"

\* The ratio of a packet's time stamp is cut to 1.0 and reported before the packet is written.
ReadFrame ==
    /\ pc = "read" /\ Len(reading) < MaxPackets
    /\ \E p \in Packets :
           /\ reading' = Append(reading, p)
           /\ \/ /\ written' = written \o Stamped(p)
                 /\ UNCHANGED <<pc, held, result, exit, context>>
              \/ /\ Returns(FALSE, "frame") /\ context' = runs
                 /\ UNCHANGED written
    /\ progress' \in {progress, Told}
    /\ UNCHANGED <<streams, trailer, runs>>

\* The end of the source, or an error that looks like it.
EndOfInput == pc = "read" /\ Goes("trailer", {})

WriteTrailer ==
    /\ pc = "trailer"
    /\ \/ Fails(FALSE, "trailer")
       \/ /\ trailer' = TRUE /\ progress' = Told
          /\ Returns(TRUE, "end")
          /\ UNCHANGED <<streams, reading, written, context, runs>>

Next ==
    \/ Remux \/ OpenInput \/ FindStreamInfo \/ AllocOutput \/ NewStream \/ WriteHeader
    \/ ReadFrame \/ EndOfInput \/ WriteTrailer

Spec == Init /\ [][Next]_vars

-----------------------------------------------------------------------------
TypeOK ==
    /\ pc \in {"returned", "open", "info", "alloc", "streams", "read", "trailer"}
    /\ streams \subseteq Streams /\ held \subseteq Owned \cup {"options"}
    /\ result \in BOOLEAN /\ context <= runs /\ runs <= MaxRuns
    /\ progress \in {"null", "less", "full"}

\* A Remux that returned true, except from the exit whose -1 is true for its caller, has
\* written every packet that was read, stamped and in its order, and has ended the playlist,
\* and its listener was told 1.0; one that returned false, whatever its listener was told, has
\* not ended it and tells why, and not why an earlier one failed; and whatever the exit nothing
\* stays allocated but the options of a header that failed.
RemuxIsWhole ==
    pc = "returned" /\ runs > 0 =>
        /\ result /\ exit # "parameters" =>
               /\ trailer /\ streams = Streams /\ progress # "less"
               /\ written = [i \in DOMAIN reading |-> [reading[i] EXCEPT !.stamped = TRUE]]
        /\ ~result => context = runs /\ ~trailer
        /\ held \subseteq (IF exit = "header" THEN {"options"} ELSE {})
=============================================================================
