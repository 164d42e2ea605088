------------------------------ MODULE M3U8Playlist ------------------------------
(***************************************************************************)
(* FFmpegUtil::M3U8Parser (src/src/utils/FFmpegUtil.cpp): a playlist that  *)
(* somebody writes line by line, and a parser that reads it, puts another  *)
(* base in front of its segments and serializes it.                        *)
(*                                                                         *)
(* A line is its kind and, for a URI, a directory and a file name: "m3u"   *)
(* (#EXTM3U), "inf" (#EXTINF), "end" (#EXT-X-ENDLIST), "tag", "uri" and    *)
(* "blank".                                                                *)
(***************************************************************************)
EXTENDS Naturals, Sequences, SequencesExt

CONSTANTS Files,     \* file names of segments
          Old,       \* the directory they are written with
          Bases,     \* what ApplyBaseURL is called with
          MaxLines   \* bound on the lines that are written

VARIABLES
    text,      \* the playlist that is written
    parser,    \* M3U8Parser
    read,      \* the parser was given this text last
    lines      \* number of lines written, of all playlists

vars == <<text, parser, read, lines>>

Line(kind, dir, file) == [kind |-> kind, dir |-> dir, file |-> file]

Lines == {Line(k, "", "") : k \in {"m3u", "inf", "end", "tag", "blank"}}
             \cup {Line("uri", Old, f) : f \in Files}

Empty == [headers |-> <<>>, segments |-> <<>>, endlist |-> FALSE, ok |-> FALSE]

Init == text = <<>> /\ parser = Empty /\ read = FALSE /\ lines = 0

-----------------------------------------------------------------------------
AddLine(clean, line) == IF line.kind = "blank" THEN clean ELSE Append(clean, line)

CleanAndSplit(all) == FoldLeft(AddLine, <<>>, all)

\* Mutant: what the parser had of another playlist stays.
Cleared_Flag(p) == [p EXCEPT !.endlist = FALSE]

Cleared(p) == Empty

\* One line.  After an #EXTINF comes its segment, whatever it says.
ParseLine(p, line) ==
    IF p.inf THEN [p EXCEPT !.inf = FALSE, !.segments = Append(@, line)]
    ELSE CASE line.kind = "end" -> [p EXCEPT !.endlist = TRUE]
           [] line.kind = "inf" -> [p EXCEPT !.inf = TRUE]
           [] OTHER -> [p EXCEPT !.headers = Append(@, line)]

\* What a parser in state p makes of a text.  An #EXTINF at the end has no segment.
Parsed(p, all) ==
    LET clean == CleanAndSplit(all)
        start == [inf |-> FALSE, headers |-> p.headers, segments |-> p.segments,
                  endlist |-> p.endlist]
        end   == FoldLeft(ParseLine, start, clean)
    IN IF clean = <<>> \/ Head(clean).kind # "m3u" THEN [p EXCEPT !.ok = FALSE]
       ELSE [headers |-> end.headers, segments |-> end.segments, endlist |-> end.endlist,
             ok |-> TRUE]

ParseString ==
    /\ parser' = Parsed(Cleared(parser), text)
    /\ read' = TRUE
    /\ UNCHANGED <<text, lines>>

Inf == Line("inf", "", "")

Serialized(p) ==
    p.headers
        \o FlattenSeq([i \in DOMAIN p.segments |-> <<Inf, p.segments[i]>>])
        \o (IF p.endlist THEN <<Line("end", "", "")>> ELSE <<>>)

Serialize ==
    /\ text' = Serialized(parser)
    /\ read' = FALSE
    /\ UNCHANGED <<parser, lines>>

\* What follows the last slash, behind the prefix.
Rebased(line, prefix) == [line EXCEPT !.dir = prefix]

ApplyBaseURL ==
    \E prefix \in Bases :
        /\ parser' = [parser EXCEPT !.segments =
                         [i \in DOMAIN @ |-> Rebased(@[i], prefix)]]
        /\ UNCHANGED <<text, read, lines>>

-----------------------------------------------------------------------------
\* The writer: HLS playlists grow while they are read.
Write ==
    /\ lines < MaxLines /\ lines' = lines + 1
    /\ \E l \in Lines : text' = Append(text, l)
    /\ read' = FALSE
    /\ UNCHANGED parser

Anew == text' = <<>> /\ read' = FALSE /\ UNCHANGED <<parser, lines>>

Next == ParseString \/ Serialize \/ ApplyBaseURL \/ Write \/ Anew

Spec == Init /\ [][Next]_vars

-----------------------------------------------------------------------------
\* The playlists that can be kept as they are: the tags before the first segment, each
\* #EXTINF with its URI, the end last.
Regular(all) ==
    LET infs == {i \in DOMAIN all : all[i].kind = "inf"}
    IN /\ all # <<>> /\ all[1].kind = "m3u"
       /\ \A i \in DOMAIN all :
              /\ all[i].kind = "uri" <=> i > 1 /\ i - 1 \in infs
              /\ i \in infs => i < Len(all)
              /\ all[i].kind \in {"m3u", "tag"} => \A j \in infs : i < j
              /\ all[i].kind = "end" => i = Len(all)

Plain(all) == [i \in DOMAIN all |-> [all[i] EXCEPT !.dir = ""]]

\* A regular playlist comes back line by line, but for the directories of its segments,
\* whatever the parser read before; and what the parser writes of any playlist, regular or
\* not, is read as the same headers, segments and end.
PlaylistKept ==
    /\ read /\ Regular(CleanAndSplit(text)) =>
           parser.ok /\ Plain(Serialized(parser)) = Plain(CleanAndSplit(text))
    /\ parser.ok => Parsed(Empty, Serialized(parser)) = parser
=============================================================================
