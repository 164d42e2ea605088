--------------------------------- MODULE MCData ---------------------------------
(***************************************************************************)
(* Codecs, for TLC.                                                        *)
(***************************************************************************)
EXTENDS Codecs

\* Strings of different lengths in every object, so that no two columns can be
\* exchanged unseen; some of them longer than a new buffer.
Students ==
    { [student_no |-> 1, class_id |-> 1, name |-> 1, province |-> 2, city |-> 3, street |-> 0,
       entrace_score |-> 6],
      [student_no |-> 1, class_id |-> 2, name |-> 5, province |-> 2, city |-> 1, street |-> 4,
       entrace_score |-> 7],
      [student_no |-> 2, class_id |-> 1, name |-> 2, province |-> 1, city |-> 5, street |-> 3,
       entrace_score |-> 8] }

ClassesSet == { [id |-> 1, name |-> 1], [id |-> 1, name |-> 4] }

\* A string that is not UTF-8, and what other peers send: known fields, another type under a
\* known number, an unknown field, records that end too soon, an empty string.
Words == { [size |-> 2, utf8 |-> TRUE], [size |-> 3, utf8 |-> FALSE] }

Others == { <<<<1, "varint">>, 9>>, <<<<2, "varint">>, 9>>, <<<<4, "fixed32">>, 7>>,
            <<<<9, "len">>, 5>>, <<<<1, "cut">>, 0>>, <<<<3, "end_group">>, 0>>,
            <<<<1, "len">>, [size |-> 0, utf8 |-> TRUE]>> }

\* Sums that are negative, zero and below the range.
SmallNumbers == {-3, 0}
=============================================================================
