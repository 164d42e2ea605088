----------------------------- MODULE OdbStatements -----------------------------
(***************************************************************************)
(* What ODB's generated code keeps for one class on one connection         *)
(* (src/example/odb/student_table/student-odb.cxx), as operators on a      *)
(* record.  An image holds the C values of the columns; its string buffers *)
(* are replaced when they are too small.  A binding is an array of         *)
(* pointers into the image, made anew when the version of the image moved  *)
(* on; the prepared statements copy the array of their binding when the    *)
(* version of the binding moved on.  All statements share one image, so a  *)
(* buffer replaced for one of them leaves the others with freed memory     *)
(* until they look at the versions.                                        *)
(*                                                                         *)
(* A string is its length.  A buffer is its capacity: it is replaced by a  *)
(* larger one only.  External, modelled from how the code uses it: buffers *)
(* that start with a capacity, statements that compare the version of      *)
(* their binding when they are executed or fetched from, and copy it.      *)
(***************************************************************************)
EXTENDS Naturals

CONSTANTS Capacity,  \* of a new string buffer
          Stale      \* what is read through a pointer to a freed buffer

ASSUME OdbAssumption == Capacity \in Nat \ {0} /\ Stale \notin Nat

Bindings   == {"insert", "update", "select"}
Statements == {"persist", "update", "find", "query"}

BindingOf == [persist |-> "insert", update |-> "update", find |-> "select", query |-> "select"]

Unbound(strings) == [version |-> 0, cap |-> [f \in strings |-> 0]]

\* statements_type as it is made: nothing bound, all versions 0.
NewStatements(strings) ==
    [cap     |-> [f \in strings |-> Capacity],               \* the buffers of the image
     version |-> 0,                                          \* im.version
     seen    |-> [b \in Bindings |-> 0],                     \* sts.insert_image_version () ..
     bound   |-> [b \in Bindings |-> Unbound(strings)],      \* sts.insert_image_binding () ..
     idBound |-> FALSE,                                      \* id_image_binding ().version
     used    |-> [st \in Statements |-> Unbound(strings)]]   \* what the statements copied

-----------------------------------------------------------------------------
\* Mutant: a buffer that was replaced does not move the version on.
Grew_Never(s, cap) == s.version

Grew(s, cap) == IF cap # s.cap THEN s.version + 1 ELSE s.version

\* init of the image: each string that does not fit gets a buffer that fits.
InitImage(s, o) ==
    LET cap == [f \in DOMAIN s.cap |-> IF o[f] > s.cap[f] THEN o[f] ELSE s.cap[f]]
    IN [s EXCEPT !.cap = cap, !.version = Grew(s, cap)]

\* grow: the strings the fetch truncated get buffers of the size it reported.
Grow(s, row, truncated) ==
    LET cap == [f \in DOMAIN s.cap |-> IF f \in truncated THEN row[f] ELSE s.cap[f]]
    IN [s EXCEPT !.cap = cap, !.version = Grew(s, cap)]

OutOfDate(s, b) == s.version # s.seen[b] \/ s.bound[b].version = 0

\* bind, under the condition every operation has before it.
Bind(s, b) ==
    IF OutOfDate(s, b)
    THEN [s EXCEPT !.bound[b] = [version |-> @.version + 1, cap |-> s.cap],
                   !.seen[b] = s.version]
    ELSE s

\* The identifier has a buffer of fixed size, bound once.
BindId(s) == [s EXCEPT !.idBound = TRUE]

\* The binding of an update ends with that of the identifier.
BindUpdate(s) ==
    IF s.idBound THEN Bind(s, "update")
    ELSE IF OutOfDate(s, "update") THEN BindId(Bind(s, "update"))
    ELSE BindId([s EXCEPT !.bound["update"].version = @ + 1])

\* Executing a statement, or fetching from it: it copies a binding that is new to it.
Execute(s, st) ==
    LET b == s.bound[BindingOf[st]]
    IN IF s.used[st].version # b.version THEN [s EXCEPT !.used[st] = b] ELSE s

\* What the statement sees, or leaves, in the string f of the image.
Through(s, st, f, value) ==
    IF f \in DOMAIN s.cap /\ s.used[st].cap[f] # s.cap[f] THEN Stale ELSE value

-----------------------------------------------------------------------------
(* A fetch.  row gives what the server has for each member of the image.   *)

Truncated(s, st, row) == {f \in DOMAIN s.cap : row[f] > s.used[st].cap[f]}

\* After the fetch: the image has grown, is bound again, and what was truncated is
\* fetched through the new binding.
Refetch(s, st, row) ==
    LET t == Truncated(s, st, row)
    IN IF t = {} THEN s ELSE Execute(Bind(Grow(s, row, t), "select"), st)

Fetched(s, st, row) ==
    [f \in DOMAIN row |->
        Through(IF f \in Truncated(s, st, row) THEN Refetch(s, st, row) ELSE s, st, f, row[f])]

-----------------------------------------------------------------------------
\* A binding of the version of the image is of its buffers, a statement that saw the
\* version of its binding has its pointers.
Coherent(s) ==
    /\ \A b \in Bindings :
           ~OutOfDate(s, b) => s.bound[b].cap = s.cap
    /\ \A st \in Statements :
           LET b == s.bound[BindingOf[st]]
           IN s.used[st].version = b.version => s.used[st].cap = b.cap
=============================================================================
