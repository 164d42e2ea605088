------------------------------ MODULE OdbDatabase ------------------------------
(***************************************************************************)
(* Persistent objects through ODB: OdbUtil::MySQL::executeTransaction      *)
(* (OdbUtil.h) around operations of the code generated for Student,        *)
(* Classes and StudentClassView (src/example/odb/student_table), on one    *)
(* connection, with other clients at work between its transactions.        *)
(*                                                                         *)
(* Columns are bound by position: the arrays bind fills and the columns    *)
(* the SQL text names are sequences here, and a value goes where its       *)
(* position says.  A string is its length.                                 *)
(*                                                                         *)
(* External: the server (tables, primary keys, auto-increment numbers that *)
(* a rollback does not give back, LEFT JOIN), begin, commit and rollback;  *)
(* results are cached by the client when a query is made.  Sessions,       *)
(* callbacks and optimistic versions are not used by these classes.        *)
(***************************************************************************)
EXTENDS OdbStatements, Sequences, SequencesExt, TLC

CONSTANTS StudentObjects, ClassesObjects,  \* the objects the application has
          Ids,                             \* identifiers of both tables: 1..n
          Absent,                          \* no such row
          MaxCalls                         \* bound on operations and transactions

VARIABLES
    sts,        \* the statements of each class on the connection
    table,      \* the tables as the transaction sees them
    committed,  \* the tables as the others see them
    nextId,     \* auto-increment of `classes`
    tx,         \* the transaction: "none", "open", or left by an exception
    result,     \* the rows of the last query not fetched yet, by student or class
    last,       \* the last operation and what it gave: what the properties look at
    calls

vars == <<sts, table, committed, nextId, tx, result, last, calls>>

-----------------------------------------------------------------------------
(* The classes.                                                            *)

AddressMembers == {"province", "city", "street"}
StudentStrings == {"name"} \cup AddressMembers
StudentMembers == {"student_no", "class_id", "entrace_score"} \cup StudentStrings
ClassesStrings == {"name"}
ClassesMembers == {"id"} \cup ClassesStrings
ViewStrings    == {"student_name", "class_name"}

StudentColumns == [student_no |-> "f_student_no", class_id |-> "class_id", name |-> "name",
                   province |-> "addr_province", city |-> "addr_city", street |-> "addr_street",
                   entrace_score |-> "entrace_score"]
ClassesColumns == [id |-> "id", name |-> "name"]

Strings == [Student |-> StudentStrings, Classes |-> ClassesStrings,
            StudentClassView |-> ViewStrings]

\* The order in which bind fills the array.
AddressBind == <<"province", "city", "street">>

StudentBind(b) ==
    (IF b = "update" THEN <<>> ELSE <<"student_no">>)
        \o <<"class_id", "name">> \o AddressBind \o <<"entrace_score">>

ClassesBind(b) == (IF b = "update" THEN <<>> ELSE <<"id">>) \o <<"name">>

ViewBind(b) == <<"student_no", "student_name", "class_name", "score">>

\* The columns the SQL text names, in its order.
StudentPersist == <<"f_student_no", "class_id", "name", "addr_province", "addr_city",
                    "addr_street", "entrace_score">>
StudentFind    == <<"f_student_no", "class_id", "name", "addr_province", "addr_city",
                    "addr_street", "entrace_score">>
StudentUpdate  == <<"class_id", "name", "addr_province", "addr_city", "addr_street",
                    "entrace_score">>
StudentQuery   == <<"f_student_no", "class_id", "name", "addr_province", "addr_city",
                    "addr_street", "entrace_score">>
ClassesPersist == <<"id", "name">>
ClassesFind    == <<"id", "name">>
ClassesUpdate  == <<"name">>
ClassesQuery   == <<"id", "name">>
ViewQuery      == <<"f_student_no", "name", "classes.name", "entrace_score">>

-----------------------------------------------------------------------------
(* Positions.                                                              *)

\* What statement st writes to the columns, from an image bound in the order binds.
Sent(s, st, image, binds, columns) ==
    [c \in ToSet(columns) |->
        LET f == binds[CHOOSE n \in DOMAIN columns : columns[n] = c]
        IN Through(s, st, f, image[f])]

\* What the server returns for the columns, by the member it goes to.
Returned(row, binds, columns) ==
    [f \in ToSet(binds) |-> row[columns[CHOOSE n \in DOMAIN binds : binds[n] = f]]]

\* The row an object stands for.
RowOf(o, columns) ==
    [c \in {columns[f] : f \in DOMAIN columns} |-> o[CHOOSE f \in DOMAIN columns : columns[f] = c]]

StudentRows == {RowOf(o, StudentColumns) : o \in StudentObjects}
ClassesRows == {[id |-> n, name |-> o.name] : n \in Ids, o \in ClassesObjects}

\* Objects have the members of their class, and the number of a student is one of those the
\* model bounds.
ASSUME DatabaseAssumption ==
    /\ StudentObjects \subseteq [StudentMembers -> Nat]
    /\ ClassesObjects \subseteq [ClassesMembers -> Nat]
    /\ \A o \in StudentObjects : o.student_no \in Ids
    /\ Absent \notin StudentRows \cup ClassesRows

-----------------------------------------------------------------------------
Init ==
    /\ sts = [c \in DOMAIN Strings |-> NewStatements(Strings[c])]
    /\ table = [Student |-> [n \in Ids |-> Absent], Classes |-> [n \in Ids |-> Absent]]
    /\ committed = table
    /\ nextId = 1
    /\ tx = "none" /\ result = [class |-> "none", rows |-> <<>>]
    /\ last = [op |-> "none"]
    /\ calls = 0

\* Another client, between our transactions.
Elsewhere ==
    /\ tx = "none" /\ calls < MaxCalls
    /\ \/ \E n \in Ids, row \in StudentRows \cup {Absent} :
              /\ row # Absent => row.f_student_no = n
              /\ committed' = [committed EXCEPT !.Student[n] = row]
              /\ UNCHANGED nextId
       \/ \E n \in Ids, row \in ClassesRows \cup {Absent} :
              /\ row # Absent => row.id = n
              /\ committed' = [committed EXCEPT !.Classes[n] = row]
              /\ nextId' = IF row # Absent /\ n >= nextId THEN n + 1 ELSE nextId
    /\ table' = committed'
    /\ last' = [op |-> "none"]
    /\ calls' = calls + 1
    /\ UNCHANGED <<sts, tx, result>>

\* executeTransaction: begin, func, and commit if func returns; an exception of func
\* leaves through the destructor of the transaction, which rolls back.
Begin ==
    /\ tx = "none" /\ calls < MaxCalls
    /\ tx' = "open"
    /\ calls' = calls + 1
    /\ last' = [op |-> "none"]
    /\ UNCHANGED <<sts, table, committed, nextId, result>>

Committed == table

Commit ==
    /\ tx = "open"
    /\ committed' = Committed
    /\ tx' = "none"
    /\ result' = [class |-> "none", rows |-> <<>>]
    /\ last' = [op |-> "none"]
    /\ UNCHANGED <<sts, table, nextId, calls>>

\* func throws, or calls executeTransaction, whose begin throws already_in_transaction.
Throw ==
    /\ tx = "open"
    /\ tx' = "thrown"
    /\ UNCHANGED <<sts, table, committed, nextId, result, last, calls>>

Rollback ==
    /\ tx = "thrown"
    /\ table' = committed
    /\ tx' = "none"
    /\ result' = [class |-> "none", rows |-> <<>>]
    /\ last' = [op |-> "none"]
    /\ UNCHANGED <<sts, committed, nextId, calls>>

-----------------------------------------------------------------------------
(* The operations.  Each is made inside a transaction.                     *)

Operation == tx = "open" /\ calls < MaxCalls /\ calls' = calls + 1 /\ UNCHANGED committed

\* An operation that throws object_already_persistent or object_not_persistent.
Throws ==
    /\ tx' = "thrown"
    /\ last' = [op |-> "none"]
    /\ UNCHANGED <<table, nextId, result>>

Succeeds(outcome) == last' = outcome /\ UNCHANGED <<tx, result>>

Persisted(c, o) == Execute(Bind(InitImage(sts[c], o), "insert"), "persist")

PersistStudent ==
    \E o \in StudentObjects :
        LET s == Persisted("Student", o)
        IN /\ Operation
           /\ sts' = [sts EXCEPT !.Student = s]
           /\ IF table.Student[o.student_no] # Absent THEN Throws
              ELSE /\ table' = [table EXCEPT !.Student[o.student_no] =
                                   Sent(s, "persist", o, StudentBind("insert"), StudentPersist)]
                   /\ Succeeds([op |-> "stored", class |-> "Student", object |-> o])
                   /\ UNCHANGED nextId

\* The object's own id is not sent: the server chooses one, which the object gets.
PersistClasses ==
    \E o \in ClassesObjects :
        LET s   == BindId(Persisted("Classes", o))
            row == Sent(s, "persist", [o EXCEPT !.id = 0], ClassesBind("insert"), ClassesPersist)
        IN /\ Operation
           /\ nextId \in Ids
           /\ sts' = [sts EXCEPT !.Classes = s]
           /\ table' = [table EXCEPT !.Classes[nextId] = [row EXCEPT !.id = nextId]]
           /\ nextId' = nextId + 1
           /\ Succeeds([op |-> "stored", class |-> "Classes", object |-> [o EXCEPT !.id = nextId]])

Updated(c, o) == Execute(BindUpdate(InitImage(sts[c], o)), "update")

\* The columns that are not sent stay.
Update(c, o, id, binds, columns) ==
    LET s    == Updated(c, o)
        sent == Sent(s, "update", o, binds, columns)
    IN /\ Operation
       /\ sts' = [sts EXCEPT ![c] = s]
       /\ IF table[c][id] = Absent THEN Throws
          ELSE /\ table' = [table EXCEPT ![c][id] =
                               [k \in DOMAIN @ |-> IF k \in DOMAIN sent THEN sent[k] ELSE @[k]]]
               /\ Succeeds([op |-> "stored", class |-> c, object |-> o])
               /\ UNCHANGED nextId

UpdateStudent ==
    \E o \in StudentObjects :
        Update("Student", o, o.student_no, StudentBind("update"), StudentUpdate)

UpdateClasses ==
    \E o \in ClassesObjects, n \in Ids :
        Update("Classes", [o EXCEPT !.id = n], n, ClassesBind("update"), ClassesUpdate)

Erase(c, id) ==
    /\ Operation
    /\ sts' = [sts EXCEPT ![c] = BindId(@)]
    /\ IF table[c][id] = Absent THEN Throws
       ELSE /\ table' = [table EXCEPT ![c][id] = Absent]
            /\ Succeeds([op |-> "none"])
            /\ UNCHANGED nextId

EraseStudent == \E n \in Ids : Erase("Student", n)
EraseClasses == \E n \in Ids : Erase("Classes", n)

\* find_: the statements before the fetch.
Selected(c) == Execute(Bind(BindId(sts[c]), "select"), "find")

\* Mutant: after a truncation the image grows but is not fetched again.
Loaded_Truncated(s, st, row) ==
    [f \in DOMAIN row |-> IF f \in Truncated(s, st, row) THEN s.used[st].cap[f] ELSE row[f]]

Loaded(s, st, row) == Fetched(s, st, row)

\* find, load and reload: the object becomes what the row says.  Without a row find and
\* reload report it, load throws.
Find(c, id, binds, columns) ==
    LET s   == Selected(c)
        row == Returned(table[c][id], binds, columns)
    IN /\ Operation
       /\ IF table[c][id] = Absent
          THEN /\ sts' = [sts EXCEPT ![c] = s]
               /\ Succeeds([op |-> "none"]) \/ Throws
          ELSE /\ sts' = [sts EXCEPT ![c] = Refetch(s, "find", row)]
               /\ Succeeds([op |-> "loaded", class |-> c, row |-> table[c][id],
                            object |-> Loaded(s, "find", row)])
       /\ UNCHANGED <<table, nextId>>

FindStudent == \E n \in Ids : Find("Student", n, StudentBind("select"), StudentFind)
FindClasses == \E n \in Ids : Find("Classes", n, ClassesBind("select"), ClassesFind)

-----------------------------------------------------------------------------
(* Queries.  The rows stay with the client; each is loaded into the image  *)
(* when the iteration reaches it, whatever was done in between.            *)

\* A query makes a statement of its own, on the select binding of the class.
Queried(c) ==
    Execute([Bind(sts[c], "select") EXCEPT !.used["query"] = Unbound(Strings[c])], "query")

Query(c, rows) ==
    /\ Operation
    /\ sts' = [sts EXCEPT ![c] = Queried(c)]
    /\ result' = [class |-> c, rows |-> rows]
    /\ last' = [op |-> "none"]
    /\ UNCHANGED <<table, nextId, tx>>

Present(c) == {n \in Ids : table[c][n] # Absent}

QueryStudent ==
    \E where \in SUBSET Present("Student") : Query("Student", [n \in where |-> table.Student[n]])

QueryClasses ==
    \E where \in SUBSET Present("Classes") : Query("Classes", [n \in where |-> table.Classes[n]])

\* The LEFT JOIN: a student without a class has NULL for its name, which set_value makes
\* the empty string.
ViewRow(student) ==
    LET class == IF student.class_id \in Present("Classes") THEN student.class_id ELSE 0
    IN [c \in {"classes.name"} |-> IF class = 0 THEN 0 ELSE table.Classes[class].name] @@ student

\* Every student, or those of the condition q.
QueryView ==
    \E where \in SUBSET Present("Student") :
        Query("StudentClassView", [n \in where |-> ViewRow(table.Student[n])])

\* load_image: the image may have grown since, so it is bound again first.
Next_(binds, columns) ==
    LET c == result.class
        s == Execute(Bind(sts[c], "select"), "query")
    IN /\ Operation
       /\ \E n \in DOMAIN result.rows :
              LET row == Returned(result.rows[n], binds, columns)
              IN /\ sts' = [sts EXCEPT ![c] = Refetch(s, "query", row)]
                 /\ result' = [result EXCEPT !.rows = [m \in DOMAIN @ \ {n} |-> @[m]]]
                 /\ last' = [op |-> "loaded", class |-> c, row |-> result.rows[n],
                             object |-> Loaded(s, "query", row)]
       /\ UNCHANGED <<table, nextId, tx>>

NextStudent == result.class = "Student" /\ Next_(StudentBind("select"), StudentQuery)
NextClasses == result.class = "Classes" /\ Next_(ClassesBind("select"), ClassesQuery)
NextView    == result.class = "StudentClassView" /\ Next_(ViewBind("select"), ViewQuery)

\* erase_query has a statement of its own and no image.
EraseQuery(c) ==
    /\ Operation
    /\ \E where \in SUBSET Present(c) :
           table' = [table EXCEPT ![c] = [n \in Ids |-> IF n \in where THEN Absent ELSE @[n]]]
    /\ Succeeds([op |-> "none"])
    /\ UNCHANGED <<sts, nextId>>

EraseQueryStudent == EraseQuery("Student")
EraseQueryClasses == EraseQuery("Classes")

-----------------------------------------------------------------------------
Next ==
    \/ Elsewhere \/ Begin \/ Commit \/ Throw \/ Rollback
    \/ PersistStudent \/ UpdateStudent \/ EraseStudent \/ FindStudent
    \/ QueryStudent \/ NextStudent \/ EraseQueryStudent
    \/ PersistClasses \/ UpdateClasses \/ EraseClasses \/ FindClasses
    \/ QueryClasses \/ NextClasses \/ EraseQueryClasses
    \/ QueryView \/ NextView

Spec == Init /\ [][Next]_vars

-----------------------------------------------------------------------------
\* A binding that has the version of the image points into the buffers of the image, and a
\* statement that saw the version of its binding has the same pointers, whatever
\* operations, of whatever classes, replaced buffers in between.
BindingsFresh == \A c \in DOMAIN Strings : Coherent(sts[c])

\* The object a row stands for.
ObjectOf(class, row) ==
    CASE class = "Student" -> [f \in StudentMembers |-> row[StudentColumns[f]]]
      [] class = "Classes" -> [f \in ClassesMembers |-> row[ClassesColumns[f]]]
      [] OTHER -> [student_no |-> row["f_student_no"], student_name |-> row["name"],
                   class_name |-> row["classes.name"], score |-> row["entrace_score"]]

\* What persist and update were given is what the row says afterwards, and an object that
\* was found, reloaded or reached by a query is what its row said: no value goes to another
\* column, none is cut short, none is read through a freed buffer.
StoredIsLoaded ==
    /\ last.op = "stored" =>
           \E n \in Ids : /\ table[last.class][n] # Absent
                          /\ ObjectOf(last.class, table[last.class][n]) = last.object
    /\ last.op = "loaded" => ObjectOf(last.class, last.row) = last.object
=============================================================================
