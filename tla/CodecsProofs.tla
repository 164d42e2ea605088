------------------------------ MODULE CodecsProofs ------------------------------
(***************************************************************************)
(* The invariants of Codecs hold for any constants.                        *)
(*                                                                         *)
(* OdbDatabase: each operator of OdbStatements preserves Sound, and each   *)
(* action changes the statements of a class by such operators only; the    *)
(* lists of columns agree position by position, and a statement that runs  *)
(* uses the buffers of its image.                                          *)
(*                                                                         *)
(* MessageObjects, RpcCalls and M3U8Playlist are loops over sequences: of  *)
(* records or of lines.  A loop is described by its turn and its states,   *)
(* so that what it does to a sequence follows from what it does to one     *)
(* element, to nothing, and to two sequences in a row.                     *)
(***************************************************************************)
EXTENDS Codecs, SequenceFacts

-----------------------------------------------------------------------------
(* OdbDatabase.                                                            *)

\* A binding, or a copy of one.
Shape(a) == DOMAIN a = {"version", "cap"} /\ a.version \in Nat

WellFormed(s) ==
    /\ DOMAIN s = {"cap", "version", "seen", "bound", "idBound", "used"}
    /\ s.version \in Nat
    /\ s.seen \in [Bindings -> Nat]
    /\ DOMAIN s.bound = Bindings /\ \A b \in Bindings : Shape(s.bound[b])
    /\ DOMAIN s.used = Statements /\ \A st \in Statements : Shape(s.used[st])

\* Nobody is ahead of the version it follows.
Behind(s) ==
    /\ \A b \in Bindings : s.seen[b] <= s.version
    /\ \A st \in Statements : s.used[st].version <= s.bound[BindingOf[st]].version

Sound(s) == WellFormed(s) /\ Behind(s) /\ Coherent(s)

-----------------------------------------------------------------------------
\* Every statement uses one of the bindings.
LEMMA BindingOfStatement == \A st \in Statements : BindingOf[st] \in Bindings
  BY DEF Statements, Bindings, BindingOf

\* New statements are sound: nothing is bound.
LEMMA NewSound == ASSUME NEW strings PROVE Sound(NewStatements(strings))
  BY BindingOfStatement
     DEF Sound, WellFormed, Shape, Behind, Coherent, OutOfDate, NewStatements, Unbound

\* An image with other buffers and another version leaves no binding that claims to be up to
\* date, one with the same buffers has the same version.
LEMMA ImageSound ==
  ASSUME NEW s, Sound(s), NEW cap
  PROVE  Sound([s EXCEPT !.cap = cap, !.version = Grew(s, cap)])
<1> DEFINE n == [s EXCEPT !.cap = cap, !.version = Grew(s, cap)]
<1>1. /\ n.cap = cap /\ n.version = Grew(s, cap)
      /\ n.seen = s.seen /\ n.bound = s.bound /\ n.used = s.used
  BY DEF Sound, WellFormed
<1>2. WellFormed(n)
  BY <1>1 DEF Sound, WellFormed, Grew
<1>3. Behind(n)
  BY <1>1 DEF Sound, WellFormed, Behind, Grew
<1>4. Coherent(n)
  <2>1. CASE cap = s.cap
    BY <1>1, <2>1 DEF Sound, Coherent, OutOfDate, Grew
  <2>2. CASE cap # s.cap
    <3>1. \A b \in Bindings : n.version # n.seen[b]
      BY <1>1, <2>2 DEF Sound, WellFormed, Behind, Grew
    <3> QED BY <1>1, <3>1 DEF Sound, Coherent, OutOfDate
  <2> QED BY <2>1, <2>2
<1> QED BY <1>2, <1>3, <1>4 DEF Sound

LEMMA InitImageSound == ASSUME NEW s, Sound(s), NEW o PROVE Sound(InitImage(s, o))
  BY Zenon, ImageSound DEF InitImage

LEMMA GrowSound ==
  ASSUME NEW s, Sound(s), NEW row, NEW truncated PROVE Sound(Grow(s, row, truncated))
  BY Zenon, ImageSound DEF Grow

-----------------------------------------------------------------------------
\* After bind the binding is up to date, whether it had to be made anew or not.
LEMMA BindSound ==
  ASSUME NEW s, Sound(s), NEW b \in Bindings
  PROVE  Sound(Bind(s, b)) /\ Bind(s, b).bound[b].version > 0
<1>1. CASE ~OutOfDate(s, b)
  BY <1>1 DEF Bind, OutOfDate, Sound, WellFormed, Shape
<1>2. CASE OutOfDate(s, b)
  <2> DEFINE n == Bind(s, b)
             new == [version |-> s.bound[b].version + 1, cap |-> s.cap]
  <2>1. /\ n.cap = s.cap /\ n.version = s.version /\ n.used = s.used
        /\ DOMAIN n = DOMAIN s
        /\ n.seen = [s.seen EXCEPT ![b] = s.version]
        /\ n.bound = [s.bound EXCEPT ![b] = new]
    BY <1>2 DEF Bind, Sound, WellFormed
  <2> HIDE DEF n
  <2>2. Shape(new) /\ new.version > s.bound[b].version /\ new.cap = s.cap
    BY DEF Sound, WellFormed, Shape
  <2>3. WellFormed(n)
    BY <2>1, <2>2 DEF Sound, WellFormed
  <2>4. Behind(n)
    <3>1. \A a \in Bindings : n.seen[a] <= n.version
      BY <2>1 DEF Sound, WellFormed, Behind
    <3>2. \A st \in Statements : n.used[st].version <= n.bound[BindingOf[st]].version
      BY <2>1, <2>2, BindingOfStatement DEF Sound, WellFormed, Shape, Behind
    <3> QED BY <3>1, <3>2 DEF Behind
  <2>5. Coherent(n)
    <3>1. ASSUME NEW a \in Bindings, ~OutOfDate(n, a) PROVE n.bound[a].cap = n.cap
      <4>1. CASE a = b
        BY <2>1, <2>2, <4>1 DEF Sound, WellFormed
      <4>2. CASE a # b
        BY <2>1, <3>1, <4>2 DEF Sound, WellFormed, Coherent, OutOfDate
      <4> QED BY <4>1, <4>2
    <3>2. ASSUME NEW st \in Statements, n.used[st].version = n.bound[BindingOf[st]].version
          PROVE  n.used[st].cap = n.bound[BindingOf[st]].cap
      <4>1. CASE BindingOf[st] = b
        BY <2>1, <2>2, <3>2, <4>1 DEF Sound, WellFormed, Shape, Behind
      <4>2. CASE BindingOf[st] # b
        BY <2>1, <3>2, <4>2, BindingOfStatement DEF Sound, WellFormed, Coherent
      <4> QED BY <4>1, <4>2
    <3> QED BY <3>1, <3>2 DEF Coherent
  <2>6. n.bound[b].version > 0
    BY <2>1, <2>2 DEF Sound, WellFormed, Shape
  <2> QED BY <2>3, <2>4, <2>5, <2>6 DEF Sound, n
<1> QED BY <1>1, <1>2

\* A statement that copies its binding agrees with it.
LEMMA CopySound ==
  ASSUME NEW s, Sound(s), NEW st \in Statements
  PROVE  Sound([s EXCEPT !.used[st] = s.bound[BindingOf[st]]])
<1> DEFINE n == [s EXCEPT !.used[st] = s.bound[BindingOf[st]]]
<1>1. /\ n.cap = s.cap /\ n.version = s.version /\ n.seen = s.seen /\ n.bound = s.bound
      /\ DOMAIN n = DOMAIN s
      /\ n.used = [s.used EXCEPT ![st] = s.bound[BindingOf[st]]]
  BY DEF Sound, WellFormed
<1> HIDE DEF n
<1>2. WellFormed(n)
  BY <1>1, BindingOfStatement DEF Sound, WellFormed
<1>3. Behind(n)
  BY <1>1, BindingOfStatement DEF Sound, WellFormed, Shape, Behind
<1>4. Coherent(n)
  BY <1>1, BindingOfStatement DEF Sound, WellFormed, Coherent, OutOfDate
<1> QED BY <1>2, <1>3, <1>4 DEF Sound, n

LEMMA ExecuteSound ==
  ASSUME NEW s, Sound(s), NEW st \in Statements PROVE Sound(Execute(s, st))
  BY CopySound DEF Execute

LEMMA BindIdSound == ASSUME NEW s, Sound(s) PROVE Sound(BindId(s))
  BY DEF BindId, Sound, WellFormed, Behind, Coherent, OutOfDate

\* The version of the update binding may move on without its pointers.
LEMMA BindUpdateSound == ASSUME NEW s, Sound(s) PROVE Sound(BindUpdate(s))
<1>1. Sound(Bind(s, "update"))
  BY BindSound DEF Bindings
<1>2. CASE s.idBound \/ OutOfDate(s, "update")
  BY <1>1, <1>2, BindIdSound DEF BindUpdate
<1>3. CASE ~s.idBound /\ ~OutOfDate(s, "update")
  <2> DEFINE k == [s EXCEPT !.bound["update"].version = @ + 1]
  <2>1. /\ k.cap = s.cap /\ k.version = s.version /\ k.seen = s.seen /\ k.used = s.used
        /\ DOMAIN k = DOMAIN s /\ DOMAIN k.bound = DOMAIN s.bound
        /\ \A b \in Bindings : /\ DOMAIN k.bound[b] = DOMAIN s.bound[b]
                               /\ k.bound[b].cap = s.bound[b].cap
                               /\ k.bound[b].version = IF b = "update" THEN s.bound[b].version + 1
                                                       ELSE s.bound[b].version
    BY DEF Sound, WellFormed, Shape, Bindings
  <2> HIDE DEF k
  <2>2. WellFormed(k)
    BY <2>1 DEF Sound, WellFormed, Shape
  <2>3. Behind(k)
    BY <2>1, BindingOfStatement DEF Sound, WellFormed, Shape, Behind
  <2>4. \A b \in Bindings : ~OutOfDate(k, b) => k.bound[b].cap = k.cap
    BY <1>3, <2>1 DEF Sound, WellFormed, Shape, Coherent, OutOfDate
  <2>5. \A st \in Statements : k.used[st].version = k.bound[BindingOf[st]].version
                                   => k.used[st].cap = k.bound[BindingOf[st]].cap
    BY <2>1, BindingOfStatement DEF Sound, WellFormed, Shape, Behind, Coherent
  <2>6. Sound(BindId(k))
    BY <2>2, <2>3, <2>4, <2>5, BindIdSound DEF Sound, Coherent
  <2> QED BY <1>3, <2>6 DEF BindUpdate, k
<1> QED BY <1>2, <1>3

-----------------------------------------------------------------------------
(* The operators the actions are made of.                                  *)

LEMMA RefetchSound ==
  ASSUME NEW s, Sound(s), NEW st \in Statements, NEW row PROVE Sound(Refetch(s, st, row))
<1>1. Sound(Bind(Grow(s, row, Truncated(s, st, row)), "select"))
  BY GrowSound, BindSound DEF Bindings
<1> QED BY <1>1, ExecuteSound DEF Refetch

\* A new statement has copied nothing, and no binding is at version 0 once it was bound.
LEMMA NewQuerySound ==
  ASSUME NEW s, Sound(s), s.bound["select"].version > 0, NEW strings
  PROVE  Sound([s EXCEPT !.used["query"] = Unbound(strings)])
<1> DEFINE n == [s EXCEPT !.used["query"] = Unbound(strings)]
<1>1. /\ n.cap = s.cap /\ n.version = s.version /\ n.seen = s.seen /\ n.bound = s.bound
      /\ DOMAIN n = DOMAIN s
      /\ n.used = [s.used EXCEPT !["query"] = Unbound(strings)]
  BY DEF Sound, WellFormed
<1> HIDE DEF n
<1>2. Shape(Unbound(strings)) /\ Unbound(strings).version = 0
  BY DEF Shape, Unbound
<1>3. WellFormed(n)
  BY <1>1, <1>2 DEF Sound, WellFormed
<1>4. Behind(n)
  BY <1>1, <1>2, BindingOfStatement DEF Sound, WellFormed, Shape, Behind, Statements
<1>5. \A st \in Statements : n.used[st].version = n.bound[BindingOf[st]].version
                                 => n.used[st].cap = n.bound[BindingOf[st]].cap
  <2>1. BindingOf["query"] = "select"
    BY DEF BindingOf
  <2> QED BY <1>1, <1>2, <2>1 DEF Sound, WellFormed, Coherent
<1> QED BY <1>1, <1>3, <1>4, <1>5 DEF Sound, Coherent, OutOfDate, n

\* The statements of every class are sound.
AllSound == DOMAIN sts = DOMAIN Strings /\ \A c \in DOMAIN Strings : Sound(sts[c])

\* Two facts about AllSound: it is kept by a step that changes one class to something sound.
LEMMA OneClass ==
  ASSUME AllSound, NEW c, NEW s, Sound(s), sts' = [sts EXCEPT ![c] = s] PROVE AllSound'
  BY DEF AllSound

LEMMA PersistedSound ==
  ASSUME AllSound, NEW c \in DOMAIN Strings, NEW o PROVE Sound(Persisted(c, o))
<1>1. Sound(Bind(InitImage(sts[c], o), "insert"))
  BY InitImageSound, BindSound DEF AllSound, Bindings
<1> QED BY <1>1, ExecuteSound DEF Persisted, Statements

LEMMA UpdatedSound ==
  ASSUME AllSound, NEW c \in DOMAIN Strings, NEW o PROVE Sound(Updated(c, o))
<1>1. Sound(BindUpdate(InitImage(sts[c], o)))
  BY InitImageSound, BindUpdateSound DEF AllSound
<1> QED BY <1>1, ExecuteSound DEF Updated, Statements

LEMMA SelectedSound ==
  ASSUME AllSound, NEW c \in DOMAIN Strings PROVE Sound(Selected(c))
<1>1. Sound(Bind(BindId(sts[c]), "select"))
  BY BindIdSound, BindSound DEF AllSound, Bindings
<1> QED BY <1>1, ExecuteSound DEF Selected, Statements

LEMMA QueriedSound ==
  ASSUME AllSound, NEW c \in DOMAIN Strings PROVE Sound(Queried(c))
<1>1. Sound(Bind(sts[c], "select")) /\ Bind(sts[c], "select").bound["select"].version > 0
  BY BindSound DEF AllSound, Bindings
<1>2. Sound([Bind(sts[c], "select") EXCEPT !.used["query"] = Unbound(Strings[c])])
  BY <1>1, NewQuerySound
<1> QED BY <1>2, ExecuteSound DEF Queried, Statements

LEMMA ClassesOfStrings == DOMAIN Strings = {"Student", "Classes", "StudentClassView"}
  BY DEF Strings

-----------------------------------------------------------------------------
LEMMA UpdateKeeps ==
  ASSUME AllSound, NEW c \in DOMAIN Strings, NEW o, NEW id, NEW binds, NEW columns,
         Update(c, o, id, binds, columns)
  PROVE  AllSound'
  BY UpdatedSound, OneClass DEF Update

LEMMA EraseKeeps ==
  ASSUME AllSound, NEW c \in DOMAIN Strings, NEW id, Erase(c, id) PROVE AllSound'
<1>1. sts' = [sts EXCEPT ![c] = BindId(sts[c])]
  BY DEF Erase
<1>2. Sound(BindId(sts[c]))
  BY BindIdSound DEF AllSound
<1> QED BY <1>1, <1>2, OneClass

LEMMA FindKeeps ==
  ASSUME AllSound, NEW c \in DOMAIN Strings, NEW id, NEW binds, NEW columns,
         Find(c, id, binds, columns)
  PROVE  AllSound'
<1> DEFINE s == Selected(c)
           row == Returned(table[c][id], binds, columns)
<1>1. sts' = [sts EXCEPT ![c] = s] \/ sts' = [sts EXCEPT ![c] = Refetch(s, "find", row)]
  BY DEF Find
<1>2. Sound(s)
  BY SelectedSound
<1>3. Sound(Refetch(s, "find", row))
  BY <1>2, RefetchSound DEF Statements
<1> QED BY <1>1, <1>2, <1>3, OneClass

LEMMA QueryKeeps ==
  ASSUME AllSound, NEW c \in DOMAIN Strings, NEW rows, Query(c, rows) PROVE AllSound'
  BY QueriedSound, OneClass DEF Query

LEMMA NextRowKeeps ==
  ASSUME AllSound, result.class \in DOMAIN Strings, NEW binds, NEW columns,
         Next_(binds, columns)
  PROVE  AllSound'
<1> DEFINE c == result.class
           s == Execute(Bind(sts[c], "select"), "query")
<1>1. PICK row : sts' = [sts EXCEPT ![c] = Refetch(s, "query", row)]
  BY DEF Next_
<1>2. Sound(Bind(sts[c], "select"))
  BY BindSound DEF AllSound, Bindings
<1>3. Sound(Refetch(s, "query", row))
  BY <1>2, ExecuteSound, RefetchSound DEF Statements
<1> QED BY <1>1, <1>3, OneClass

-----------------------------------------------------------------------------
LEMMA InitSound == Init => AllSound
  BY NewSound DEF Init, AllSound, Strings

LEMMA NextSound == AllSound /\ [Next]_vars => AllSound'
<1> SUFFICES ASSUME AllSound, [Next]_vars PROVE AllSound'
  OBVIOUS
<1>1. CASE UNCHANGED vars
  BY <1>1 DEF vars, AllSound
<1>2. CASE Elsewhere \/ Begin \/ Commit \/ Throw \/ Rollback
  <2>1. sts' = sts
    BY <1>2 DEF Elsewhere, Begin, Commit, Throw, Rollback
  <2> QED BY <2>1 DEF AllSound
<1>3. CASE EraseQueryStudent \/ EraseQueryClasses
  <2>1. sts' = sts
    BY <1>3 DEF EraseQueryStudent, EraseQueryClasses, EraseQuery
  <2> QED BY <2>1 DEF AllSound
<1>4. CASE PersistStudent
  <2>1. PICK o : sts' = [sts EXCEPT !["Student"] = Persisted("Student", o)]
    BY <1>4 DEF PersistStudent
  <2> QED BY <2>1, ClassesOfStrings, PersistedSound, OneClass
<1>5. CASE PersistClasses
  <2>1. PICK o : sts' = [sts EXCEPT !["Classes"] = BindId(Persisted("Classes", o))]
    BY <1>5 DEF PersistClasses
  <2>2. Sound(BindId(Persisted("Classes", o)))
    BY ClassesOfStrings, PersistedSound, BindIdSound
  <2> QED BY <2>1, <2>2, OneClass
<1>6. CASE UpdateStudent \/ UpdateClasses
  BY <1>6, ClassesOfStrings, UpdateKeeps DEF UpdateStudent, UpdateClasses
<1>7. CASE EraseStudent \/ EraseClasses
  BY <1>7, ClassesOfStrings, EraseKeeps DEF EraseStudent, EraseClasses
<1>8. CASE FindStudent \/ FindClasses
  BY <1>8, ClassesOfStrings, FindKeeps DEF FindStudent, FindClasses
<1>9. CASE QueryStudent \/ QueryClasses \/ QueryView
  BY <1>9, ClassesOfStrings, QueryKeeps DEF QueryStudent, QueryClasses, QueryView
<1>10. CASE NextStudent \/ NextClasses \/ NextView
  BY <1>10, ClassesOfStrings, NextRowKeeps DEF NextStudent, NextClasses, NextView
<1> QED BY <1>1, <1>2, <1>3, <1>4, <1>5, <1>6, <1>7, <1>8, <1>9, <1>10 DEF Next

\* BindingsFresh, for any objects, any lengths of strings and any number of calls: what the
\* versions of student-odb.cxx say is up to date is up to date, for every statement of every
\* class, whichever of them replaced a buffer last.
THEOREM FreshBindings == Spec => []BindingsFresh
<1>1. AllSound => BindingsFresh
  BY DEF AllSound, Sound, BindingsFresh
<1> QED BY <1>1, InitSound, NextSound, PTL DEF Spec

-----------------------------------------------------------------------------
(* Positions: where bind and the SQL text put the members of a class.      *)

\* The member whose value a column of `student` has.
MemberOf == [f_student_no |-> "student_no", class_id |-> "class_id", name |-> "name",
             addr_province |-> "province", addr_city |-> "city", addr_street |-> "street",
             entrace_score |-> "entrace_score"]

\* The elements of four lists in a row.
LEMMA FourLists ==
  ASSUME NEW S, NEW p \in Seq(S), NEW q \in Seq(S), NEW u \in Seq(S), NEW v \in Seq(S),
         NEW r, r = p \o q \o u \o v
  PROVE  /\ DOMAIN r = 1..(Len(p) + Len(q) + Len(u) + Len(v))
         /\ \A n \in 1..Len(p) : r[n] = p[n]
         /\ \A n \in 1..Len(q) : r[Len(p) + n] = q[n]
         /\ \A n \in 1..Len(u) : r[Len(p) + Len(q) + n] = u[n]
         /\ \A n \in 1..Len(v) : r[Len(p) + Len(q) + Len(u) + n] = v[n]
<1> DEFINE a == p \o q
           b == a \o u
<1>1. /\ a \in Seq(S) /\ Len(a) = Len(p) + Len(q)
      /\ \A n \in 1..(Len(p) + Len(q)) : a[n] = IF n <= Len(p) THEN p[n] ELSE q[n - Len(p)]
  BY ConcatProperties
<1> HIDE DEF a
<1>2. /\ b \in Seq(S) /\ Len(b) = Len(a) + Len(u)
      /\ \A n \in 1..(Len(a) + Len(u)) : b[n] = IF n <= Len(a) THEN a[n] ELSE u[n - Len(a)]
  <2>1. a \in Seq(S) /\ u \in Seq(S)
    BY <1>1
  <2> QED BY ONLY <2>1, ConcatProperties
<1> HIDE DEF b
<1>3. /\ r \in Seq(S) /\ Len(r) = Len(b) + Len(v)
      /\ \A n \in 1..(Len(b) + Len(v)) : r[n] = IF n <= Len(b) THEN b[n] ELSE v[n - Len(b)]
  <2>1. b \in Seq(S) /\ v \in Seq(S)
    BY <1>2
  <2>2. b \o v \in Seq(S) /\ Len(b \o v) = Len(b) + Len(v)
        /\ \A n \in 1..(Len(b) + Len(v)) :
               (b \o v)[n] = IF n <= Len(b) THEN b[n] ELSE v[n - Len(b)]
    BY ONLY <2>1, ConcatProperties
  <2> QED BY <2>2 DEF b, a
<1>4. Len(p) \in Nat /\ Len(q) \in Nat /\ Len(u) \in Nat /\ Len(v) \in Nat
  BY LenProperties
<1>5. DOMAIN r = 1..(Len(p) + Len(q) + Len(u) + Len(v))
  BY <1>1, <1>2, <1>3, LenProperties
<1>6. \A n \in 1..Len(p) : r[n] = p[n]
  BY <1>1, <1>2, <1>3, <1>4
<1>7. \A n \in 1..Len(q) : r[Len(p) + n] = q[n]
  BY <1>1, <1>2, <1>3, <1>4
<1>8. \A n \in 1..Len(u) : r[Len(p) + Len(q) + n] = u[n]
  BY <1>1, <1>2, <1>3, <1>4
<1>9. \A n \in 1..Len(v) : r[Len(p) + Len(q) + Len(u) + n] = v[n]
  <2>1. ASSUME NEW n \in 1..Len(v)
        PROVE  r[Len(b) + n] = v[n]
    <3>1. Len(b) \in Nat /\ n \in Nat /\ n > 0 /\ n <= Len(v)
      BY <1>1, <1>2, <1>4
    <3>2. /\ Len(b) + n \in 1..(Len(b) + Len(v))
          /\ ~(Len(b) + n <= Len(b)) /\ (Len(b) + n) - Len(b) = n
      BY <1>4, <3>1
    <3> QED BY <1>3, <3>2
  <2> QED BY <1>1, <1>2, <2>1
<1> QED BY <1>5, <1>6, <1>7, <1>8, <1>9

StudentColumnSet == {StudentColumns[f] : f \in StudentMembers}

\* The lists of Student, element by element.
LEMMA StudentLists ==
  /\ DOMAIN StudentBind("insert") = 1..7 /\ DOMAIN StudentBind("select") = 1..7
  /\ DOMAIN StudentBind("update") = 1..6 /\ StudentBind("select") = StudentBind("insert")
  /\ DOMAIN StudentPersist = 1..7 /\ DOMAIN StudentFind = 1..7 /\ DOMAIN StudentUpdate = 1..6
  /\ \A n \in 1..7 : /\ MemberOf[StudentPersist[n]] = StudentBind("insert")[n]
                     /\ StudentColumns[StudentBind("select")[n]] = StudentFind[n]
  /\ \A n \in 1..6 : MemberOf[StudentUpdate[n]] = StudentBind("update")[n]
<1> DEFINE p == <<"student_no">>
           q == <<"class_id", "name">>
           u == AddressBind
           v == <<"entrace_score">>
           r == p \o q \o u \o v
           w == q \o u \o v
<1>1. /\ p \in Seq(StudentMembers) /\ q \in Seq(StudentMembers)
      /\ u \in Seq(StudentMembers) /\ v \in Seq(StudentMembers)
  BY DEF StudentMembers, StudentStrings, AddressMembers, AddressBind
<1>2. /\ Len(p) = 1 /\ Len(q) = 2 /\ Len(u) = 3 /\ Len(v) = 1
      /\ p[1] = "student_no" /\ q[1] = "class_id" /\ q[2] = "name"
      /\ u[1] = "province" /\ u[2] = "city" /\ u[3] = "street" /\ v[1] = "entrace_score"
  BY DEF AddressBind
<1>3. /\ StudentBind("insert") = r /\ StudentBind("select") = r
      /\ StudentBind("update") = <<>> \o q \o u \o v
  BY DEF StudentBind
<1> HIDE DEF p, q, u, v
<1>4. <<>> \o q = q
  BY <1>1, ConcatEmptySeq
<1>5. StudentBind("update") = w
  BY <1>3, <1>4
<1>6. /\ DOMAIN r = 1..(Len(p) + Len(q) + Len(u) + Len(v))
      /\ \A n \in 1..Len(p) : r[n] = p[n]
      /\ \A n \in 1..Len(q) : r[Len(p) + n] = q[n]
      /\ \A n \in 1..Len(u) : r[Len(p) + Len(q) + n] = u[n]
      /\ \A n \in 1..Len(v) : r[Len(p) + Len(q) + Len(u) + n] = v[n]
  <2> DEFINE x == r
  <2>1. x = p \o q \o u \o v
    OBVIOUS
  <2> HIDE DEF x
  <2>2. /\ DOMAIN x = 1..(Len(p) + Len(q) + Len(u) + Len(v))
        /\ \A n \in 1..Len(p) : x[n] = p[n]
        /\ \A n \in 1..Len(q) : x[Len(p) + n] = q[n]
        /\ \A n \in 1..Len(u) : x[Len(p) + Len(q) + n] = u[n]
        /\ \A n \in 1..Len(v) : x[Len(p) + Len(q) + Len(u) + n] = v[n]
    BY ONLY <1>1, <2>1, FourLists
  <2> QED BY <2>2 DEF x
<1>7. /\ DOMAIN (<<>> \o q \o u \o v) = 1..(Len(<<>>) + Len(q) + Len(u) + Len(v))
      /\ \A n \in 1..Len(q) : (<<>> \o q \o u \o v)[Len(<<>>) + n] = q[n]
      /\ \A n \in 1..Len(u) : (<<>> \o q \o u \o v)[Len(<<>>) + Len(q) + n] = u[n]
      /\ \A n \in 1..Len(v) : (<<>> \o q \o u \o v)[Len(<<>>) + Len(q) + Len(u) + n] = v[n]
  <2>1. <<>> \in Seq(StudentMembers)
    BY EmptySeq
  <2> QED BY <1>1, <2>1, FourLists
<1> HIDE DEF r, w
<1>8. /\ DOMAIN r = 1..7 /\ r[1] = "student_no" /\ r[2] = "class_id" /\ r[3] = "name"
      /\ r[4] = "province" /\ r[5] = "city" /\ r[6] = "street" /\ r[7] = "entrace_score"
  <2>1. DOMAIN r = 1..7
    BY <1>2, <1>6
  <2>2. r[1] = p[1] /\ r[1 + 1] = q[1] /\ r[1 + 2] = q[2]
    BY <1>2, <1>6
  <2>3. r[1 + 2 + 1] = u[1] /\ r[1 + 2 + 2] = u[2] /\ r[1 + 2 + 3] = u[3]
    BY <1>2, <1>6
  <2>4. r[1 + 2 + 3 + 1] = v[1]
    BY <1>2, <1>6
  <2> QED BY <1>2, <2>1, <2>2, <2>3, <2>4
<1>9. /\ DOMAIN w = 1..6 /\ w[1] = "class_id" /\ w[2] = "name" /\ w[3] = "province"
      /\ w[4] = "city" /\ w[5] = "street" /\ w[6] = "entrace_score"
  <2> DEFINE x == <<>> \o q \o u \o v
  <2>0. x = w /\ Len(<<>>) = 0
    BY <1>3, <1>5
  <2> HIDE DEF x
  <2>1. DOMAIN x = 1..6
    BY <1>2, <1>7, <2>0 DEF x
  <2>2. x[0 + 1] = q[1] /\ x[0 + 2] = q[2]
    BY <1>2, <1>7, <2>0 DEF x
  <2>3. x[0 + 2 + 1] = u[1] /\ x[0 + 2 + 2] = u[2] /\ x[0 + 2 + 3] = u[3]
    BY <1>2, <1>7, <2>0 DEF x
  <2>4. x[0 + 2 + 3 + 1] = v[1]
    BY <1>2, <1>7, <2>0 DEF x
  <2> QED BY <1>2, <2>0, <2>1, <2>2, <2>3, <2>4
<1>10. \A n \in 1..7 : MemberOf[StudentPersist[n]] = r[n]
  BY <1>8 DEF MemberOf, StudentPersist
<1>11. \A n \in 1..7 : StudentColumns[r[n]] = StudentFind[n]
  BY <1>8 DEF StudentColumns, StudentFind
<1>12. \A n \in 1..6 : MemberOf[StudentUpdate[n]] = w[n]
  BY <1>9 DEF MemberOf, StudentUpdate
<1>13. DOMAIN StudentPersist = 1..7 /\ DOMAIN StudentFind = 1..7 /\ DOMAIN StudentUpdate = 1..6
  BY DEF StudentPersist, StudentFind, StudentUpdate
<1> QED BY <1>3, <1>5, <1>8, <1>9, <1>10, <1>11, <1>12, <1>13

\* What the lists name.
LEMMA StudentSets ==
  /\ ToSet(StudentPersist) = StudentColumnSet
  /\ ToSet(StudentUpdate) = StudentColumnSet \ {"f_student_no"}
  /\ \A f \in StudentMembers : MemberOf[StudentColumns[f]] = f
  /\ \A c \in StudentColumnSet : StudentColumns[MemberOf[c]] = c
  /\ StudentQuery = StudentFind /\ DOMAIN StudentColumns = StudentMembers
BY DEF ToSet, StudentPersist, StudentUpdate, StudentFind, StudentQuery, StudentColumnSet,
       StudentColumns, StudentMembers, StudentStrings, AddressMembers, MemberOf

\* The row of a student, and what is sent for it and returned of it.
LEMMA StudentRow ==
  ASSUME NEW o
  PROVE  RowOf(o, StudentColumns) = [c \in StudentColumnSet |-> o[MemberOf[c]]]
<1>1. ASSUME NEW c \in StudentColumnSet
      PROVE  (CHOOSE f \in DOMAIN StudentColumns : StudentColumns[f] = c) = MemberOf[c]
  <2>1. \E f \in DOMAIN StudentColumns : StudentColumns[f] = c
    BY StudentSets DEF StudentColumnSet
  <2> DEFINE f == CHOOSE f \in DOMAIN StudentColumns : StudentColumns[f] = c
  <2>2. f \in StudentMembers /\ StudentColumns[f] = c
    BY <2>1, StudentSets
  <2> QED BY <2>2, StudentSets
<1>2. {StudentColumns[f] : f \in DOMAIN StudentColumns} = StudentColumnSet
  BY StudentSets DEF StudentColumnSet
<1> DEFINE pick(c) == CHOOSE f \in DOMAIN StudentColumns : StudentColumns[f] = c
<1>3. RowOf(o, StudentColumns) = [c \in StudentColumnSet |-> o[pick(c)]]
  BY <1>2 DEF RowOf
<1>4. \A c \in StudentColumnSet : pick(c) = MemberOf[c]
  BY <1>1
<1> HIDE DEF pick
<1> QED BY <1>3, <1>4

LEMMA StudentReturned ==
  ASSUME NEW row
  PROVE  Returned(row, StudentBind("select"), StudentFind)
             = [f \in StudentMembers |-> row[StudentColumns[f]]]
<1>1. ToSet(StudentBind("select")) = StudentMembers
  <2>1. ToSet(StudentBind("select")) = {MemberOf[StudentPersist[n]] : n \in 1..7}
    BY StudentLists DEF ToSet
  <2>2. ToSet(StudentPersist) = {StudentPersist[n] : n \in 1..7}
    BY StudentLists DEF ToSet
  <2>3. ToSet(StudentBind("select")) = {MemberOf[c] : c \in StudentColumnSet}
    BY <2>1, <2>2, StudentSets
  <2> QED BY <2>3, StudentSets DEF StudentColumnSet
<1>2. ASSUME NEW f \in StudentMembers
      PROVE  StudentFind[CHOOSE n \in DOMAIN StudentBind("select") :
                             StudentBind("select")[n] = f] = StudentColumns[f]
  <2> DEFINE k == CHOOSE n \in DOMAIN StudentBind("select") : StudentBind("select")[n] = f
  <2>1. \E n \in DOMAIN StudentBind("select") : StudentBind("select")[n] = f
    BY <1>1 DEF ToSet
  <2>2. k \in DOMAIN StudentBind("select") /\ StudentBind("select")[k] = f
    BY <2>1
  <2> QED BY <2>2, StudentLists
<1> QED BY <1>1, <1>2 DEF Returned

-----------------------------------------------------------------------------
\* The statement has the pointers to the buffers the image has now.
Fresh(s, st) == s.used[st].cap = s.cap

LEMMA ThroughFresh ==
  ASSUME NEW s, NEW st, Fresh(s, st), NEW f, NEW value
  PROVE  Through(s, st, f, value) = value
BY DEF Fresh, Through

LEMMA StudentSent ==
  ASSUME NEW s, NEW o
  PROVE  /\ Fresh(s, "persist") =>
                Sent(s, "persist", o, StudentBind("insert"), StudentPersist)
                    = [c \in StudentColumnSet |-> o[MemberOf[c]]]
         /\ Fresh(s, "update") =>
                Sent(s, "update", o, StudentBind("update"), StudentUpdate)
                    = [c \in StudentColumnSet \ {"f_student_no"} |-> o[MemberOf[c]]]
<1>1. ASSUME NEW c \in StudentColumnSet
      PROVE  StudentBind("insert")[CHOOSE n \in DOMAIN StudentPersist : StudentPersist[n] = c]
                 = MemberOf[c]
  <2> DEFINE k == CHOOSE n \in DOMAIN StudentPersist : StudentPersist[n] = c
  <2>1. \E n \in DOMAIN StudentPersist : StudentPersist[n] = c
    BY StudentSets DEF ToSet
  <2>2. k \in DOMAIN StudentPersist /\ StudentPersist[k] = c
    BY <2>1
  <2> QED BY <2>2, StudentLists
<1>2. ASSUME NEW c \in StudentColumnSet \ {"f_student_no"}
      PROVE  StudentBind("update")[CHOOSE n \in DOMAIN StudentUpdate : StudentUpdate[n] = c]
                 = MemberOf[c]
  <2> DEFINE k == CHOOSE n \in DOMAIN StudentUpdate : StudentUpdate[n] = c
  <2>1. \E n \in DOMAIN StudentUpdate : StudentUpdate[n] = c
    BY StudentSets DEF ToSet
  <2>2. k \in DOMAIN StudentUpdate /\ StudentUpdate[k] = c
    BY <2>1
  <2> QED BY <2>2, StudentLists
<1>3. ASSUME Fresh(s, "persist")
      PROVE  Sent(s, "persist", o, StudentBind("insert"), StudentPersist)
                 = [c \in StudentColumnSet |-> o[MemberOf[c]]]
  BY <1>1, <1>3, StudentSets, ThroughFresh DEF Sent
<1>4. ASSUME Fresh(s, "update")
      PROVE  Sent(s, "update", o, StudentBind("update"), StudentUpdate)
                 = [c \in StudentColumnSet \ {"f_student_no"} |-> o[MemberOf[c]]]
  BY <1>2, <1>4, StudentSets, ThroughFresh DEF Sent
<1> QED BY <1>3, <1>4

\* The same for Classes, whose columns have the names of their members, and for the view.
LEMMA ClassesLists ==
  /\ DOMAIN ClassesBind("insert") = 1..2 /\ ClassesBind("select") = ClassesBind("insert")
  /\ ClassesBind("insert")[1] = "id" /\ ClassesBind("insert")[2] = "name"
  /\ DOMAIN ClassesBind("update") = 1..1 /\ ClassesBind("update")[1] = "name"
<1> DEFINE p == <<"id">>
           q == <<"name">>
<1>1. /\ p \in Seq(ClassesMembers) /\ q \in Seq(ClassesMembers)
      /\ Len(p) = 1 /\ Len(q) = 1 /\ p[1] = "id" /\ q[1] = "name" /\ DOMAIN q = 1..1
  BY DEF ClassesMembers, ClassesStrings
<1>2. /\ ClassesBind("insert") = p \o q /\ ClassesBind("select") = p \o q
      /\ ClassesBind("update") = <<>> \o q
  BY DEF ClassesBind
<1> HIDE DEF p, q
<1>3. /\ p \o q \in Seq(ClassesMembers) /\ Len(p \o q) = Len(p) + Len(q)
      /\ \A n \in 1..(Len(p) + Len(q)) :
             (p \o q)[n] = IF n <= Len(p) THEN p[n] ELSE q[n - Len(p)]
  <2>1. p \in Seq(ClassesMembers) /\ q \in Seq(ClassesMembers)
    BY <1>1
  <2> QED BY ONLY <2>1, ConcatProperties
<1>4. DOMAIN (p \o q) = 1..2 /\ (p \o q)[1] = "id" /\ (p \o q)[2] = "name"
  BY <1>1, <1>3, LenProperties
<1>5. <<>> \o q = q
  BY <1>1, ConcatEmptySeq
<1> QED BY <1>1, <1>2, <1>4, <1>5

LEMMA ClassesSent ==
  ASSUME NEW s, NEW o
  PROVE  /\ Fresh(s, "persist") =>
                Sent(s, "persist", o, ClassesBind("insert"), ClassesPersist)
                    = [c \in {"id", "name"} |-> o[c]]
         /\ Fresh(s, "update") =>
                Sent(s, "update", o, ClassesBind("update"), ClassesUpdate)
                    = [c \in {"name"} |-> o[c]]
<1>1. /\ ToSet(ClassesPersist) = {"id", "name"} /\ ToSet(ClassesUpdate) = {"name"}
      /\ DOMAIN ClassesPersist = 1..2 /\ ClassesPersist[1] = "id" /\ ClassesPersist[2] = "name"
      /\ DOMAIN ClassesUpdate = 1..1 /\ ClassesUpdate[1] = "name"
  BY DEF ClassesPersist, ClassesUpdate, ToSet
<1>2. ASSUME NEW c \in {"id", "name"}
      PROVE  ClassesBind("insert")[CHOOSE n \in DOMAIN ClassesPersist : ClassesPersist[n] = c] = c
  <2> DEFINE k == CHOOSE n \in DOMAIN ClassesPersist : ClassesPersist[n] = c
  <2>1. k \in DOMAIN ClassesPersist /\ ClassesPersist[k] = c
    BY <1>1
  <2> QED BY <2>1, <1>1, ClassesLists
<1>3. ASSUME NEW c \in {"name"}
      PROVE  ClassesBind("update")[CHOOSE n \in DOMAIN ClassesUpdate : ClassesUpdate[n] = c] = c
  <2> DEFINE k == CHOOSE n \in DOMAIN ClassesUpdate : ClassesUpdate[n] = c
  <2>1. k \in DOMAIN ClassesUpdate /\ ClassesUpdate[k] = c
    BY <1>1
  <2> QED BY <2>1, <1>1, ClassesLists
<1>4. ASSUME Fresh(s, "persist")
      PROVE  Sent(s, "persist", o, ClassesBind("insert"), ClassesPersist)
                 = [c \in {"id", "name"} |-> o[c]]
  BY <1>1, <1>2, <1>4, ThroughFresh DEF Sent
<1>5. ASSUME Fresh(s, "update")
      PROVE  Sent(s, "update", o, ClassesBind("update"), ClassesUpdate)
                 = [c \in {"name"} |-> o[c]]
  BY <1>1, <1>3, <1>5, ThroughFresh DEF Sent
<1> QED BY <1>4, <1>5

LEMMA ClassesReturned ==
  ASSUME NEW row
  PROVE  Returned(row, ClassesBind("select"), ClassesFind) = [f \in ClassesMembers |-> row[f]]
<1> DEFINE binds == ClassesBind("select")
<1>1. ClassesFind[1] = "id" /\ ClassesFind[2] = "name" /\ ClassesMembers = {"id", "name"}
  BY DEF ClassesFind, ClassesMembers, ClassesStrings
<1>2. /\ DOMAIN binds = 1..2 /\ ToSet(binds) = {"id", "name"}
      /\ binds[1] = "id" /\ binds[2] = "name"
  BY ClassesLists DEF ToSet
<1> HIDE DEF binds
<1>3. ASSUME NEW f \in {"id", "name"}
      PROVE  ClassesFind[CHOOSE n \in DOMAIN binds : binds[n] = f] = f
  <2> DEFINE k == CHOOSE n \in DOMAIN binds : binds[n] = f
  <2>1. k \in DOMAIN binds /\ binds[k] = f
    BY <1>2
  <2> QED BY <2>1, <1>1, <1>2
<1>4. Returned(row, binds, ClassesFind) = [f \in ClassesMembers |-> row[f]]
  BY <1>1, <1>2, <1>3 DEF Returned
<1> QED BY <1>4 DEF binds

LEMMA ViewReturned ==
  ASSUME NEW row
  PROVE  Returned(row, ViewBind("select"), ViewQuery)
             = [student_no |-> row["f_student_no"], student_name |-> row["name"],
                class_name |-> row["classes.name"], score |-> row["entrace_score"]]
<1> DEFINE binds == ViewBind("select")
           names == {"student_no", "student_name", "class_name", "score"}
           column == [student_no |-> "f_student_no", student_name |-> "name",
                      class_name |-> "classes.name", score |-> "entrace_score"]
<1>1. /\ DOMAIN binds = 1..4 /\ ToSet(binds) = names
      /\ binds[1] = "student_no" /\ binds[2] = "student_name"
      /\ binds[3] = "class_name" /\ binds[4] = "score"
  BY DEF ViewBind, ToSet
<1>2. /\ ViewQuery[1] = "f_student_no" /\ ViewQuery[2] = "name"
      /\ ViewQuery[3] = "classes.name" /\ ViewQuery[4] = "entrace_score"
  BY DEF ViewQuery
<1> HIDE DEF binds
<1>3. ASSUME NEW f \in names
      PROVE  ViewQuery[CHOOSE n \in DOMAIN binds : binds[n] = f] = column[f]
  <2> DEFINE k == CHOOSE n \in DOMAIN binds : binds[n] = f
  <2>1. k \in DOMAIN binds /\ binds[k] = f
    BY <1>1
  <2> QED BY <2>1, <1>1, <1>2
<1>4. Returned(row, binds, ViewQuery) = [f \in names |-> row[column[f]]]
  BY <1>1, <1>3 DEF Returned
<1> QED BY <1>4 DEF binds

-----------------------------------------------------------------------------
\* A statement that was just executed, on a binding that was made or found up to date, has the
\* pointers of the image.
LEMMA ExecuteFresh ==
  ASSUME NEW s, Sound(s), NEW st \in Statements, s.bound[BindingOf[st]].cap = s.cap
  PROVE  Fresh(Execute(s, st), st)
<1>1. CASE s.used[st].version # s.bound[BindingOf[st]].version
  BY <1>1 DEF Execute, Fresh, Sound, WellFormed
<1>2. CASE ~(s.used[st].version # s.bound[BindingOf[st]].version)
  BY <1>2 DEF Execute, Fresh, Sound, Coherent
<1> QED BY <1>1, <1>2

LEMMA BindFresh ==
  ASSUME NEW s, Sound(s), NEW b \in Bindings
  PROVE  Bind(s, b).bound[b].cap = Bind(s, b).cap
<1>1. CASE OutOfDate(s, b)
  BY <1>1 DEF Bind, Sound, WellFormed
<1>2. CASE ~OutOfDate(s, b)
  BY <1>2 DEF Bind, Sound, Coherent
<1> QED BY <1>1, <1>2

LEMMA BoundFresh ==
  ASSUME NEW s, Sound(s), NEW st \in Statements
  PROVE  Fresh(Execute(Bind(s, BindingOf[st]), st), st)
<1>1. BindingOf[st] \in Bindings
  BY BindingOfStatement
<1> QED BY <1>1, BindFresh, BindSound, ExecuteFresh

LEMMA UpdateFresh ==
  ASSUME NEW s, Sound(s)
  PROVE  Fresh(Execute(BindUpdate(s), "update"), "update")
<1>1. "update" \in Bindings /\ "update" \in Statements /\ BindingOf["update"] = "update"
  BY DEF Bindings, Statements, BindingOf
<1>2. BindUpdate(s).bound["update"].cap = BindUpdate(s).cap
  <2>1. CASE s.idBound
    BY <1>1, <2>1, BindFresh DEF BindUpdate
  <2>2. CASE ~s.idBound /\ OutOfDate(s, "update")
    <3> DEFINE n == Bind(s, "update")
    <3>1. n.bound["update"].cap = n.cap /\ Sound(n)
      BY <1>1, BindFresh, BindSound
    <3> HIDE DEF n
    <3>2. BindId(n).bound = n.bound /\ BindId(n).cap = n.cap
      BY <3>1 DEF BindId, Sound, WellFormed
    <3> QED BY <2>2, <3>1, <3>2 DEF BindUpdate, n
  <2>3. CASE ~s.idBound /\ ~OutOfDate(s, "update")
    <3> DEFINE n == [s EXCEPT !.bound["update"].version = @ + 1]
    <3>1. s.bound["update"].cap = s.cap
      BY <1>1, <2>3 DEF Sound, Coherent
    <3>2. n.cap = s.cap /\ n.bound["update"].cap = s.bound["update"].cap
          /\ DOMAIN n = DOMAIN s
      BY <1>1 DEF Sound, WellFormed, Shape
    <3> HIDE DEF n
    <3>3. BindId(n).bound = n.bound /\ BindId(n).cap = n.cap
      BY <3>2 DEF BindId, Sound, WellFormed
    <3>4. BindUpdate(s) = BindId(n)
      BY <2>3 DEF BindUpdate, n
    <3> QED BY <3>1, <3>2, <3>3, <3>4
  <2> QED BY <2>1, <2>2, <2>3
<1> QED BY <1>1, <1>2, BindUpdateSound, ExecuteFresh

\* What a fetch leaves in the image is the row, whether it was truncated at first or not.
LEMMA FetchedWhole ==
  ASSUME NEW s, Sound(s), NEW st \in {"find", "query"}, Fresh(s, st), NEW row
  PROVE  Fetched(s, st, row) = [f \in DOMAIN row |-> row[f]]
<1>1. st \in Statements /\ BindingOf[st] = "select"
  BY DEF Statements, BindingOf
<1>2. Fresh(Refetch(s, st, row), st)
  BY <1>1, GrowSound, BoundFresh DEF Refetch
<1>3. ASSUME NEW f \in DOMAIN row
      PROVE  Through(IF f \in Truncated(s, st, row) THEN Refetch(s, st, row) ELSE s,
                     st, f, row[f]) = row[f]
  BY <1>2, ThroughFresh
<1> QED BY <1>3 DEF Fetched

-----------------------------------------------------------------------------
(* The tables.                                                             *)

StudentRowOf(o)    == [c \in StudentColumnSet |-> o[MemberOf[c]]]
ClassesRowOf(n, o) == [id |-> n, name |-> o.name]

\* Under each number no row or the row of some object with this number.
TablesOK(t) ==
  /\ t \in [Student : [Ids -> StudentRows \cup {Absent}],
            Classes : [Ids -> ClassesRows \cup {Absent}]]
  /\ \A n \in Ids : t.Student[n] # Absent => t.Student[n].f_student_no = n
  /\ \A n \in Ids : t.Classes[n] # Absent => t.Classes[n].id = n

\* A row says what its object is, and there is such a row.
LEMMA RowOfStudent ==
  ASSUME NEW o \in StudentObjects
  PROVE  /\ StudentRowOf(o) \in StudentRows /\ StudentRowOf(o) # Absent
         /\ StudentRowOf(o).f_student_no = o.student_no /\ o.student_no \in Ids
         /\ ObjectOf("Student", StudentRowOf(o)) = o
<1>1. o \in [StudentMembers -> Nat] /\ o.student_no \in Ids
  BY DatabaseAssumption
<1>2. StudentRowOf(o) = RowOf(o, StudentColumns)
  BY StudentRow DEF StudentRowOf
<1>3. StudentRowOf(o) \in StudentRows /\ StudentRowOf(o) # Absent
  BY <1>2, DatabaseAssumption DEF StudentRows
<1>4. "f_student_no" \in StudentColumnSet /\ MemberOf["f_student_no"] = "student_no"
  BY DEF StudentColumnSet, StudentColumns, StudentMembers, MemberOf
<1>5. StudentRowOf(o).f_student_no = o.student_no
  BY <1>4 DEF StudentRowOf
<1>6. ObjectOf("Student", StudentRowOf(o))
          = [f \in StudentMembers |-> StudentRowOf(o)[StudentColumns[f]]]
  BY DEF ObjectOf
<1>7. \A f \in StudentMembers : StudentRowOf(o)[StudentColumns[f]] = o[f]
  BY StudentSets DEF StudentRowOf, StudentColumnSet
<1>8. ObjectOf("Student", StudentRowOf(o)) = o
  BY <1>1, <1>6, <1>7
<1> QED BY <1>1, <1>3, <1>5, <1>8

LEMMA RowOfClasses ==
  ASSUME NEW o \in ClassesObjects, NEW n \in Ids
  PROVE  /\ ClassesRowOf(n, o) \in ClassesRows /\ ClassesRowOf(n, o) # Absent
         /\ ObjectOf("Classes", ClassesRowOf(n, o)) = [o EXCEPT !.id = n]
<1>1. o \in [{"id", "name"} -> Nat]
  BY DatabaseAssumption DEF ClassesMembers, ClassesStrings
<1>2. ClassesRowOf(n, o) \in ClassesRows /\ ClassesRowOf(n, o) # Absent
  BY DatabaseAssumption DEF ClassesRows, ClassesRowOf
<1>3. ObjectOf("Classes", ClassesRowOf(n, o))
          = [f \in {"id", "name"} |-> ClassesRowOf(n, o)[ClassesColumns[f]]]
  BY DEF ObjectOf, ClassesMembers, ClassesStrings
<1>4. \A f \in {"id", "name"} : ClassesRowOf(n, o)[ClassesColumns[f]] = [o EXCEPT !.id = n][f]
  BY <1>1 DEF ClassesRowOf, ClassesColumns
<1>5. ObjectOf("Classes", ClassesRowOf(n, o)) = [o EXCEPT !.id = n]
  BY <1>1, <1>3, <1>4
<1> QED BY <1>2, <1>5

\* An update that sends all but the number keeps the number of the row.
Merged(sent, row) == [k \in DOMAIN row |-> IF k \in DOMAIN sent THEN sent[k] ELSE row[k]]

LEMMA StudentMerged ==
  ASSUME TablesOK(table), NEW o \in StudentObjects, table.Student[o.student_no] # Absent
  PROVE  Merged([c \in StudentColumnSet \ {"f_student_no"} |-> o[MemberOf[c]]],
                table.Student[o.student_no]) = StudentRowOf(o)
<1> DEFINE n == o.student_no
           old == table.Student[n]
<1>1. n \in Ids /\ StudentRowOf(o).f_student_no = n
  BY RowOfStudent
<1>2. old \in StudentRows /\ old.f_student_no = n
  BY <1>1 DEF TablesOK
<1>3. PICK p \in StudentObjects : old = RowOf(p, StudentColumns)
  BY <1>2 DEF StudentRows
<1>4. old = [c \in StudentColumnSet |-> p[MemberOf[c]]]
  BY <1>3, StudentRow
<1>5. "f_student_no" \in StudentColumnSet
  BY DEF StudentColumnSet, StudentColumns, StudentMembers
<1> HIDE DEF old, n
<1>6. old["f_student_no"] = o[MemberOf["f_student_no"]]
  BY <1>1, <1>2, <1>5 DEF StudentRowOf
<1> QED BY <1>4, <1>6 DEF Merged, StudentRowOf, old, n

LEMMA ClassesMerged ==
  ASSUME TablesOK(table), NEW n \in Ids, NEW o \in ClassesObjects, table.Classes[n] # Absent
  PROVE  Merged([c \in {"name"} |-> [o EXCEPT !.id = n][c]], table.Classes[n])
             = ClassesRowOf(n, o)
<1> DEFINE old == table.Classes[n]
<1>1. old \in ClassesRows /\ old.id = n
  BY DEF TablesOK
<1>2. DOMAIN old = {"id", "name"}
  BY <1>1 DEF ClassesRows
<1>3. o \in [{"id", "name"} -> Nat]
  BY DatabaseAssumption DEF ClassesMembers, ClassesStrings
<1> QED BY <1>1, <1>2, <1>3 DEF Merged, ClassesRowOf

-----------------------------------------------------------------------------
\* The tables are rows of objects, in the transaction and for the others.
DataInv == AllSound /\ TablesOK(table) /\ TablesOK(committed) /\ StoredIsLoaded

\* A row that is put or erased keeps the tables as they should be.
LEMMA PutStudent ==
  ASSUME NEW t, TablesOK(t), NEW n \in Ids,
         NEW row \in StudentRows \cup {Absent}, row # Absent => row.f_student_no = n
  PROVE  TablesOK([t EXCEPT !.Student[n] = row])
BY DEF TablesOK

LEMMA PutClasses ==
  ASSUME NEW t, TablesOK(t), NEW n \in Ids,
         NEW row \in ClassesRows \cup {Absent}, row # Absent => row.id = n
  PROVE  TablesOK([t EXCEPT !.Classes[n] = row])
BY DEF TablesOK

\* After an operation of which there is nothing to tell, and when nothing happens.
LEMMA NothingTold ==
  ASSUME last' = [op |-> "none"]
  PROVE  StoredIsLoaded'
BY DEF StoredIsLoaded

LEMMA SameTold ==
  ASSUME StoredIsLoaded, last' = last, table' = table
  PROVE  StoredIsLoaded'
BY DEF StoredIsLoaded

\* What was stored is the row that was put.
LEMMA StoredStudent ==
  ASSUME DataInv, NEW o \in StudentObjects,
         table' = [table EXCEPT !.Student[o.student_no] = StudentRowOf(o)],
         last' = [op |-> "stored", class |-> "Student", object |-> o]
  PROVE  TablesOK(table') /\ StoredIsLoaded'
<1>1. TablesOK(table')
  BY RowOfStudent, PutStudent DEF DataInv
<1>2. table'.Student[o.student_no] = StudentRowOf(o) /\ o.student_no \in Ids
  BY RowOfStudent DEF DataInv, TablesOK
<1>3. ObjectOf("Student", table'["Student"][o.student_no]) = o
  BY <1>2, RowOfStudent
<1>4. table'["Student"][o.student_no] # Absent
  BY <1>2, RowOfStudent
<1>5. StoredIsLoaded'
  <2>1. last'.op = "stored" /\ last'.class = "Student" /\ last'.object = o
    OBVIOUS
  <2>2. \E n \in Ids : /\ table'[last'.class][n] # Absent
                       /\ ObjectOf(last'.class, table'[last'.class][n]) = last'.object
    BY <1>2, <1>3, <1>4, <2>1
  <2> QED BY <2>1, <2>2 DEF StoredIsLoaded
<1> QED BY <1>1, <1>5

LEMMA StoredClasses ==
  ASSUME DataInv, NEW o \in ClassesObjects, NEW n \in Ids,
         table' = [table EXCEPT !.Classes[n] = ClassesRowOf(n, o)],
         last' = [op |-> "stored", class |-> "Classes", object |-> [o EXCEPT !.id = n]]
  PROVE  TablesOK(table') /\ StoredIsLoaded'
<1>1. TablesOK(table')
  <2>1. ClassesRowOf(n, o).id = n
    BY DEF ClassesRowOf
  <2> QED BY <2>1, RowOfClasses, PutClasses DEF DataInv
<1>2. table'["Classes"][n] = ClassesRowOf(n, o)
  BY DEF DataInv, TablesOK
<1>3. /\ table'["Classes"][n] # Absent
      /\ ObjectOf("Classes", table'["Classes"][n]) = [o EXCEPT !.id = n]
  BY <1>2, RowOfClasses
<1>4. StoredIsLoaded'
  <2>1. last'.op = "stored" /\ last'.class = "Classes" /\ last'.object = [o EXCEPT !.id = n]
    OBVIOUS
  <2>2. \E m \in Ids : /\ table'[last'.class][m] # Absent
                       /\ ObjectOf(last'.class, table'[last'.class][m]) = last'.object
    BY <1>3, <2>1
  <2> QED BY <2>1, <2>2 DEF StoredIsLoaded
<1> QED BY <1>1, <1>4

\* What was loaded is the row that was fetched.
LEMMA Told ==
  ASSUME NEW class, NEW row, NEW obj,
         last' = [op |-> "loaded", class |-> class, row |-> row, object |-> obj],
         ObjectOf(class, row) = obj
  PROVE  StoredIsLoaded'
<1>1. last'.op = "loaded" /\ last'.class = class /\ last'.row = row /\ last'.object = obj
  OBVIOUS
<1> QED BY <1>1 DEF StoredIsLoaded

LEMMA LoadedIsRow ==
  ASSUME NEW s, Sound(s), NEW st \in {"find", "query"}, Fresh(s, st), NEW row
  PROVE  /\ Loaded(s, st, Returned(row, StudentBind("select"), StudentFind))
                = ObjectOf("Student", row)
         /\ Loaded(s, st, Returned(row, ClassesBind("select"), ClassesFind))
                = ObjectOf("Classes", row)
         /\ Loaded(s, st, Returned(row, ViewBind("select"), ViewQuery))
                = ObjectOf("StudentClassView", row)
<1>1. Loaded(s, st, Returned(row, StudentBind("select"), StudentFind))
          = ObjectOf("Student", row)
  BY StudentReturned, FetchedWhole DEF Loaded, ObjectOf
<1>2. Loaded(s, st, Returned(row, ClassesBind("select"), ClassesFind))
          = ObjectOf("Classes", row)
  <2>1. ObjectOf("Classes", row) = [f \in ClassesMembers |-> row[f]]
    BY DEF ObjectOf, ClassesMembers, ClassesStrings, ClassesColumns
  <2> QED BY <2>1, ClassesReturned, FetchedWhole DEF Loaded
<1>3. Loaded(s, st, Returned(row, ViewBind("select"), ViewQuery))
          = ObjectOf("StudentClassView", row)
  BY ViewReturned, FetchedWhole DEF Loaded, ObjectOf
<1> QED BY <1>1, <1>2, <1>3

-----------------------------------------------------------------------------
\* The tables and what the last operation told, after a step.
DataKept == TablesOK(table)' /\ TablesOK(committed)' /\ StoredIsLoaded'

\* An operation that throws.
LEMMA ThrowsKeeps ==
  ASSUME DataInv, Throws, UNCHANGED committed
  PROVE  DataKept
BY NothingTold DEF Throws, DataInv, DataKept, TablesOK

LEMMA PersistStudentKeeps ==
  ASSUME DataInv, PersistStudent
  PROVE  DataKept
<1>1. PICK o \in StudentObjects :
          LET s == Persisted("Student", o)
          IN /\ Operation
             /\ IF table.Student[o.student_no] # Absent THEN Throws
                ELSE /\ table' = [table EXCEPT !.Student[o.student_no] =
                                     Sent(s, "persist", o, StudentBind("insert"), StudentPersist)]
                     /\ Succeeds([op |-> "stored", class |-> "Student", object |-> o])
  BY DEF PersistStudent
<1> DEFINE s == Persisted("Student", o)
<1>2. committed' = committed
  BY <1>1 DEF Operation
<1>3. CASE table.Student[o.student_no] # Absent
  BY <1>1, <1>2, <1>3, ThrowsKeeps
<1>4. CASE ~(table.Student[o.student_no] # Absent)
  <2>1. Sound(InitImage(sts["Student"], o))
    BY ClassesOfStrings, InitImageSound DEF DataInv, AllSound
  <2>2. Fresh(s, "persist")
    BY <2>1, BoundFresh DEF Persisted, Statements, BindingOf
  <2> HIDE DEF s
  <2>3. Sent(s, "persist", o, StudentBind("insert"), StudentPersist) = StudentRowOf(o)
    BY <2>2, StudentSent DEF StudentRowOf
  <2>4. /\ table' = [table EXCEPT !.Student[o.student_no] = StudentRowOf(o)]
        /\ last' = [op |-> "stored", class |-> "Student", object |-> o]
    BY <1>1, <1>4, <2>3 DEF Succeeds, s
  <2>5. TablesOK(table') /\ StoredIsLoaded'
    BY <2>4, StoredStudent
  <2> QED BY <1>2, <2>5 DEF DataInv, DataKept, TablesOK
<1> QED BY <1>3, <1>4

LEMMA PersistClassesKeeps ==
  ASSUME DataInv, PersistClasses
  PROVE  DataKept
<1>1. PICK o \in ClassesObjects :
          LET s   == BindId(Persisted("Classes", o))
              row == Sent(s, "persist", [o EXCEPT !.id = 0], ClassesBind("insert"),
                          ClassesPersist)
          IN /\ Operation /\ nextId \in Ids
             /\ table' = [table EXCEPT !.Classes[nextId] = [row EXCEPT !.id = nextId]]
             /\ Succeeds([op |-> "stored", class |-> "Classes",
                          object |-> [o EXCEPT !.id = nextId]])
  BY DEF PersistClasses
<1> DEFINE k == Persisted("Classes", o)
           s == BindId(k)
<1>2. committed' = committed
  BY <1>1 DEF Operation
<1>3. Sound(InitImage(sts["Classes"], o))
  BY ClassesOfStrings, InitImageSound DEF DataInv, AllSound
<1>4. Fresh(k, "persist")
  BY <1>3, BoundFresh DEF Persisted, Statements, BindingOf
<1>5. Sound(k)
  BY ClassesOfStrings, PersistedSound DEF DataInv
<1> HIDE DEF k
<1>6. Fresh(s, "persist")
  BY <1>4, <1>5 DEF Fresh, BindId, Sound, WellFormed
<1> HIDE DEF s
<1>7. Sent(s, "persist", [o EXCEPT !.id = 0], ClassesBind("insert"), ClassesPersist)
          = [c \in {"id", "name"} |-> [o EXCEPT !.id = 0][c]]
  BY <1>6, ClassesSent
<1>8. o \in [{"id", "name"} -> Nat]
  BY DatabaseAssumption DEF ClassesMembers, ClassesStrings
<1>9. [[c \in {"id", "name"} |-> [o EXCEPT !.id = 0][c]] EXCEPT !.id = nextId]
          = ClassesRowOf(nextId, o)
  BY <1>8 DEF ClassesRowOf
<1>10. /\ table' = [table EXCEPT !.Classes[nextId] = ClassesRowOf(nextId, o)]
       /\ last' = [op |-> "stored", class |-> "Classes", object |-> [o EXCEPT !.id = nextId]]
  BY <1>1, <1>7, <1>9 DEF Succeeds, s, k
<1>11. TablesOK(table') /\ StoredIsLoaded'
  BY <1>1, <1>10, StoredClasses
<1> QED BY <1>2, <1>11 DEF DataInv, DataKept, TablesOK

\* What Update puts in the table.
LEMMA UpdateEffect ==
  ASSUME NEW c, NEW o, NEW id, NEW binds, NEW columns, Update(c, o, id, binds, columns)
  PROVE  /\ committed' = committed
         /\ \/ Throws
            \/ /\ table[c][id] # Absent
               /\ table' = [table EXCEPT ![c][id] =
                      Merged(Sent(Updated(c, o), "update", o, binds, columns), table[c][id])]
               /\ last' = [op |-> "stored", class |-> c, object |-> o]
BY DEF Update, Operation, Succeeds, Merged

LEMMA UpdatedFresh ==
  ASSUME DataInv, NEW c \in DOMAIN Strings, NEW o
  PROVE  Fresh(Updated(c, o), "update")
BY InitImageSound, UpdateFresh DEF DataInv, AllSound, Updated

LEMMA UpdateStudentKeeps ==
  ASSUME DataInv, UpdateStudent
  PROVE  DataKept
<1>1. PICK o \in StudentObjects :
          Update("Student", o, o.student_no, StudentBind("update"), StudentUpdate)
  BY DEF UpdateStudent
<1> DEFINE n == o.student_no
           s == Updated("Student", o)
<1>2. Fresh(s, "update")
  BY ClassesOfStrings, UpdatedFresh
<1> HIDE DEF s
<1>3. Sent(s, "update", o, StudentBind("update"), StudentUpdate)
          = [c \in StudentColumnSet \ {"f_student_no"} |-> o[MemberOf[c]]]
  BY <1>2, StudentSent
<1>4. /\ committed' = committed
      /\ \/ Throws
         \/ /\ table["Student"][n] # Absent
            /\ table' = [table EXCEPT !["Student"][n] =
                   Merged([c \in StudentColumnSet \ {"f_student_no"} |-> o[MemberOf[c]]],
                          table["Student"][n])]
            /\ last' = [op |-> "stored", class |-> "Student", object |-> o]
  BY <1>1, <1>3, UpdateEffect DEF s
<1>5. CASE Throws
  BY <1>4, <1>5, ThrowsKeeps
<1>6. CASE ~Throws
  <2>1. table["Student"][n] # Absent
    BY <1>4, <1>6
  <2>2. Merged([c \in StudentColumnSet \ {"f_student_no"} |-> o[MemberOf[c]]],
               table["Student"][n]) = StudentRowOf(o)
    BY <2>1, StudentMerged DEF DataInv
  <2>3. TablesOK(table') /\ StoredIsLoaded'
    BY <1>4, <1>6, <2>2, StoredStudent
  <2> QED BY <1>4, <2>3 DEF DataInv, DataKept, TablesOK
<1> QED BY <1>5, <1>6

LEMMA UpdateClassesKeeps ==
  ASSUME DataInv, UpdateClasses
  PROVE  DataKept
<1>1. PICK o \in ClassesObjects, n \in Ids :
          Update("Classes", [o EXCEPT !.id = n], n, ClassesBind("update"), ClassesUpdate)
  BY DEF UpdateClasses
<1> DEFINE p == [o EXCEPT !.id = n]
           s == Updated("Classes", p)
           sent == [c \in {"name"} |-> p[c]]
<1>2. Fresh(s, "update")
  BY ClassesOfStrings, UpdatedFresh
<1>3. Sent(s, "update", p, ClassesBind("update"), ClassesUpdate) = sent
  BY <1>2, ClassesSent
<1>4. /\ committed' = committed
      /\ \/ Throws
         \/ /\ table["Classes"][n] # Absent
            /\ table' = [table EXCEPT !["Classes"][n] = Merged(sent, table["Classes"][n])]
            /\ last' = [op |-> "stored", class |-> "Classes", object |-> p]
  BY <1>1, <1>3, UpdateEffect
<1>5. CASE Throws
  BY <1>4, <1>5, ThrowsKeeps
<1>6. CASE ~Throws
  <2>1. table["Classes"][n] # Absent
    BY <1>4, <1>6
  <2>2. Merged(sent, table["Classes"][n]) = ClassesRowOf(n, o)
    BY <2>1, ClassesMerged DEF DataInv
  <2>3. TablesOK(table') /\ StoredIsLoaded'
    BY <1>4, <1>6, <2>2, StoredClasses
  <2> QED BY <1>4, <2>3 DEF DataInv, DataKept, TablesOK
<1> QED BY <1>5, <1>6

\* What an operation that erases leaves.
LEMMA EraseDataKeeps ==
  ASSUME DataInv, NEW n \in Ids, Erase("Student", n) \/ Erase("Classes", n)
  PROVE  DataKept
<1>1. committed' = committed
  BY DEF Erase, Operation
<1>2. CASE Throws
  BY <1>1, <1>2, ThrowsKeeps
<1>3. CASE ~Throws
  <2>1. /\ last' = [op |-> "none"]
        /\ \/ table' = [table EXCEPT !["Student"][n] = Absent]
           \/ table' = [table EXCEPT !["Classes"][n] = Absent]
    BY <1>3 DEF Erase, Succeeds
  <2>2. TablesOK(table')
    BY <2>1, PutStudent, PutClasses DEF DataInv
  <2> QED BY <1>1, <2>1, <2>2, NothingTold DEF DataInv, DataKept, TablesOK
<1> QED BY <1>2, <1>3

LEMMA EraseQueryKeeps ==
  ASSUME DataInv, EraseQueryStudent \/ EraseQueryClasses
  PROVE  DataKept
<1>1. committed' = committed /\ last' = [op |-> "none"]
  BY DEF EraseQueryStudent, EraseQueryClasses, EraseQuery, Operation, Succeeds
<1>2. TablesOK(table)'
  <2>1. PICK where :
            \/ table' = [table EXCEPT !["Student"] =
                            [n \in Ids |-> IF n \in where THEN Absent ELSE @[n]]]
            \/ table' = [table EXCEPT !["Classes"] =
                            [n \in Ids |-> IF n \in where THEN Absent ELSE @[n]]]
    BY DEF EraseQueryStudent, EraseQueryClasses, EraseQuery
  <2> QED BY <2>1 DEF DataInv, TablesOK
<1> QED BY <1>1, <1>2, NothingTold DEF DataInv, DataKept, TablesOK

\* What Find tells, of a row that is there.
LEMMA FindKeepsData ==
  ASSUME DataInv, FindStudent \/ FindClasses
  PROVE  DataKept
<1>1. committed' = committed /\ table' = table
  BY DEF FindStudent, FindClasses, Find, Operation, Throws
<1>2. StoredIsLoaded'
  <2> DEFINE binds(c)   == IF c = "Student" THEN StudentBind("select") ELSE ClassesBind("select")
             columns(c) == IF c = "Student" THEN StudentFind ELSE ClassesFind
  <2>1. PICK c \in {"Student", "Classes"}, n \in Ids : Find(c, n, binds(c), columns(c))
    <3>1. CASE FindStudent
      <4>1. PICK n \in Ids : Find("Student", n, binds("Student"), columns("Student"))
        BY <3>1 DEF FindStudent
      <4> QED BY <4>1
    <3>2. CASE FindClasses
      <4>1. PICK n \in Ids : Find("Classes", n, binds("Classes"), columns("Classes"))
        BY <3>2 DEF FindClasses
      <4> QED BY <4>1
    <3> QED BY <3>1, <3>2
  <2> DEFINE s == Selected(c)
             row == table[c][n]
  <2>2. CASE table[c][n] = Absent \/ Throws
    <3>1. last' = [op |-> "none"]
      BY <2>1, <2>2 DEF Find, Succeeds, Throws
    <3> QED BY <3>1, NothingTold
  <2>3. CASE table[c][n] # Absent
    <3>1. last' = [op |-> "loaded", class |-> c, row |-> row,
                   object |-> Loaded(s, "find", Returned(row, binds(c), columns(c)))]
      BY <2>1, <2>3 DEF Find, Succeeds
    <3>2. Sound(BindId(sts[c])) /\ Sound(s)
      BY ClassesOfStrings, SelectedSound, BindIdSound DEF DataInv, AllSound
    <3>3. Fresh(s, "find")
      BY <3>2, BoundFresh DEF Selected, Statements, BindingOf
    <3> HIDE DEF s, row
    <3>4. Loaded(s, "find", Returned(row, binds(c), columns(c))) = ObjectOf(c, row)
      BY <2>1, <3>2, <3>3, LoadedIsRow
    <3> QED BY <3>1, <3>4, Told
  <2> QED BY <2>2, <2>3
<1> QED BY <1>1, <1>2 DEF DataInv, DataKept, TablesOK

LEMMA NextRowKeepsData ==
  ASSUME DataInv, NextStudent \/ NextClasses \/ NextView
  PROVE  DataKept
<1>1. committed' = committed /\ table' = table
  BY DEF NextStudent, NextClasses, NextView, Next_, Operation
<1>2. StoredIsLoaded'
  <2>1. PICK c, binds, columns :
            /\ c \in {"Student", "Classes", "StudentClassView"}
            /\ result.class = c /\ Next_(binds, columns)
            /\ \/ c = "Student" /\ binds = StudentBind("select") /\ columns = StudentFind
               \/ c = "Classes" /\ binds = ClassesBind("select") /\ columns = ClassesFind
               \/ c = "StudentClassView" /\ binds = ViewBind("select") /\ columns = ViewQuery
    <3>1. ClassesQuery = ClassesFind /\ StudentQuery = StudentFind
      BY StudentSets DEF ClassesQuery, ClassesFind
    <3> QED BY <3>1 DEF NextStudent, NextClasses, NextView
  <2> DEFINE s == Execute(Bind(sts[c], "select"), "query")
  <2>2. PICK row : last' = [op |-> "loaded", class |-> c, row |-> row,
                            object |-> Loaded(s, "query", Returned(row, binds, columns))]
    BY <2>1 DEF Next_
  <2>3. Sound(sts[c]) /\ Sound(Bind(sts[c], "select"))
    BY <2>1, ClassesOfStrings, BindSound DEF DataInv, AllSound, Bindings
  <2>4. Sound(s) /\ Fresh(s, "query")
    BY <2>3, ExecuteSound, BoundFresh DEF Statements, BindingOf
  <2> HIDE DEF s
  <2>5. Loaded(s, "query", Returned(row, binds, columns)) = ObjectOf(c, row)
    BY <2>1, <2>4, LoadedIsRow
  <2> QED BY <2>2, <2>5, Told
<1> QED BY <1>1, <1>2 DEF DataInv, DataKept, TablesOK

\* Another client's rows are rows of objects, too.
LEMMA ElsewhereKeeps ==
  ASSUME DataInv, Elsewhere
  PROVE  DataKept
<1>1. last' = [op |-> "none"] /\ table' = committed'
  BY DEF Elsewhere
<1>2. CASE \E n \in Ids, row \in StudentRows \cup {Absent} :
               /\ row # Absent => row.f_student_no = n
               /\ committed' = [committed EXCEPT !.Student[n] = row]
  <2>1. TablesOK(committed')
    BY <1>2, PutStudent DEF DataInv
  <2> QED BY <1>1, <2>1, NothingTold DEF DataKept, TablesOK
<1>3. CASE \E n \in Ids, row \in ClassesRows \cup {Absent} :
               /\ row # Absent => row.id = n
               /\ committed' = [committed EXCEPT !.Classes[n] = row]
  <2>1. TablesOK(committed')
    BY <1>3, PutClasses DEF DataInv
  <2> QED BY <1>1, <2>1, NothingTold DEF DataKept, TablesOK
<1> QED BY <1>2, <1>3 DEF Elsewhere

LEMMA DataInitial ==
  ASSUME Init
  PROVE  DataInv
<1>1. TablesOK(table) /\ table = committed
  BY DEF Init, TablesOK
<1>2. last.op = "none"
  BY DEF Init
<1>3. StoredIsLoaded
  BY <1>2 DEF StoredIsLoaded
<1> QED BY <1>1, <1>3, InitSound DEF DataInv

\* A step keeps the invariant: one case per action.
LEMMA DataStep ==
  ASSUME DataInv, [Next]_vars
  PROVE  DataInv'
<1> SUFFICES DataKept
  BY NextSound DEF DataInv, DataKept
<1>1. CASE UNCHANGED vars
  BY <1>1, SameTold DEF vars, DataInv, DataKept, TablesOK
<1>2. CASE Elsewhere
  BY <1>2, ElsewhereKeeps
<1>3. CASE Begin \/ Throw
  <2>1. UNCHANGED <<table, committed>> /\ (UNCHANGED last \/ last' = [op |-> "none"])
    BY <1>3 DEF Begin, Throw
  <2> QED BY <2>1, NothingTold, SameTold DEF DataInv, DataKept, TablesOK
<1>4. CASE Commit \/ Rollback
  <2>1. /\ last' = [op |-> "none"]
        /\ \/ committed' = table /\ table' = table
           \/ committed' = committed /\ table' = committed
    BY <1>4 DEF Commit, Committed, Rollback
  <2> QED BY <2>1, NothingTold DEF DataInv, DataKept, TablesOK
<1>5. CASE PersistStudent
  BY <1>5, PersistStudentKeeps
<1>6. CASE PersistClasses
  BY <1>6, PersistClassesKeeps
<1>7. CASE UpdateStudent
  BY <1>7, UpdateStudentKeeps
<1>8. CASE UpdateClasses
  BY <1>8, UpdateClassesKeeps
<1>9. CASE EraseStudent \/ EraseClasses
  BY <1>9, EraseDataKeeps DEF EraseStudent, EraseClasses
<1>10. CASE EraseQueryStudent \/ EraseQueryClasses
  BY <1>10, EraseQueryKeeps
<1>11. CASE FindStudent \/ FindClasses
  BY <1>11, FindKeepsData
<1>12. CASE QueryStudent \/ QueryClasses \/ QueryView
  <2>1. UNCHANGED <<table, committed>> /\ last' = [op |-> "none"]
    BY <1>12 DEF QueryStudent, QueryClasses, QueryView, Query, Operation
  <2> QED BY <2>1, NothingTold DEF DataInv, DataKept, TablesOK
<1>13. CASE NextStudent \/ NextClasses \/ NextView
  BY <1>13, NextRowKeepsData
<1> QED
  BY <1>1, <1>2, <1>3, <1>4, <1>5, <1>6, <1>7, <1>8, <1>9, <1>10, <1>11, <1>12, <1>13 DEF Next

\* What persist and update store and what find and the queries load, through the positions of
\* student-odb.cxx: for any objects and any rows of other clients, each value goes to its own
\* column and comes back from it, and no buffer that was replaced is read.
THEOREM StoredComesBack == Spec => []StoredIsLoaded
<1>1. Init => DataInv
  BY DataInitial
<1>2. DataInv /\ [Next]_vars => DataInv'
  BY DataStep
<1>3. DataInv => StoredIsLoaded
  BY DEF DataInv
<1> QED BY <1>1, <1>2, <1>3, PTL DEF Spec

-----------------------------------------------------------------------------
(* The loops over sequences, turn by turn: FoldLeft of the modules.        *)

\* A turn of one of the loops over a sequence there are: of _InternalParse over the records of
\* a wire, of CleanAndSplit and of Parse over the lines of a playlist.
Parsing(class) == [loop |-> "_InternalParse", class |-> class]

Cleaning       == [loop |-> "CleanAndSplit"]

Reading        == [loop |-> "Parse"]

Writing        == [loop |-> "Serialize"]

Turn(k, p, r) ==
    IF k.loop = "_InternalParse" THEN ParseRecord(k.class, p, r)
    ELSE IF k.loop = "CleanAndSplit" THEN Playlist!AddLine(p, r)
    ELSE IF k.loop = "Parse" THEN Playlist!ParseLine(p, r)
    ELSE p \o <<Playlist!Inf, r>>

\* The states of a loop: p, and then one turn after the other.
States(k, p, w, h) == h[0] = p /\ \A i \in 1..Len(w) : h[i] = Turn(k, h[i - 1], w[i])

Loop(k, p, w) == (CHOOSE h : States(k, p, w, h))[Len(w)]

\* The fold over the first n elements, as a function on the sets of indices.
IsFold(k, p, w, n, f) ==
    f = [s \in SUBSET (1..n) |-> IF s = {} THEN p ELSE Turn(k, f[s \ {Max(s)}], w[Max(s)])]

\* It exists.
LEMMA FoldExists ==
    ASSUME NEW k, NEW p, NEW w, NEW N \in Nat
    PROVE  \E f : IsFold(k, p, w, N, f)
<1> DEFINE P == {n \in 0..N : \E f : IsFold(k, p, w, n, f)}
<1>1. 0 \in P
  <2>1. IsFold(k, p, w, 0, [s \in SUBSET (1..0) |-> p])
    <3>1. \A s \in SUBSET (1..0) : s = {}
      OBVIOUS
    <3> QED BY <3>1 DEF IsFold
  <2> QED BY <2>1
<1>2. ASSUME NEW n \in Nat, n < N, n \in P
      PROVE  n + 1 \in P
  <2>1. PICK f : IsFold(k, p, w, n, f)
    BY <1>2
  <2> DEFINE g == [s \in SUBSET (1..(n + 1)) |->
                      IF n + 1 \in s THEN Turn(k, f[s \ {n + 1}], w[n + 1]) ELSE f[s]]
  <2>2. ASSUME NEW s \in SUBSET (1..(n + 1))
        PROVE  g[s] = IF s = {} THEN p ELSE Turn(k, g[s \ {Max(s)}], w[Max(s)])
    <3>1. CASE n + 1 \in s
      <4>1. Max(s) = n + 1
        <5>1. s \in SUBSET Nat /\ \A i \in s : i <= n + 1
          OBVIOUS
        <5> QED BY <3>1, <5>1, MaxIs
      <4>2. s \ {n + 1} \in SUBSET (1..n) /\ s \ {n + 1} \in SUBSET (1..(n + 1))
        OBVIOUS
      <4>3. g[s \ {n + 1}] = f[s \ {n + 1}]
        BY <4>2
      <4> QED BY <3>1, <4>1, <4>3
    <3>2. CASE n + 1 \notin s
      <4>1. s \in SUBSET (1..n)
        BY <3>2
      <4>2. g[s] = f[s] /\ f[s] = IF s = {} THEN p ELSE Turn(k, f[s \ {Max(s)}], w[Max(s)])
        BY <2>1, <3>2, <4>1 DEF IsFold
      <4>3. s # {} => n + 1 \notin s \ {Max(s)} /\ s \ {Max(s)} \in SUBSET (1..(n + 1))
        BY <3>2
      <4>4. s # {} => g[s \ {Max(s)}] = f[s \ {Max(s)}]
        BY <4>3
      <4> QED BY <4>2, <4>4
    <3> QED BY <3>1, <3>2
  <2> HIDE DEF g
  <2>3. IsFold(k, p, w, n + 1, g)
    BY <2>2 DEF IsFold, g
  <2> QED BY <1>2, <2>3
<1> HIDE DEF P
<1>3. N \in P
  BY <1>1, <1>2, UpTo
<1> QED BY <1>3 DEF P

\* On the first indices, it has the states of the loop.
LEMMA FoldStates ==
    ASSUME NEW k, NEW p, NEW w, IsSeq(w), NEW f, IsFold(k, p, w, Len(w), f)
    PROVE  \E h : States(k, p, w, h) /\ h[Len(w)] = f[1..Len(w)]
<1>1. DOMAIN w = 1..Len(w) /\ Len(w) \in Nat
  BY LenProperties DEF IsSeq
<1> DEFINE h == [i \in 0..Len(w) |-> f[1..i]]
<1>4. h[0] = p
  <2>1. 1..0 = {} /\ {} \in SUBSET (1..Len(w))
    OBVIOUS
  <2>2. f[{}] = p
    BY <2>1 DEF IsFold
  <2> QED BY <1>1, <2>1, <2>2
<1>5. ASSUME NEW i \in 1..Len(w)
      PROVE  h[i] = Turn(k, h[i - 1], w[i])
  <2>1. Max(1..i) = i
    <3>1. 1..i \in SUBSET Nat /\ i \in 1..i /\ \A j \in 1..i : j <= i
      OBVIOUS
    <3> QED BY <3>1, MaxIs
  <2>2. (1..i) \ {i} = 1..(i - 1) /\ 1..i \in SUBSET (1..Len(w)) /\ 1..i # {}
    BY <1>1
  <2>3. f[1..i] = Turn(k, f[1..(i - 1)], w[i])
    BY <2>1, <2>2 DEF IsFold
  <2> QED BY <1>1, <2>3
<1> HIDE DEF h
<1>6. h[Len(w)] = f[1..Len(w)]
  BY <1>1 DEF h
<1> QED BY <1>4, <1>5, <1>6 DEF States

\* So a loop has states, and ends in the last of them.
LEMMA LoopStates ==
    ASSUME NEW k, NEW p, NEW w, IsSeq(w)
    PROVE  \E h : States(k, p, w, h) /\ Loop(k, p, w) = h[Len(w)]
<1>1. Len(w) \in Nat
  BY LenProperties DEF IsSeq
<1>2. PICK f : IsFold(k, p, w, Len(w), f)
  BY <1>1, FoldExists
<1>3. \E h : States(k, p, w, h)
  BY <1>2, FoldStates
<1> QED BY <1>3 DEF Loop

\* They are the only ones.
LEMMA StatesUnique ==
    ASSUME NEW k, NEW p, NEW w, Len(w) \in Nat,
           NEW g, States(k, p, w, g), NEW h, States(k, p, w, h)
    PROVE  g[Len(w)] = h[Len(w)]
<1> DEFINE n == Len(w)
           P == {i \in 0..n : g[i] = h[i]}
<1>1. 0 \in P
  BY DEF States
<1>2. ASSUME NEW i \in Nat, i < n, i \in P
      PROVE  i + 1 \in P
  <2>1. i + 1 \in 1..n /\ (i + 1) - 1 = i /\ g[i] = h[i]
    BY <1>2
  <2>2. g[i + 1] = Turn(k, g[i], w[i + 1]) /\ h[i + 1] = Turn(k, h[i], w[i + 1])
    BY <2>1 DEF States
  <2> QED BY <2>1, <2>2
<1> HIDE DEF P
<1> HIDE DEF n
<1>3. n \in P
  <2>1. n \in Nat
    BY DEF n
  <2>2. \A i \in 0..n : i \in P
    BY <1>1, <1>2, <2>1, UpTo
  <2> QED BY <2>1, <2>2
<1> QED BY <1>3 DEF P, n

\* Any states of a loop end as the loop does.
LEMMA LoopIs ==
    ASSUME NEW k, NEW p, NEW w, IsSeq(w), NEW h, States(k, p, w, h)
    PROVE  Loop(k, p, w) = h[Len(w)]
<1>1. PICK g : States(k, p, w, g) /\ Loop(k, p, w) = g[Len(w)]
  BY LoopStates
<1>2. Len(w) \in Nat
  BY LenProperties DEF IsSeq
<1> QED BY <1>1, <1>2, StatesUnique

\* Nothing changes nothing, one element is one turn, and two sequences one after the other.
LEMMA LoopEmpty ==
    ASSUME NEW k, NEW p
    PROVE  Loop(k, p, <<>>) = p
<1>1. IsSeq(<<>>) /\ Len(<<>>) = 0
  BY DEF IsSeq
<1> QED BY <1>1, LoopStates DEF States

\* One element is one turn.
LEMMA LoopOne ==
    ASSUME NEW k, NEW p, NEW r
    PROVE  Loop(k, p, <<r>>) = Turn(k, p, r)
<1>1. <<r>> \in Seq({r}) /\ Len(<<r>>) = 1 /\ <<r>>[1] = r
  OBVIOUS
<1>2. IsSeq(<<r>>)
  BY <1>1, SeqIsSeq
<1> QED BY <1>1, <1>2, LoopStates DEF States

\* Two sequences one after the other are two loops.
LEMMA LoopConcat ==
    ASSUME NEW k, NEW p, NEW v, IsSeq(v), NEW w, IsSeq(w)
    PROVE  Loop(k, p, v \o w) = Loop(k, Loop(k, p, v), w)
<1>1. PICK g : States(k, p, v, g) /\ Loop(k, p, v) = g[Len(v)]
  BY LoopStates
<1>2. PICK h : States(k, g[Len(v)], w, h) /\ Loop(k, g[Len(v)], w) = h[Len(w)]
  BY LoopStates
<1> DEFINE S == ToSet(v) \cup ToSet(w)
           b == [i \in 0..(Len(v) + Len(w)) |-> IF i <= Len(v) THEN g[i] ELSE h[i - Len(v)]]
<1>3. v \in Seq(S) /\ w \in Seq(S)
  BY SeqMonotonic DEF IsSeq
<1>4. /\ Len(v) \in Nat /\ Len(w) \in Nat /\ Len(v \o w) = Len(v) + Len(w)
      /\ \A i \in 1..Len(v) : (v \o w)[i] = v[i]
      /\ \A i \in 1..Len(w) : (v \o w)[Len(v) + i] = w[i]
  BY <1>3, ConcatProperties, LenProperties
<1>5. IsSeq(v \o w)
  BY ConcatIsSeq
<1>6. b[0] = p
  BY <1>1, <1>4 DEF States
<1>7. ASSUME NEW i \in 1..(Len(v) + Len(w))
      PROVE  b[i] = Turn(k, b[i - 1], (v \o w)[i])
  <2>1. CASE i <= Len(v)
    <3>1. i \in 1..Len(v) /\ b[i] = g[i] /\ b[i - 1] = g[i - 1]
      BY <1>4, <2>1
    <3> QED BY <1>1, <1>4, <3>1 DEF States
  <2>2. CASE i > Len(v)
    <3> DEFINE j == i - Len(v)
    <3>1. j \in 1..Len(w) /\ i = Len(v) + j /\ b[i] = h[j]
      BY <1>4, <2>2
    <3>2. b[i - 1] = h[j - 1]
      <4>1. CASE j = 1
        <5>1. i - 1 = Len(v) /\ b[i - 1] = g[Len(v)] /\ h[0] = g[Len(v)]
          BY <1>2, <1>4, <4>1 DEF States
        <5> QED BY <4>1, <5>1
      <4>2. CASE j # 1
        BY <1>4, <2>2, <4>2
      <4> QED BY <4>1, <4>2
    <3> HIDE DEF j
    <3> QED BY <1>2, <1>4, <3>1, <3>2 DEF States
  <2> QED BY <1>4, <2>1, <2>2
<1>8. b[Len(v) + Len(w)] = h[Len(w)]
  <2>1. CASE Len(w) = 0
    BY <1>2, <1>4, <2>1 DEF States
  <2>2. CASE Len(w) # 0
    BY <1>4, <2>2
  <2> QED BY <2>1, <2>2
<1> HIDE DEF b
<1>9. States(k, p, v \o w, b)
  BY <1>4, <1>6, <1>7 DEF States
<1>10. Loop(k, p, v \o w) = b[Len(v \o w)]
  BY <1>5, <1>9, LoopIs
<1> QED BY <1>1, <1>2, <1>4, <1>8, <1>10

ParseLoop(class, p, w) == Loop(Parsing(class), p, w)

\* A turn of _InternalParse takes one record.
LEMMA ParsingTurn ==
    ASSUME NEW class, NEW p, NEW r
    PROVE  Turn(Parsing(class), p, r) = ParseRecord(class, p, r)
BY DEF Turn, Parsing

\* MergeFromWire (person::_InternalParse) is that loop.
LEMMA MergeIsLoop ==
    ASSUME NEW class, NEW m, NEW w, IsSeq(w)
    PROVE  MergeFromWire(class, m, w) = ParseLoop(class, [message |-> m, status |-> "parsing"], w)
<1> DEFINE p == [message |-> m, status |-> "parsing"]
           Is(f) == f = [s \in SUBSET (1..Len(w)) |->
                            IF s = {} THEN p ELSE ParseRecord(class, f[s \ {Max(s)}], w[Max(s)])]
           f == CHOOSE f : Is(f)
<1>1. DOMAIN w = 1..Len(w) /\ Len(w) \in Nat
  BY LenProperties DEF IsSeq
<1>2. \A g : Is(g) <=> IsFold(Parsing(class), p, w, Len(w), g)
  <2>1. \A q, r : Turn(Parsing(class), q, r) = ParseRecord(class, q, r)
    BY ParsingTurn
  <2> QED BY Zenon, <2>1 DEF IsFold
<1>3. MergeFromWire(class, m, w) = f[1..Len(w)]
  BY <1>1 DEF MergeFromWire, FoldLeft, MapThenFoldSet
<1>4. IsFold(Parsing(class), p, w, Len(w), f)
  <2> HIDE DEF Is
  <2>1. \E g : Is(g)
    BY <1>1, <1>2, FoldExists
  <2> QED BY <1>2, <2>1
<1> HIDE DEF f, p
<1>5. PICK h : States(Parsing(class), p, w, h) /\ h[Len(w)] = f[1..Len(w)]
  BY <1>4, FoldStates
<1> QED BY <1>3, <1>5, LoopIs DEF ParseLoop, p

\* ParseFromString is that loop, from a new message.
LEMMA ParseIs ==
    ASSUME NEW class, NEW w, IsSeq(w)
    PROVE  LET p == ParseLoop(class, [message |-> New(class), status |-> "parsing"], w)
           IN /\ Parse(class, w) = [message |-> p.message, ok |-> p.status = "parsing"]
              /\ Parse(class, w).ok <=> p.status = "parsing"
<1>1. MergeFromWire(class, New(class), w) =
        ParseLoop(class, [message |-> New(class), status |-> "parsing"], w)
  BY MergeIsLoop
<1> QED BY <1>1 DEF Parse

\* CleanAndSplit is its loop.
LEMMA CleanIsLoop ==
    ASSUME NEW w, IsSeq(w)
    PROVE  Playlist!CleanAndSplit(w) = Loop(Cleaning, <<>>, w)
<1> DEFINE p == <<>>
           Is(f) == f = [s \in SUBSET (1..Len(w)) |->
                            IF s = {} THEN p ELSE Playlist!AddLine(f[s \ {Max(s)}], w[Max(s)])]
           f == CHOOSE f : Is(f)
<1>1. DOMAIN w = 1..Len(w) /\ Len(w) \in Nat
  BY LenProperties DEF IsSeq
<1>2. \A q, r : Turn(Cleaning, q, r) = Playlist!AddLine(q, r)
  BY DEF Turn, Cleaning
<1>3. \A g : Is(g) <=> IsFold(Cleaning, p, w, Len(w), g)
  BY <1>2 DEF IsFold
<1>4. \A s : Playlist!Max(s) = Max(s)
  BY Zenon DEF Playlist!Max, Max
<1>5. Playlist!CleanAndSplit(w) = f[1..Len(w)]
  BY <1>1, <1>4 DEF Playlist!CleanAndSplit, Playlist!FoldLeft, Playlist!MapThenFoldSet
<1>6. IsFold(Cleaning, p, w, Len(w), f)
  <2> HIDE DEF Is
  <2>1. \E g : Is(g)
    BY <1>1, <1>3, FoldExists
  <2> QED BY <1>3, <2>1
<1> HIDE DEF f, p
<1>7. PICK h : States(Cleaning, p, w, h) /\ h[Len(w)] = f[1..Len(w)]
  BY <1>6, FoldStates
<1> QED BY <1>5, <1>7, LoopIs DEF p

\* The loop of Parse is its loop.
LEMMA LinesAreLoop ==
    ASSUME NEW p, NEW w, IsSeq(w)
    PROVE  Playlist!FoldLeft(Playlist!ParseLine, p, w) = Loop(Reading, p, w)
<1> DEFINE Is(f) == f = [s \in SUBSET (1..Len(w)) |->
                            IF s = {} THEN p ELSE Playlist!ParseLine(f[s \ {Max(s)}], w[Max(s)])]
           f == CHOOSE f : Is(f)
<1>1. DOMAIN w = 1..Len(w) /\ Len(w) \in Nat
  BY LenProperties DEF IsSeq
<1>2. \A q, r : Turn(Reading, q, r) = Playlist!ParseLine(q, r)
  BY DEF Turn, Reading
<1>3. \A g : Is(g) <=> IsFold(Reading, p, w, Len(w), g)
  BY <1>2 DEF IsFold
<1>4. \A s : Playlist!Max(s) = Max(s)
  BY Zenon DEF Playlist!Max, Max
<1>5. Playlist!FoldLeft(Playlist!ParseLine, p, w) = f[1..Len(w)]
  BY <1>1, <1>4 DEF Playlist!FoldLeft, Playlist!MapThenFoldSet
<1>6. IsFold(Reading, p, w, Len(w), f)
  <2> HIDE DEF Is
  <2>1. \E g : Is(g)
    BY <1>1, <1>3, FoldExists
  <2> QED BY <1>3, <2>1
<1> HIDE DEF f
<1>7. PICK h : States(Reading, p, w, h) /\ h[Len(w)] = f[1..Len(w)]
  BY <1>6, FoldStates
<1> QED BY <1>5, <1>7, LoopIs

\* The loop of _InternalParse.
RecordStates(class, p, w, h) ==
    h[0] = p /\ \A i \in 1..Len(w) : h[i] = ParseRecord(class, h[i - 1], w[i])

\* The states of _InternalParse.
LEMMA ParseStates ==
    ASSUME NEW class, NEW p, NEW w, IsSeq(w)
    PROVE  \E h : RecordStates(class, p, w, h) /\ ParseLoop(class, p, w) = h[Len(w)]
<1>1. PICK h : States(Parsing(class), p, w, h) /\ Loop(Parsing(class), p, w) = h[Len(w)]
  BY LoopStates
<1>2. RecordStates(class, p, w, h)
  BY <1>1, ParsingTurn DEF States, RecordStates
<1> QED BY <1>1, <1>2 DEF ParseLoop

\* Any such states end as the loop does.
LEMMA ParseLoopIs ==
    ASSUME NEW class, NEW p, NEW w, IsSeq(w), NEW h, RecordStates(class, p, w, h)
    PROVE  ParseLoop(class, p, w) = h[Len(w)]
<1>1. States(Parsing(class), p, w, h)
  BY ParsingTurn DEF States, RecordStates
<1> QED BY <1>1, LoopIs DEF ParseLoop

\* No record.
LEMMA ParseEmpty ==
    ASSUME NEW class, NEW p
    PROVE  ParseLoop(class, p, <<>>) = p
BY LoopEmpty DEF ParseLoop

\* One record.
LEMMA ParseOne ==
    ASSUME NEW class, NEW p, NEW r
    PROVE  ParseLoop(class, p, <<r>>) = ParseRecord(class, p, r)
BY LoopOne, ParsingTurn DEF ParseLoop

\* Records after others.
LEMMA ParseConcat ==
    ASSUME NEW class, NEW p, NEW v, IsSeq(v), NEW w, IsSeq(w)
    PROVE  ParseLoop(class, p, v \o w) = ParseLoop(class, ParseLoop(class, p, v), w)
BY LoopConcat DEF ParseLoop

-----------------------------------------------------------------------------
(* Values, and the records of a field.                                     *)

\* The values of an int32, of a map, and of a field of each kind.
Int32s   == -IntLimit..(IntLimit - 1)

IsMap(v) ==
    /\ v = [k \in DOMAIN v |-> v[k]] /\ IsFiniteSet(DOMAIN v)
    /\ \A k \in DOMAIN v : v[k] \in Text

Holds(kind, v) ==
    /\ kind = "string" => v \in Text
    /\ kind = "int32" => v \in Int32s
    /\ kind = "floats" => v \in Seq(Int)
    /\ kind = "map" => IsMap(v)

\* A value whose strings are UTF-8.
Utf8(kind, v) ==
    /\ kind = "string" => v.utf8
    /\ kind = "map" => \A k \in DOMAIN v : v[k].utf8

Kinds == {"string", "int32", "floats", "map"}

\* The classes: not more than one map in each.
IsClass(class) ==
    /\ class \in Seq(Kinds)
    /\ \A i, j \in DOMAIN class : class[i] = "map" /\ class[j] = "map" => i = j

\* Int32 is in the range, and keeps what is.
LEMMA Int32Is ==
    /\ \A n \in Int : Int32(n) \in Int32s
    /\ \A n \in Int32s : Int32(n) = n
<1>1. IntLimit \in Nat \ {0}
  BY IntAssumption
<1>2. ASSUME NEW n \in Int
      PROVE  Int32(n) \in Int32s
  <2>1. (n + IntLimit) % (2 * IntLimit) \in 0..(2 * IntLimit - 1)
    BY <1>1
  <2> QED BY <1>1, <2>1 DEF Int32, Int32s
<1>3. ASSUME NEW n \in Int32s
      PROVE  Int32(n) = n
  <2>1. 2 * IntLimit \in Nat /\ 2 * IntLimit > 0 /\ n + IntLimit \in 0..(2 * IntLimit - 1)
    BY <1>1 DEF Int32s
  <2>2. n + IntLimit \in Nat /\ n + IntLimit = (2 * IntLimit) * 0 + (n + IntLimit)
    BY <2>1
  <2>3. n + IntLimit = (n + IntLimit) % (2 * IntLimit)
    BY <2>1, <2>2, RemainderIs
  <2> QED BY <1>1, <2>3 DEF Int32, Int32s
<1> QED BY <1>2, <1>3

State(f, u) == [message |-> [fields |-> f, unknown |-> u], status |-> "parsing"]

\* A record of a known field with a payload that is verified is read into it.
LEMMA KnownStep ==
    ASSUME NEW class, NEW f, NEW u, NEW r, Known(class, r[1]), r[1][1] \in DOMAIN f,
           class[r[1][1]] \in Kinds, Verified(class[r[1][1]], r[2])
    PROVE  ParseRecord(class, State(f, u), r) =
             State([f EXCEPT ![r[1][1]] = Read(class[r[1][1]], f[r[1][1]], r[1][2], r[2])], u)
<1> DEFINE p == State(f, u)
           n == r[1][1]
           v == Read(class[n], f[n], r[1][2], r[2])
<1>1. p.status = "parsing" /\ p.message = [fields |-> f, unknown |-> u]
  BY DEF State
<1>2. r[1][2] \notin {"cut", "end_group"}
  BY DEF Known, WireType, Kinds
<1> HIDE DEF p, n
<1>3. ParseRecord(class, p, r) =
         [p EXCEPT !.message.fields[n] = Read(class[n], @, r[1][2], r[2]),
                   !.status = IF Verified(class[n], r[2]) THEN @ ELSE "failed"]
  BY <1>1, <1>2 DEF ParseRecord, n
<1>4. ParseRecord(class, p, r) = [p EXCEPT !.message.fields[n] = v]
  BY <1>1, <1>3 DEF State, p, n
<1>5. [p EXCEPT !.message.fields[n] = v] = State([f EXCEPT ![n] = v], u)
  BY DEF State, p, n
<1> QED BY <1>4, <1>5 DEF p, n

\* A record of no field is kept.
LEMMA UnknownStep ==
    ASSUME NEW class, NEW f, NEW u, NEW r, ~Known(class, r[1]), r[1][2] \notin {"cut", "end_group"}
    PROVE  ParseRecord(class, State(f, u), r) = State(f, Append(u, r))
BY DEF ParseRecord, State, Keep

\* What is the default is not sent.
LEMMA DefaultIs ==
    ASSUME NEW kind \in Kinds, NEW n, NEW keys
    PROVE  /\ Records(kind, n, Default[kind], keys) = <<>>
           /\ \A old : Holds(kind, old) => MergeField(kind, old, Default[kind]) = old
<1>1. Records(kind, n, Default[kind], keys) = <<>>
  <2>1. Records(kind, n, Default[kind], keys) =
          [i \in DOMAIN <<>> |-> <<<<n, WireType[kind]>>, <<>>[i]>>]
    BY DEF Records
  <2> QED BY <2>1
<1>2. ASSUME NEW old, Holds(kind, old)
      PROVE  MergeField(kind, old, Default[kind]) = old
  <2>1. CASE kind = "floats"
    <3>1. old \in Seq(Int) /\ Default[kind] = <<>>
      BY <1>2, <2>1 DEF Holds, Default
    <3> QED BY <2>1, <3>1, ConcatEmptySeq DEF MergeField
  <2>2. CASE kind = "map"
    <3>1. old = [k \in DOMAIN old |-> old[k]] /\ Default[kind] = <<>> /\ DOMAIN <<>> = {}
      BY <1>2, <2>2 DEF Holds, Default, IsMap
    <3> QED BY <2>2, <3>1 DEF MergeField, Over
  <2>3. CASE kind \in {"string", "int32"}
    BY <2>3 DEF MergeField
  <2> QED BY <2>1, <2>2, <2>3 DEF Kinds
<1> QED BY <1>1, <1>2

\* A string, a number, or packed floats are one record.
LEMMA OneRecord ==
    ASSUME NEW kind \in Kinds \ {"map"}, NEW n, NEW keys, NEW v, v # Default[kind]
    PROVE  Records(kind, n, v, keys) = <<<<<<n, WireType[kind]>>, v>>>>
<1>1. DOMAIN <<v>> = {1} /\ <<v>>[1] = v
  OBVIOUS
<1>2. Records(kind, n, v, keys) = [i \in DOMAIN <<v>> |-> <<<<n, WireType[kind]>>, <<v>>[i]>>]
  BY DEF Records
<1>3. [i \in {1} |-> <<<<n, WireType[kind]>>, v>>] = <<<<<<n, WireType[kind]>>, v>>>>
  OBVIOUS
<1> QED BY <1>1, <1>2, <1>3

Entries(w, n, v, keys) ==
    /\ IsSeq(w) /\ Len(w) = Len(keys)
    /\ \A i \in 1..Len(keys) :
           w[i] = <<<<n, "len">>, [key |-> keys[i], value |-> v[keys[i]]]>>

\* A map is one record for each of its keys.
LEMMA MapRecords ==
    ASSUME NEW n, NEW v, v # Default["map"], NEW keys, IsSeq(keys)
    PROVE  Entries(Records("map", n, v, keys), n, v, keys)
<1> DEFINE N == Len(keys)
           w == [i \in 1..N |-> <<<<n, "len">>, [key |-> keys[i], value |-> v[keys[i]]]>>]
<1>1. N \in Nat /\ DOMAIN keys = 1..N
  BY LenProperties DEF IsSeq
<1> HIDE DEF N
<1>2. Records("map", n, v, keys) = w
  BY <1>1 DEF Records, WireType
<1>3. w \in Seq(ToSet(w)) /\ Len(w) = N
  <2>1. \A i \in 1..N : w[i] \in ToSet(w)
    BY DEF ToSet
  <2> HIDE DEF w
  <2>2. w \in Seq(ToSet(w))
    <3>1. w \in [1..N -> ToSet(w)]
      BY <2>1 DEF w
    <3> QED BY <1>1, <3>1, SeqDef
  <2> QED BY <1>1, <2>2, LenProperties DEF w
<1> QED BY <1>2, <1>3 DEF Entries, IsSeq, N

\* The entries are put one after the other.
LEMMA MapParsed ==
    ASSUME NEW class, NEW f, NEW u, NEW n \in DOMAIN f, n \in DOMAIN class, class[n] = "map",
           f = [k \in DOMAIN f |-> f[k]],
           IsMap(f[n]), NEW v, IsMap(v), Utf8("map", v), v # Default["map"],
           NEW keys \in SetToSeqs(DOMAIN v)
    PROVE  ParseLoop(class, State(f, u), Records("map", n, v, keys)) =
             State([f EXCEPT ![n] = Over(v, f[n])], u)
<1> DEFINE N == Cardinality(DOMAIN v)
           w == Records("map", n, v, keys)
           Upto(i) == {keys[j] : j \in 1..i}
           M(i) == [k \in Upto(i) \cup DOMAIN f[n] |-> IF k \in Upto(i) THEN v[k] ELSE f[n][k]]
           h == [i \in 0..N |-> State([f EXCEPT ![n] = M(i)], u)]
<1>1. N \in Nat /\ keys \in [1..N -> DOMAIN v] /\ \A k \in DOMAIN v : \E i \in 1..N : keys[i] = k
  BY OrderIsBijection DEF IsMap
<1> HIDE DEF N
<1>2. /\ IsSeq(w) /\ Len(w) = N
      /\ \A i \in 1..N : w[i] = <<<<n, "len">>, [key |-> keys[i], value |-> v[keys[i]]]>>
  <2>1. IsSeq(keys) /\ Len(keys) = N
    <3>1. keys \in Seq(DOMAIN v)
      BY <1>1, SeqDef
    <3> QED BY <1>1, <3>1, SeqIsSeq, LenProperties
  <2> HIDE DEF h, M, Upto
  <2>2. Entries(w, n, v, keys)
    BY <2>1, MapRecords
  <2> HIDE DEF w
  <2> QED BY <2>1, <2>2 DEF Entries
<1> HIDE DEF w
<1>3. h[0] = State(f, u)
  <2>1. Upto(0) = {}
    OBVIOUS
  <2>2. M(0) = f[n]
    BY <2>1 DEF IsMap
  <2>3. [f EXCEPT ![n] = f[n]] = f
    OBVIOUS
  <2> QED BY <1>1, <2>2, <2>3
<1>4. ASSUME NEW i \in 1..N
      PROVE  h[i] = ParseRecord(class, h[i - 1], w[i])
  <2> DEFINE g == [f EXCEPT ![n] = M(i - 1)]
             k == keys[i]
  <2>1. /\ w[i][1] = <<n, "len">> /\ w[i][1][1] = n /\ w[i][1][2] = "len"
        /\ w[i][2] = [key |-> k, value |-> v[k]] /\ k \in DOMAIN v
    BY <1>1, <1>2
  <2>2. Known(class, w[i][1]) /\ Verified("map", w[i][2])
    BY <2>1 DEF Known, WireType, Verified, Utf8
  <2>3. n \in DOMAIN g /\ g[n] = M(i - 1) /\ "map" \in Kinds
    BY DEF Kinds
  <2> HIDE DEF g
  <2>4. ParseRecord(class, State(g, u), w[i]) =
          State([g EXCEPT ![n] = Read("map", g[n], "len", w[i][2])], u)
    BY <2>1, <2>2, <2>3, KnownStep
  <2>5. Read("map", g[n], "len", w[i][2]) = Over(Entry(k, v[k]), M(i - 1))
    BY <2>1, <2>3 DEF Read
  <2>6. Upto(i) = Upto(i - 1) \cup {k}
    BY <1>1
  <2>7. Over(Entry(k, v[k]), M(i - 1)) = M(i)
    BY <2>6 DEF Over, Entry
  <2>8. [g EXCEPT ![n] = M(i)] = [f EXCEPT ![n] = M(i)]
    BY DEF g
  <2>9. i - 1 \in 0..N /\ i \in 0..N
    BY <1>1
  <2>10. h[i - 1] = State(g, u) /\ h[i] = State([f EXCEPT ![n] = M(i)], u)
    BY <2>9 DEF g
  <2> QED BY <2>4, <2>5, <2>7, <2>8, <2>10
<1>5. h[N] = State([f EXCEPT ![n] = Over(v, f[n])], u)
  <2>1. Upto(N) = DOMAIN v
    BY <1>1
  <2>2. M(N) = Over(v, f[n])
    BY <2>1 DEF Over
  <2>3. h[N] = State([f EXCEPT ![n] = M(N)], u)
    BY <1>1
  <2> HIDE DEF h, M
  <2> QED BY <2>2, <2>3
<1> HIDE DEF h
<1>6. RecordStates(class, State(f, u), w, h)
  BY <1>2, <1>3, <1>4 DEF RecordStates
<1> QED BY <1>2, <1>5, <1>6, ParseLoopIs DEF w

-----------------------------------------------------------------------------
(* Fields and unknown records, parsed.                                     *)

\* The records of a field are a sequence.
LEMMA RecordsAreSeq ==
    ASSUME NEW kind \in Kinds, NEW n, NEW v, NEW keys, kind = "map" => IsSeq(keys)
    PROVE  IsSeq(Records(kind, n, v, keys))
<1>1. CASE v = Default[kind]
  <2>1. Records(kind, n, v, keys) = <<>>
    BY <1>1, DefaultIs
  <2> QED BY <2>1 DEF IsSeq
<1>2. CASE v # Default[kind] /\ kind # "map"
  <2>1. Records(kind, n, v, keys) = <<<<<<n, WireType[kind]>>, v>>>>
    BY <1>2, OneRecord
  <2>2. \A x : <<x>> \in Seq({x})
    OBVIOUS
  <2> QED BY <2>1, <2>2, SeqIsSeq
<1>3. CASE v # Default[kind] /\ kind = "map"
  BY <1>3, MapRecords DEF Entries
<1> QED BY <1>1, <1>2, <1>3

\* A field that was sent is merged with what the field had.
LEMMA FieldParsed ==
    ASSUME NEW class, NEW f, NEW u, NEW n \in DOMAIN f, n \in DOMAIN class, class[n] \in Kinds,
           f = [k \in DOMAIN f |-> f[k]], Holds(class[n], f[n]),
           NEW v, Holds(class[n], v), Utf8(class[n], v),
           NEW keys, class[n] = "map" => keys \in SetToSeqs(DOMAIN v)
    PROVE  ParseLoop(class, State(f, u), Records(class[n], n, v, keys)) =
             State([f EXCEPT ![n] = MergeField(class[n], f[n], v)], u)
<1>1. CASE v = Default[class[n]]
  <2>1. Records(class[n], n, v, keys) = <<>> /\ MergeField(class[n], f[n], v) = f[n]
    BY <1>1, DefaultIs
  <2>2. [f EXCEPT ![n] = f[n]] = f
    OBVIOUS
  <2> QED BY <2>1, <2>2, ParseEmpty
<1>2. CASE v # Default[class[n]] /\ class[n] # "map"
  <2> DEFINE r == <<<<n, WireType[class[n]]>>, v>>
  <2>1. Records(class[n], n, v, keys) = <<r>>
    BY <1>2, OneRecord
  <2>2. r[1] = <<n, WireType[class[n]]>> /\ r[1][1] = n /\ r[1][2] = WireType[class[n]] /\ r[2] = v
    OBVIOUS
  <2> HIDE DEF r
  <2>3. Known(class, r[1]) /\ Verified(class[n], v)
    BY <1>2, <2>2 DEF Known, Verified, Utf8
  <2>4. Read(class[n], f[n], WireType[class[n]], v) = MergeField(class[n], f[n], v)
    <3>1. CASE class[n] = "string"
      BY <1>2, <3>1 DEF Read, MergeField
    <3>2. CASE class[n] = "int32"
      <4>1. Int32(v) = v
        BY <3>2, Int32Is DEF Holds
      <4> QED BY <1>2, <3>2, <4>1 DEF Read, MergeField
    <3>3. CASE class[n] = "floats"
      BY <3>3 DEF Read, MergeField, AddScores, WireType
    <3> QED BY <1>2, <3>1, <3>2, <3>3 DEF Kinds
  <2>5. ParseRecord(class, State(f, u), r) = State([f EXCEPT ![n] = MergeField(class[n], f[n], v)], u)
    BY <2>2, <2>3, <2>4, KnownStep
  <2> QED BY <2>1, <2>5, ParseOne
<1>3. CASE v # Default[class[n]] /\ class[n] = "map"
  <2>1. IsMap(f[n]) /\ IsMap(v)
    BY <1>3 DEF Holds
  <2>2. MergeField(class[n], f[n], v) = Over(v, f[n])
    BY <1>3 DEF MergeField
  <2> QED BY <1>3, <2>1, <2>2, MapParsed
<1> QED BY <1>1, <1>2, <1>3

IsUnknown(class, r) == ~Known(class, r[1]) /\ r[1][2] \notin {"cut", "end_group"}

\* Records of no field are all kept, in their order.
LEMMA UnknownParsed ==
    ASSUME NEW class, NEW f, NEW u, IsSeq(u), NEW w, IsSeq(w),
           \A r \in ToSet(w) : IsUnknown(class, r)
    PROVE  ParseLoop(class, State(f, u), w) = State(f, u \o w)
<1> DEFINE S == ToSet(u) \cup ToSet(w)
           h == [i \in 0..Len(w) |-> State(f, u \o SubSeq(w, 1, i))]
<1>1. u \in Seq(S) /\ w \in Seq(S)
  BY SeqMonotonic DEF IsSeq
<1>2. Len(w) \in Nat /\ DOMAIN w = 1..Len(w)
  BY <1>1, LenProperties
<1>3. h[0] = State(f, u)
  <2>1. SubSeq(w, 1, 0) = <<>>
    BY SubSeqEmpty
  <2>2. u \o <<>> = u
    BY <1>1, ConcatEmptySeq
  <2>3. 0 \in 0..Len(w)
    BY <1>2
  <2>4. h[0] = State(f, u \o SubSeq(w, 1, 0))
    BY <2>3
  <2> QED BY <2>1, <2>2, <2>4
<1>4. ASSUME NEW i \in 1..Len(w)
      PROVE  h[i] = ParseRecord(class, h[i - 1], w[i])
  <2> DEFINE s == SubSeq(w, 1, i - 1)
  <2>1. SubSeq(w, 1, i) = s \o <<w[i]>>
    <3>1. 1 \in 1..Len(w) /\ i \in 1..Len(w)
      BY <1>2
    <3> QED BY <1>1, <3>1, SubSeqRecursiveSecond
  <2>2. s \in Seq(S) /\ w[i] \in S /\ <<w[i]>> \in Seq(S)
    <3>1. \A j \in 1..(i - 1) : w[j] \in S
      BY <1>1, <1>2 DEF ToSet
    <3>2. w[i] \in S
      BY <1>2 DEF ToSet
    <3> QED BY <1>2, <3>1, <3>2, SubSeqProperties
  <2> HIDE DEF s
  <2>3. u \o (s \o <<w[i]>>) = Append(u \o s, w[i])
    BY <1>1, <2>2, ConcatAssociative, AppendIsConcat, ConcatProperties
  <2>4. IsUnknown(class, w[i])
    BY <1>2 DEF ToSet
  <2>5. ParseRecord(class, State(f, u \o s), w[i]) = State(f, Append(u \o s, w[i]))
    BY <2>4, UnknownStep DEF IsUnknown
  <2>6. i - 1 \in 0..Len(w) /\ i \in 0..Len(w)
    BY <1>2
  <2> QED BY <2>1, <2>3, <2>5, <2>6 DEF s
<1>5. h[Len(w)] = State(f, u \o w)
  <2>1. Len(w) \in 0..Len(w)
    BY <1>2
  <2>2. h[Len(w)] = State(f, u \o SubSeq(w, 1, Len(w)))
    BY <2>1
  <2>3. SubSeq(w, 1, Len(w)) = w
    BY <1>1, SubSeqFull
  <2> QED BY <2>2, <2>3
<1> HIDE DEF h
<1>6. RecordStates(class, State(f, u), w, h)
  BY <1>3, <1>4 DEF RecordStates
<1> QED BY <1>5, <1>6, ParseLoopIs

-----------------------------------------------------------------------------
(* Messages, serialized and parsed.                                        *)

\* A message of a class, and one whose strings are UTF-8.
FieldsOf(class, f) == f = [n \in DOMAIN class |-> f[n]] /\ \A n \in DOMAIN class : Holds(class[n], f[n])

IsMessage(class, m) ==
    /\ m = [fields |-> m.fields, unknown |-> m.unknown]
    /\ FieldsOf(class, m.fields)
    /\ IsSeq(m.unknown) /\ \A r \in ToSet(m.unknown) : IsUnknown(class, r)

IsSendable(class, m) == \A n \in DOMAIN class : Utf8(class[n], m.fields[n])

MergedFields(class, f, g) == [n \in DOMAIN class |-> MergeField(class[n], f[n], g[n])]

SentFields(class, f, keys) == [n \in DOMAIN class |-> Records(class[n], n, f[n], keys)]

IsOrder(class, f, keys) ==
    IsSeq(keys) /\ \A n \in DOMAIN class : class[n] = "map" => keys \in SetToSeqs(DOMAIN f[n])

\* The orders a map can be sent in are orders of its keys.
LEMMA OrderIs ==
    ASSUME NEW class, IsClass(class), NEW m, FieldsOf(class, m.fields), NEW keys \in Orders(class, m)
    PROVE  IsOrder(class, m.fields, keys)
<1> DEFINE maps == {n \in DOMAIN class : class[n] = "map"}
           S == UNION {DOMAIN m.fields[n] : n \in maps}
<1>1. keys \in SetToSeqs(S)
  BY DEF Orders
<1>2. \A n \in maps : S = DOMAIN m.fields[n]
  <2>1. ASSUME NEW n \in maps
        PROVE  maps = {n}
    BY DEF IsClass
  <2> QED BY <2>1
<1>3. IsFiniteSet(S)
  <2>1. CASE maps = {}
    <3>1. S = {}
      BY <2>1
    <3> QED BY <3>1, FS_EmptySet
  <2>2. CASE maps # {}
    <3>1. PICK n \in maps : TRUE
      BY <2>2
    <3>2. IsMap(m.fields[n])
      BY <3>1 DEF FieldsOf, Holds
    <3>3. S = DOMAIN m.fields[n]
      BY <1>2
    <3> HIDE DEF S
    <3> QED BY <3>2, <3>3 DEF IsMap
  <2> QED BY <2>1, <2>2
<1> HIDE DEF S
<1>4. keys \in [1..Cardinality(S) -> S] /\ Cardinality(S) \in Nat
  BY <1>1, <1>3, OrderIsBijection
<1>5. IsSeq(keys)
  <2>1. keys \in Seq(S)
    BY <1>4, SeqDef
  <2> QED BY <2>1, SeqIsSeq
<1>6. \A n \in maps : keys \in SetToSeqs(DOMAIN m.fields[n])
  BY <1>1, <1>2
<1> QED BY <1>5, <1>6 DEF IsOrder

\* What is serialized: the fields, and then the unknown records.
LEMMA SerializedIs ==
    ASSUME NEW class, IsClass(class), NEW m, IsMessage(class, m), NEW w \in Serialize(class, m)
    PROVE  \E keys : /\ IsOrder(class, m.fields, keys)
                     /\ w = FlattenSeq(SentFields(class, m.fields, keys)) \o m.unknown
<1>1. PICK keys \in Orders(class, m) :
          w = FlattenSeq(SentFields(class, m.fields, keys)) \o m.unknown
  BY DEF Serialize, SentFields
<1>2. IsOrder(class, m.fields, keys)
  BY OrderIs DEF IsMessage
<1> QED BY <1>1, <1>2

\* Each field is a sequence of records.
LEMMA SentAreSeqs ==
    ASSUME NEW class, IsClass(class), NEW f, NEW keys, IsOrder(class, f, keys)
    PROVE  /\ IsSeq(SentFields(class, f, keys)) /\ Len(SentFields(class, f, keys)) = Len(class)
           /\ DOMAIN class = 1..Len(class) /\ Len(class) \in Nat
           /\ \A n \in DOMAIN class :
                  /\ class[n] \in Kinds
                  /\ SentFields(class, f, keys)[n] = Records(class[n], n, f[n], keys)
                  /\ IsSeq(SentFields(class, f, keys)[n])
<1> DEFINE F == SentFields(class, f, keys)
<1>1. DOMAIN class = 1..Len(class) /\ Len(class) \in Nat
  BY LenProperties DEF IsClass
<1>2. \A n \in DOMAIN class : class[n] \in Kinds
  BY DEF IsClass
<1>3. \A n \in DOMAIN class : F[n] = Records(class[n], n, f[n], keys)
  BY DEF SentFields
<1>4. \A n \in DOMAIN class : IsSeq(F[n])
  BY <1>2, <1>3, RecordsAreSeq DEF IsOrder
<1>5. F = [n \in 1..Len(class) |-> F[n]]
  BY <1>1 DEF SentFields
<1> HIDE DEF F
<1>6. F \in Seq(ToSet(F))
  <2>1. \A n \in 1..Len(class) : F[n] \in ToSet(F)
    BY <1>5 DEF ToSet
  <2>2. F \in [1..Len(class) -> ToSet(F)]
    BY <1>5, <2>1
  <2> QED BY <1>1, <2>2, SeqDef
<1>7. Len(F) = Len(class)
  BY <1>1, <1>5, <1>6, LenProperties
<1> QED BY <1>1, <1>2, <1>3, <1>4, <1>6, <1>7 DEF F, IsSeq

\* All fields that were sent, one after the other, and then the unknown ones.
LEMMA FieldsParsed ==
    ASSUME NEW class, IsClass(class), NEW f, FieldsOf(class, f), NEW u,
           NEW g, FieldsOf(class, g), \A n \in DOMAIN class : Utf8(class[n], g[n]),
           NEW keys, IsOrder(class, g, keys)
    PROVE  ParseLoop(class, State(f, u), FlattenSeq(SentFields(class, g, keys))) =
             State(MergedFields(class, f, g), u)
<1> DEFINE F == SentFields(class, g, keys)
           N == Len(class)
           M(i) == [n \in DOMAIN class |-> IF n <= i THEN MergeField(class[n], f[n], g[n]) ELSE f[n]]
<1>1. /\ IsSeq(F) /\ Len(F) = N /\ DOMAIN class = 1..N /\ N \in Nat
      /\ \A n \in 1..N : /\ class[n] \in Kinds /\ IsSeq(F[n])
                         /\ F[n] = Records(class[n], n, g[n], keys)
  BY SentAreSeqs
<1> HIDE DEF F, N
<1>2. PICK fl : /\ Flat(F, fl) /\ FlattenSeq(F) = fl[Len(F)]
                /\ \A i \in 0..Len(F) : IsSeq(fl[i])
  BY <1>1, FlattenIs
<1> DEFINE P == {i \in 0..N : ParseLoop(class, State(f, u), fl[i]) = State(M(i), u)}
<1>3. 0 \in P
  <2>1. fl[0] = <<>>
    BY <1>2 DEF Flat
  <2>2. M(0) = f
    BY <1>1 DEF FieldsOf
  <2> QED BY <1>1, <2>1, <2>2, ParseEmpty
<1>4. ASSUME NEW i \in Nat, i < N, i \in P
      PROVE  i + 1 \in P
  <2> DEFINE n == i + 1
  <2>1. n \in 1..N /\ n \in 0..N /\ i \in 0..N /\ n - 1 = i /\ ~(n <= i)
    BY <1>1, <1>4
  <2>2. fl[n] = fl[i] \o F[n] /\ IsSeq(fl[i]) /\ IsSeq(F[n])
    BY <1>1, <1>2, <2>1 DEF Flat
  <2>3. ParseLoop(class, State(f, u), fl[n]) =
          ParseLoop(class, ParseLoop(class, State(f, u), fl[i]), F[n])
    BY <2>2, ParseConcat
  <2>4. ParseLoop(class, State(f, u), fl[i]) = State(M(i), u)
    BY <1>4
  <2>5. /\ n \in DOMAIN class /\ n \in DOMAIN M(i) /\ M(i)[n] = f[n]
        /\ M(i) = [k \in DOMAIN M(i) |-> M(i)[k]]
    BY <1>1, <2>1
  <2>6. Holds(class[n], f[n]) /\ Holds(class[n], g[n]) /\ Utf8(class[n], g[n])
    BY <2>5 DEF FieldsOf
  <2>7. M(n) = [M(i) EXCEPT ![n] = MergeField(class[n], f[n], g[n])]
    <3>1. \A k \in 1..N : k <= n <=> k <= i \/ k = n
      BY <2>1
    <3> QED BY <1>1, <2>1, <3>1
  <2>8. class[n] = "map" => keys \in SetToSeqs(DOMAIN g[n])
    BY <2>5 DEF IsOrder
  <2>9. F[n] = Records(class[n], n, g[n], keys) /\ class[n] \in Kinds
    BY <1>1, <2>1
  <2> DEFINE q == M(i)
  <2>12. n \in DOMAIN q /\ q = [k \in DOMAIN q |-> q[k]] /\ Holds(class[n], q[n]) /\ q[n] = f[n]
    BY <2>5, <2>6
  <2> HIDE DEF M, n, q
  <2>10. ParseLoop(class, State(M(i), u), Records(class[n], n, g[n], keys)) =
           State([M(i) EXCEPT ![n] = MergeField(class[n], M(i)[n], g[n])], u)
    <3>1. ParseLoop(class, State(q, u), Records(class[n], n, g[n], keys)) =
            State([q EXCEPT ![n] = MergeField(class[n], q[n], g[n])], u)
      BY <2>5, <2>6, <2>8, <2>9, <2>12, FieldParsed
    <3> QED BY <3>1 DEF q
  <2>11. ParseLoop(class, State(f, u), fl[n]) = State(M(n), u)
    BY <2>3, <2>4, <2>5, <2>7, <2>9, <2>10
  <2> QED BY <2>1, <2>11 DEF n
<1> HIDE DEF P
<1>5. N \in P
  <2>1. \A i \in 0..N : i \in P
    BY <1>1, <1>3, <1>4, UpTo
  <2> QED BY <1>1, <2>1
<1>6. M(N) = MergedFields(class, f, g)
  BY <1>1 DEF MergedFields
<1> HIDE DEF M
<1> QED BY <1>1, <1>2, <1>5, <1>6 DEF P, F

\* A serialized message is merged with what the object had.
LEMMA MessageParsed ==
    ASSUME NEW class, IsClass(class), NEW f, FieldsOf(class, f), NEW u, IsSeq(u),
           NEW m, IsMessage(class, m), IsSendable(class, m), NEW w \in Serialize(class, m)
    PROVE  /\ IsSeq(w)
           /\ ParseLoop(class, State(f, u), w) = State(MergedFields(class, f, m.fields), u \o m.unknown)
<1>1. PICK keys : /\ IsOrder(class, m.fields, keys)
                  /\ w = FlattenSeq(SentFields(class, m.fields, keys)) \o m.unknown
  BY SerializedIs
<1> DEFINE v == FlattenSeq(SentFields(class, m.fields, keys))
<1>2. IsSeq(v)
  <2> DEFINE F == SentFields(class, m.fields, keys)
  <2>1. IsSeq(F) /\ Len(F) \in Nat /\ \A n \in 1..Len(F) : IsSeq(F[n])
    BY <1>1, SentAreSeqs
  <2> HIDE DEF F
  <2>2. PICK g : FlattenSeq(F) = g[Len(F)] /\ \A i \in 0..Len(F) : IsSeq(g[i])
    BY <2>1, FlattenIs
  <2>3. IsSeq(FlattenSeq(F))
    BY <2>1, <2>2
  <2> QED BY <2>3 DEF F
<1>3. ParseLoop(class, State(f, u), v) = State(MergedFields(class, f, m.fields), u)
  BY <1>1, FieldsParsed DEF IsMessage, IsSendable
<1> HIDE DEF v
<1>4. w = v \o m.unknown /\ IsSeq(m.unknown) /\ \A r \in ToSet(m.unknown) : IsUnknown(class, r)
  BY <1>1 DEF v, IsMessage
<1>5. IsSeq(w) /\ ParseLoop(class, State(f, u), w) =
                    ParseLoop(class, ParseLoop(class, State(f, u), v), m.unknown)
  BY <1>2, <1>4, ConcatIsSeq, ParseConcat
<1> QED BY <1>3, <1>4, <1>5, UnknownParsed

-----------------------------------------------------------------------------
(* A message comes back, and two are merged.                               *)

\* A new message merged with another is the other.
LEMMA MergeNew ==
    ASSUME NEW kind \in Kinds, NEW v, Holds(kind, v)
    PROVE  MergeField(kind, Default[kind], v) = v
<1>1. CASE kind = "floats"
  <2>1. v \in Seq(Int) /\ Default[kind] = <<>>
    BY <1>1 DEF Holds, Default
  <2> QED BY <1>1, <2>1, ConcatEmptySeq DEF MergeField
<1>2. CASE kind = "map"
  <2>1. v = [k \in DOMAIN v |-> v[k]] /\ Default[kind] = <<>> /\ DOMAIN <<>> = {}
    BY <1>2 DEF Holds, Default, IsMap
  <2> QED BY <1>2, <2>1 DEF MergeField, Over
<1>3. CASE kind \in {"string", "int32"}
  BY <1>3 DEF MergeField
<1> QED BY <1>1, <1>2, <1>3 DEF Kinds

\* A default is a value of its kind.
LEMMA DefaultHolds ==
    ASSUME NEW kind \in Kinds
    PROVE  Holds(kind, Default[kind])
<1>1. CASE kind = "string"
  BY <1>1 DEF Holds, Default, Text
<1>2. CASE kind = "int32"
  BY <1>2, IntAssumption DEF Holds, Default, Int32s
<1>3. CASE kind = "floats"
  <2>1. <<>> \in Seq(Int)
    OBVIOUS
  <2> QED BY <1>3, <2>1 DEF Holds, Default
<1>4. CASE kind = "map"
  <2>1. <<>> = [k \in DOMAIN <<>> |-> <<>>[k]] /\ DOMAIN <<>> = {}
    OBVIOUS
  <2>2. IsFiniteSet(DOMAIN <<>>)
    BY <2>1, FS_EmptySet
  <2> QED BY <1>4, <2>1, <2>2 DEF Holds, Default, IsMap
<1> QED BY <1>1, <1>2, <1>3, <1>4 DEF Kinds

\* A new message is a message, with nothing in it.
LEMMA NewIs ==
    ASSUME NEW class, IsClass(class)
    PROVE  /\ IsMessage(class, New(class))
           /\ New(class).unknown = <<>>
           /\ \A f : FieldsOf(class, f) => MergedFields(class, New(class).fields, f) = f
<1> DEFINE m == New(class)
<1>1. m = [fields |-> m.fields, unknown |-> m.unknown] /\ m.unknown = <<>>
      /\ m.fields = [n \in DOMAIN class |-> Default[class[n]]]
  BY DEF New
<1>2. \A n \in DOMAIN class : class[n] \in Kinds
  BY LenProperties DEF IsClass
<1>3. FieldsOf(class, m.fields)
  BY <1>1, <1>2, DefaultHolds DEF FieldsOf
<1>4. IsSeq(<<>>) /\ ToSet(<<>>) = {}
  BY DEF IsSeq, ToSet
<1> HIDE DEF m
<1>5. ASSUME NEW f, FieldsOf(class, f)
      PROVE  MergedFields(class, m.fields, f) = f
  <2>1. ASSUME NEW n \in DOMAIN class
        PROVE  MergeField(class[n], m.fields[n], f[n]) = f[n]
    <3>1. Holds(class[n], f[n]) /\ class[n] \in Kinds /\ m.fields[n] = Default[class[n]]
      BY <1>1, <1>2, <1>5 DEF FieldsOf
    <3> QED BY <3>1, MergeNew
  <2>2. f = [n \in DOMAIN class |-> f[n]]
    BY <1>5 DEF FieldsOf
  <2> QED BY <2>1, <2>2 DEF MergedFields
<1> QED BY <1>1, <1>3, <1>4, <1>5 DEF IsMessage, m

\* What is serialized is parsed to the message it was.
LEMMA ParsedIsSent ==
    ASSUME NEW class, IsClass(class), NEW m, IsMessage(class, m), IsSendable(class, m),
           NEW w \in Serialize(class, m)
    PROVE  Parse(class, w) = [message |-> m, ok |-> TRUE]
<1> DEFINE new == New(class)
           p == ParseLoop(class, State(new.fields, <<>>), w)
<1>1. FieldsOf(class, new.fields) /\ new = [fields |-> new.fields, unknown |-> <<>>]
  BY NewIs DEF IsMessage
<1>2. Parse(class, w) = [message |-> p.message, ok |-> p.status = "parsing"]
  <2>1. IsSeq(w)
    BY <1>1, NewIsSeq, MessageParsed
  <2>2. State(new.fields, <<>>) = [message |-> new, status |-> "parsing"]
    BY <1>1 DEF State
  <2> QED BY <2>1, <2>2, ParseIs
<1> HIDE DEF p
<1>3. IsSeq(<<>>) /\ <<>> \o m.unknown = m.unknown /\ m = [fields |-> m.fields, unknown |-> m.unknown]
  <2>1. IsSeq(m.unknown)
    BY DEF IsMessage
  <2> QED BY <2>1, ConcatEmptySeq DEF IsMessage, IsSeq
<1>4. p = State(MergedFields(class, new.fields, m.fields), <<>> \o m.unknown)
  <2> DEFINE f == new.fields
             u == <<>>
  <2>1. FieldsOf(class, f) /\ IsSeq(u)
    BY <1>1, <1>3
  <2> HIDE DEF f, u
  <2>2. ParseLoop(class, State(f, u), w) = State(MergedFields(class, f, m.fields), u \o m.unknown)
    BY <2>1, MessageParsed
  <2> QED BY <2>2 DEF p, f, u
<1>5. MergedFields(class, new.fields, m.fields) = m.fields
  BY NewIs DEF IsMessage
<1> HIDE DEF new
<1>6. p.message = m /\ p.status = "parsing"
  BY <1>3, <1>4, <1>5 DEF State
<1> QED BY <1>2, <1>6

\* One after the other, they are merged.
LEMMA ConcatParsed ==
    ASSUME NEW class, IsClass(class), NEW a, IsMessage(class, a), IsSendable(class, a),
           NEW b, IsMessage(class, b), IsSendable(class, b),
           NEW v \in Serialize(class, a), NEW w \in Serialize(class, b)
    PROVE  Parse(class, v \o w).message = Merge(class, a, b)
<1> DEFINE new == New(class)
           p == ParseLoop(class, State(new.fields, <<>>), v \o w)
<1>1. FieldsOf(class, new.fields) /\ new = [fields |-> new.fields, unknown |-> <<>>]
  BY NewIs DEF IsMessage
<1>2. Parse(class, v \o w) = [message |-> p.message, ok |-> p.status = "parsing"]
  <2>1. IsSeq(v) /\ IsSeq(w)
    BY <1>1, NewIsSeq, MessageParsed
  <2>2. State(new.fields, <<>>) = [message |-> new, status |-> "parsing"]
    BY <1>1 DEF State
  <2> QED BY <2>1, <2>2, ConcatIsSeq, ParseIs
<1> HIDE DEF p
<1>3. IsSeq(<<>>) /\ IsSeq(a.unknown) /\ <<>> \o a.unknown = a.unknown
  <2>1. IsSeq(a.unknown)
    BY DEF IsMessage
  <2> QED BY <2>1, ConcatEmptySeq DEF IsSeq
<1>4. FieldsOf(class, a.fields) /\ MergedFields(class, new.fields, a.fields) = a.fields
  BY NewIs DEF IsMessage
<1>5. IsSeq(v) /\ ParseLoop(class, State(new.fields, <<>>), v) = State(a.fields, a.unknown)
  <2> DEFINE f == new.fields
             u == <<>>
  <2>1. FieldsOf(class, f) /\ IsSeq(u)
    BY <1>1, <1>3
  <2> HIDE DEF f, u
  <2>2. IsSeq(v)
        /\ ParseLoop(class, State(f, u), v) = State(MergedFields(class, f, a.fields), u \o a.unknown)
    BY <2>1, MessageParsed
  <2> QED BY <1>3, <1>4, <2>2 DEF f, u
<1>6. IsSeq(w) /\ ParseLoop(class, State(a.fields, a.unknown), w) =
                    State(MergedFields(class, a.fields, b.fields), a.unknown \o b.unknown)
  BY <1>3, <1>4, MessageParsed
<1> HIDE DEF new
<1>7. p = State(MergedFields(class, a.fields, b.fields), a.unknown \o b.unknown)
  BY <1>5, <1>6, ParseConcat DEF p
<1>8. p.message = Merge(class, a, b)
  BY <1>7 DEF State, Merge, MergedFields
<1> QED BY <1>2, <1>8

FitsClass(class, r) == Known(class, r[1]) => Fits(class[r[1][1]], r[1][2], r[2])

\* What Read makes of a payload of a field is a value of its kind.
LEMMA ReadHolds ==
    ASSUME NEW kind \in Kinds, NEW old, Holds(kind, old), NEW type,
           NEW payload, Fits(kind, type, payload)
    PROVE  Holds(kind, Read(kind, old, type, payload))
<1>1. CASE kind = "string"
  <2>1. payload \in Text
    BY <1>1 DEF Fits
  <2> QED BY <1>1, <2>1 DEF Holds, Read
<1>2. CASE kind = "int32"
  <2>1. payload \in Int
    BY <1>2 DEF Fits
  <2> QED BY <1>2, <2>1, Int32Is DEF Holds, Read
<1>3. CASE kind = "floats"
  <2> DEFINE new == IF type = "fixed32" THEN <<payload>> ELSE payload
  <2>1. Fits("floats", type, payload) <=>
        IF type = "fixed32" THEN payload \in Int ELSE payload \in Seq(Int)
    BY DEF Fits
  <2>2. \A x \in Int : <<x>> \in Seq(Int)
    OBVIOUS
  <2>3. new \in Seq(Int) /\ old \in Seq(Int)
    BY <1>3, <2>1, <2>2 DEF Holds
  <2> HIDE DEF new
  <2>4. old \o new \in Seq(Int)
    BY <2>3, ConcatProperties
  <2>5. Read(kind, old, type, payload) = old \o new
    BY <1>3 DEF Read, AddScores, new
  <2> QED BY <1>3, <2>4, <2>5 DEF Holds
<1>4. CASE kind = "map"
  <2> DEFINE new == Over(Entry(payload.key, payload.value), old)
  <2>1. payload.value \in Text /\ IsMap(old)
    BY <1>4 DEF Fits, Holds
  <2>2. DOMAIN new = {payload.key} \cup DOMAIN old
    BY DEF Over, Entry
  <2>3. IsFiniteSet(DOMAIN new)
    BY <2>1, <2>2, FS_AddElement DEF IsMap
  <2>4. \A k \in DOMAIN new : new[k] \in Text
    BY <2>1 DEF Over, Entry, IsMap
  <2>5. new = [k \in DOMAIN new |-> new[k]]
    BY DEF Over
  <2>6. Read(kind, old, type, payload) = new
    BY <1>4 DEF Read
  <2> HIDE DEF new
  <2> QED BY <1>4, <2>3, <2>4, <2>5, <2>6 DEF Holds, IsMap
<1> QED BY <1>1, <1>2, <1>3, <1>4 DEF Kinds

IsParser(class, p) == p = [message |-> p.message, status |-> p.status] /\ IsMessage(class, p.message)

\* A message whose field is set is a message.
LEMMA SetFieldTyped ==
    ASSUME NEW class, NEW m, IsMessage(class, m), NEW n \in DOMAIN class, NEW v, Holds(class[n], v)
    PROVE  IsMessage(class, [m EXCEPT !.fields[n] = v])
<1> DEFINE f == [m.fields EXCEPT ![n] = v]
<1>1. m = [fields |-> m.fields, unknown |-> m.unknown] /\ FieldsOf(class, m.fields)
  BY DEF IsMessage
<1>2. [m EXCEPT !.fields[n] = v] = [fields |-> f, unknown |-> m.unknown]
  BY <1>1
<1>3. FieldsOf(class, f)
  BY <1>1 DEF FieldsOf
<1> HIDE DEF f
<1> QED BY <1>2, <1>3 DEF IsMessage

\* A record leaves a message.
LEMMA ParseRecordTyped ==
    ASSUME NEW class, IsClass(class), NEW p, IsParser(class, p), NEW r, FitsClass(class, r)
    PROVE  /\ IsParser(class, ParseRecord(class, p, r))
           /\ ParseRecord(class, p, r).status = "parsing" =>
                  p.status = "parsing" /\ (Known(class, r[1]) => Verified(class[r[1][1]], r[2]))
<1> DEFINE q == ParseRecord(class, p, r)
           n == r[1][1]
<1>1. p = [message |-> p.message, status |-> p.status] /\ IsMessage(class, p.message)
  BY DEF IsParser
<1>2. CASE p.status # "parsing"
  BY <1>2 DEF ParseRecord
<1>3. CASE p.status = "parsing" /\ Known(class, r[1])
  <2> DEFINE v == Read(class[n], p.message.fields[n], r[1][2], r[2])
             s == IF Verified(class[n], r[2]) THEN p.status ELSE "failed"
  <2>1. r[1][2] \notin {"cut", "end_group"} /\ n \in DOMAIN class
    BY <1>3, LenProperties DEF Known, WireType, IsClass, Kinds
  <2>2. q = [p EXCEPT !.message.fields[n] = Read(class[n], @, r[1][2], r[2]),
                      !.status = IF Verified(class[n], r[2]) THEN @ ELSE "failed"]
    BY <1>3, <2>1 DEF ParseRecord
  <2>3. q = [message |-> [p.message EXCEPT !.fields[n] = v], status |-> s]
    BY <1>1, <2>2 DEF IsMessage
  <2>4. Holds(class[n], v)
    <3>1. class[n] \in Kinds /\ Holds(class[n], p.message.fields[n])
      BY <1>1, <2>1 DEF IsClass, IsMessage, FieldsOf
    <3> QED BY <1>3, <3>1, ReadHolds DEF FitsClass
  <2> HIDE DEF q, v, s
  <2>5. IsMessage(class, [p.message EXCEPT !.fields[n] = v])
    BY <1>1, <2>1, <2>4, SetFieldTyped
  <2>6. q.status = "parsing" => Verified(class[n], r[2])
    BY <2>3 DEF s
  <2> QED BY <1>3, <2>3, <2>5, <2>6 DEF IsParser, q
<1>4. CASE p.status = "parsing" /\ ~Known(class, r[1]) /\ r[1][2] \in {"cut", "end_group"}
  <2>1. q = [p EXCEPT !.status = IF r[1][2] = "cut" THEN "failed" ELSE "ended"]
    BY <1>4 DEF ParseRecord
  <2> HIDE DEF q
  <2>2. q.message = p.message /\ q = [message |-> q.message, status |-> q.status]
    BY <1>1, <2>1
  <2> QED BY <1>1, <1>4, <2>2 DEF IsParser, q
<1>5. CASE p.status = "parsing" /\ ~Known(class, r[1]) /\ r[1][2] \notin {"cut", "end_group"}
  <2> DEFINE u == Append(p.message.unknown, r)
             m == [fields |-> p.message.fields, unknown |-> u]
  <2>1. q = [message |-> m, status |-> p.status]
    BY <1>1, <1>5 DEF ParseRecord, Keep, IsMessage
  <2>2. IsSeq(u) /\ \A x \in ToSet(u) : IsUnknown(class, x)
    <3> DEFINE S == ToSet(p.message.unknown) \cup {r}
    <3>1. p.message.unknown \in Seq(S) /\ r \in S
      BY <1>1, SeqMonotonic DEF IsMessage, IsSeq
    <3>2. u \in Seq(S) /\ ToSet(u) = ToSet(p.message.unknown) \cup {r}
      BY <3>1, AppendProperties, ToSetAppend
    <3>3. IsSeq(u)
      BY <3>2, SeqIsSeq
    <3>4. IsUnknown(class, r)
      BY <1>5 DEF IsUnknown
    <3> HIDE DEF u, S
    <3> QED BY <1>1, <3>2, <3>3, <3>4 DEF IsMessage
  <2> HIDE DEF u
  <2>3. IsMessage(class, m)
    BY <1>1, <2>2 DEF IsMessage
  <2> HIDE DEF q, m
  <2> QED BY <1>5, <2>1, <2>3 DEF IsParser, q
<1> QED BY <1>2, <1>3, <1>4, <1>5

\* So do all.
LEMMA LoopTyped ==
    ASSUME NEW class, IsClass(class), NEW p, IsParser(class, p), NEW w, IsSeq(w),
           \A r \in ToSet(w) : FitsClass(class, r)
    PROVE  LET q == ParseLoop(class, p, w)
           IN /\ IsParser(class, q)
              /\ q.status = "parsing" =>
                     \A r \in ToSet(w) : Known(class, r[1]) => Verified(class[r[1][1]], r[2])
<1>1. PICK h : RecordStates(class, p, w, h) /\ ParseLoop(class, p, w) = h[Len(w)]
  BY ParseStates
<1>2. DOMAIN w = 1..Len(w) /\ Len(w) \in Nat
  BY LenProperties DEF IsSeq
<1> DEFINE N == Len(w)
           V(i) == Known(class, w[i][1]) => Verified(class[w[i][1][1]], w[i][2])
           P == {i \in 0..N : IsParser(class, h[i])
                   /\ (h[i].status = "parsing" => \A j \in 1..i : V(j))}
<1>3. 0 \in P
  BY <1>1, <1>2 DEF RecordStates
<1>4. ASSUME NEW i \in Nat, i < N, i \in P
      PROVE  i + 1 \in P
  <2>1. i + 1 \in 1..N /\ (i + 1) - 1 = i /\ i + 1 \in 0..N
    BY <1>2, <1>4
  <2>2. h[i + 1] = ParseRecord(class, h[i], w[i + 1])
    BY <1>1, <2>1 DEF RecordStates
  <2>3. FitsClass(class, w[i + 1])
    BY <1>2, <2>1 DEF ToSet
  <2>4. IsParser(class, h[i]) /\ (h[i].status = "parsing" => \A j \in 1..i : V(j))
    BY <1>4
  <2>5. /\ IsParser(class, h[i + 1])
        /\ h[i + 1].status = "parsing" => h[i].status = "parsing" /\ V(i + 1)
    BY <2>2, <2>3, <2>4, ParseRecordTyped
  <2>6. \A j \in 1..(i + 1) : j \in 1..i \/ j = i + 1
    BY <1>4
  <2> HIDE DEF V
  <2> QED BY <2>1, <2>4, <2>5, <2>6
<1> HIDE DEF P, N
<1>5. N \in P
  <2>1. N \in Nat
    BY <1>2 DEF N
  <2>2. \A i \in 0..N : i \in P
    BY <1>3, <1>4, <2>1, UpTo
  <2> QED BY <2>1, <2>2
<1>6. IsParser(class, h[N]) /\ (h[N].status = "parsing" => \A j \in 1..N : V(j))
  BY <1>5 DEF P
<1>7. (\A j \in 1..N : V(j)) =>
        \A r \in ToSet(w) : Known(class, r[1]) => Verified(class[r[1][1]], r[2])
  BY <1>2 DEF ToSet, N
<1> HIDE DEF V
<1> QED BY <1>1, <1>6, <1>7 DEF N

-----------------------------------------------------------------------------
(* What cannot be sent is not parsed.                                      *)

\* The tags of the records of a field, and what they hold.
LEMMA RecordsAre ==
    ASSUME NEW kind \in Kinds, NEW n, NEW v, Holds(kind, v), NEW keys,
           kind = "map" => IsSeq(keys) /\ keys \in SetToSeqs(DOMAIN v),
           NEW r \in ToSet(Records(kind, n, v, keys))
    PROVE  r[1] = <<n, WireType[kind]>> /\ Fits(kind, WireType[kind], r[2])
<1>1. CASE v = Default[kind]
  <2>1. Records(kind, n, v, keys) = <<>>
    BY <1>1, DefaultIs
  <2>2. ToSet(<<>>) = {}
    BY DEF ToSet
  <2> QED BY <2>1, <2>2
<1>2. CASE v # Default[kind] /\ kind # "map"
  <2> DEFINE x == <<<<n, WireType[kind]>>, v>>
  <2>1. Records(kind, n, v, keys) = <<x>>
    BY <1>2, OneRecord
  <2>2. ToSet(<<x>>) = {x}
    BY DEF ToSet
  <2>3. r = x
    BY <2>1, <2>2
  <2>4. Fits(kind, WireType[kind], v)
    <3>1. CASE kind = "string"
      BY <3>1 DEF Fits, Holds
    <3>2. CASE kind = "int32"
      <4>1. v \in Int
        BY <3>2, IntAssumption DEF Holds, Int32s
      <4> QED BY <3>2, <4>1 DEF Fits
    <3>3. CASE kind = "floats"
      <4>1. v \in Seq(Int) /\ WireType[kind] = "len"
        BY <3>3 DEF Holds, WireType
      <4> QED BY <3>3, <4>1 DEF Fits
    <3> QED BY <1>2, <3>1, <3>2, <3>3 DEF Kinds
  <2> QED BY <2>3, <2>4
<1>3. CASE v # Default[kind] /\ kind = "map"
  <2> DEFINE w == Records("map", n, v, keys)
  <2>1. Entries(w, n, v, keys)
    BY <1>3, MapRecords
  <2> HIDE DEF w
  <2>2. DOMAIN w = 1..Len(w) /\ DOMAIN keys = 1..Len(keys)
    BY <1>3, <2>1, LenProperties DEF Entries, IsSeq
  <2>3. PICK i \in 1..Len(keys) : r = <<<<n, "len">>, [key |-> keys[i], value |-> v[keys[i]]]>>
    BY <1>3, <2>1, <2>2 DEF Entries, ToSet, w
  <2>4. keys[i] \in DOMAIN v
    <3>1. keys \in [1..Cardinality(DOMAIN v) -> DOMAIN v]
      BY <1>3 DEF SetToSeqs
    <3> QED BY <2>2, <3>1
  <2>5. v[keys[i]] \in Text
    BY <1>3, <2>4 DEF Holds, IsMap
  <2>6. r[1] = <<n, "len">> /\ r[2].value = v[keys[i]]
    BY <2>3
  <2> QED BY <1>3, <2>5, <2>6 DEF Fits, WireType
<1> QED BY <1>1, <1>2, <1>3

\* What a message becomes has the records of its fields, and fits.
LEMMA SerializedFits ==
    ASSUME NEW class, IsClass(class), NEW m, IsMessage(class, m), NEW w \in Serialize(class, m)
    PROVE  IsSeq(w) /\ \A r \in ToSet(w) : FitsClass(class, r)
<1>1. PICK keys : /\ IsOrder(class, m.fields, keys)
                  /\ w = FlattenSeq(SentFields(class, m.fields, keys)) \o m.unknown
  BY SerializedIs
<1> DEFINE F == SentFields(class, m.fields, keys)
<1>2. /\ IsSeq(F) /\ Len(F) = Len(class) /\ DOMAIN class = 1..Len(class) /\ Len(class) \in Nat
      /\ \A n \in DOMAIN class : /\ class[n] \in Kinds /\ IsSeq(F[n])
                                 /\ F[n] = Records(class[n], n, m.fields[n], keys)
  BY <1>1, SentAreSeqs
<1> HIDE DEF F
<1>3. \A n \in DOMAIN class : \A r \in ToSet(F[n]) : FitsClass(class, r)
  <2>1. ASSUME NEW n \in DOMAIN class, NEW r \in ToSet(F[n])
        PROVE  FitsClass(class, r)
    <3>1. Holds(class[n], m.fields[n])
      BY DEF IsMessage, FieldsOf
    <3>2. class[n] = "map" => IsSeq(keys) /\ keys \in SetToSeqs(DOMAIN m.fields[n])
      BY <1>1 DEF IsOrder
    <3>3. r[1] = <<n, WireType[class[n]]>> /\ Fits(class[n], WireType[class[n]], r[2])
      <4>1. class[n] \in Kinds /\ r \in ToSet(Records(class[n], n, m.fields[n], keys))
        BY <1>2
      <4> QED BY <3>1, <3>2, <4>1, RecordsAre
    <3>4. r[1][1] = n /\ r[1][2] = WireType[class[n]]
      BY <3>3
    <3> QED BY <3>3, <3>4 DEF FitsClass
  <2> QED BY <2>1
<1>4. IsSeq(FlattenSeq(F)) /\ \A r \in ToSet(FlattenSeq(F)) : FitsClass(class, r)
  <2>1. CASE Len(F) > 0
    <3>1. PICK rest : /\ IsSeq(rest) /\ FlattenSeq(F) = F[1] \o rest
                      /\ \A r \in ToSet(rest) : \E i \in 2..Len(F) : r \in ToSet(F[i])
      BY <1>2, <2>1, FlattenFirst
    <3>2. 1 \in DOMAIN class /\ \A i \in 2..Len(F) : i \in DOMAIN class
      BY <1>2, <2>1
    <3>3. IsSeq(F[1] \o rest) /\ ToSet(F[1] \o rest) = ToSet(F[1]) \cup ToSet(rest)
      BY <1>2, <3>1, <3>2, ConcatIsSeq
    <3> QED BY <1>3, <3>1, <3>2, <3>3
  <2>2. CASE ~(Len(F) > 0)
    <3>1. Len(F) = 0
      BY <1>2, <2>2
    <3>2. FlattenSeq(F) = F /\ F = <<>>
      BY <1>2, <3>1, EmptySeq DEF FlattenSeq, IsSeq
    <3> QED BY <1>2, <3>2 DEF ToSet
  <2> QED BY <2>1, <2>2
<1>5. IsSeq(m.unknown) /\ \A r \in ToSet(m.unknown) : FitsClass(class, r)
  BY DEF IsMessage, IsUnknown, FitsClass
<1> QED BY <1>1, <1>4, <1>5, ConcatIsSeq DEF F

\* What is not UTF-8 is not parsed.
LEMMA ParsedIsSendable ==
    ASSUME NEW class, IsClass(class), NEW m, IsMessage(class, m), NEW w \in Serialize(class, m),
           Parse(class, w).ok
    PROVE  IsSendable(class, m)
<1> DEFINE new == New(class)
           p == ParseLoop(class, [message |-> new, status |-> "parsing"], w)
<1>1. IsMessage(class, new)
  BY NewIs
<1> HIDE DEF new
<1>2. IsParser(class, [message |-> new, status |-> "parsing"])
  BY <1>1 DEF IsParser
<1>4. IsSeq(w) /\ \A r \in ToSet(w) : FitsClass(class, r)
  BY SerializedFits
<1>3. p.status = "parsing"
  <2>1. Parse(class, w).ok <=> p.status = "parsing"
    BY <1>4, ParseIs DEF new
  <2> HIDE DEF p
  <2> QED BY <2>1
<1>5. \A r \in ToSet(w) : Known(class, r[1]) => Verified(class[r[1][1]], r[2])
  BY <1>2, <1>3, <1>4, LoopTyped
<1> HIDE DEF p
<1>6. PICK keys : /\ IsOrder(class, m.fields, keys)
                  /\ w = FlattenSeq(SentFields(class, m.fields, keys)) \o m.unknown
  BY SerializedIs
<1> DEFINE F == SentFields(class, m.fields, keys)
<1>7. /\ IsSeq(F) /\ Len(F) = Len(class) /\ DOMAIN class = 1..Len(class) /\ Len(class) \in Nat
      /\ \A n \in DOMAIN class : /\ class[n] \in Kinds /\ IsSeq(F[n])
                                 /\ F[n] = Records(class[n], n, m.fields[n], keys)
  BY <1>6, SentAreSeqs
<1> HIDE DEF F
<1>8. \A n \in DOMAIN class : ToSet(F[n]) \subseteq ToSet(w)
  <2>1. PICK g : /\ FlattenSeq(F) = g[Len(F)] /\ \A i \in 0..Len(F) : IsSeq(g[i])
                 /\ \A i \in 1..Len(F) : ToSet(F[i]) \subseteq ToSet(g[Len(F)])
    BY <1>7, FlattenIs
  <2>2. IsSeq(g[Len(F)]) /\ w = g[Len(F)] \o m.unknown /\ IsSeq(m.unknown)
    BY <1>6, <1>7, <2>1 DEF F, IsMessage
  <2>3. ToSet(w) = ToSet(g[Len(F)]) \cup ToSet(m.unknown)
    BY <2>2, ConcatIsSeq
  <2> QED BY <1>7, <2>1, <2>3
<1>9. ASSUME NEW n \in DOMAIN class
      PROVE  Utf8(class[n], m.fields[n])
  <2> DEFINE v == m.fields[n]
  <2>1. Holds(class[n], v)
    BY DEF IsMessage, FieldsOf
  <2>2. \A r \in ToSet(F[n]) : r[1] = <<n, WireType[class[n]]>> => Verified(class[n], r[2])
    <3>1. ASSUME NEW r \in ToSet(F[n]), r[1] = <<n, WireType[class[n]]>>
          PROVE  Verified(class[n], r[2])
      <4>1. r[1][1] = n /\ r[1][2] = WireType[class[n]]
        BY <3>1
      <4>2. Known(class, r[1])
        BY <4>1 DEF Known
      <4> QED BY <1>5, <1>8, <4>1, <4>2
    <3> QED BY <3>1
  <2> HIDE DEF v
  <2>3. CASE class[n] = "string"
    <3>1. CASE v = Default["string"]
      BY <2>3, <3>1 DEF Utf8, Default, v
    <3>2. CASE v # Default["string"]
      <4> DEFINE r == <<<<n, WireType[class[n]]>>, v>>
      <4>1. F[n] = <<r>>
        BY <1>7, <2>3, <3>2, OneRecord DEF v
      <4>2. r \in ToSet(F[n]) /\ r[1] = <<n, WireType[class[n]]>> /\ r[2] = v
        BY <4>1 DEF ToSet
      <4>3. Verified(class[n], v)
        BY <2>2, <4>2
      <4> QED BY <2>3, <4>3 DEF Verified, Utf8, v
    <3> QED BY <3>1, <3>2
  <2>4. CASE class[n] = "map"
    <3>1. ASSUME NEW k \in DOMAIN v
          PROVE  v[k].utf8
      <4>1. v # Default["map"]
        BY <3>1 DEF Default
      <4>2. IsSeq(keys) /\ keys \in SetToSeqs(DOMAIN v) /\ IsFiniteSet(DOMAIN v)
        BY <1>6, <2>1, <2>4 DEF IsOrder, Holds, IsMap, v
      <4>3. Entries(F[n], n, v, keys)
        BY <1>7, <2>4, <4>1, <4>2, MapRecords DEF v
      <4>4. PICK i \in 1..Cardinality(DOMAIN v) : keys[i] = k
        BY <4>2, OrderIsBijection
      <4>5. i \in 1..Len(keys)
        <5>1. DOMAIN keys = 1..Len(keys)
          BY <4>2, LenProperties DEF IsSeq
        <5>2. DOMAIN keys = 1..Cardinality(DOMAIN v)
          BY <4>2 DEF SetToSeqs
        <5> QED BY <5>1, <5>2
      <4> DEFINE r == F[n][i]
      <4>6. r = <<<<n, "len">>, [key |-> k, value |-> v[k]]>>
        BY <4>3, <4>4, <4>5 DEF Entries
      <4>7. r \in ToSet(F[n])
        <5>1. DOMAIN F[n] = 1..Len(F[n]) /\ Len(F[n]) = Len(keys)
          BY <4>3, LenProperties DEF Entries, IsSeq
        <5> QED BY <4>5, <5>1 DEF ToSet
      <4> HIDE DEF r
      <4>8. r[1] = <<n, WireType[class[n]]>> /\ r[2].value = v[k]
        BY <2>4, <4>6 DEF WireType
      <4>9. Verified("map", r[2])
        BY <2>2, <2>4, <4>7, <4>8
      <4> QED BY <4>8, <4>9 DEF Verified
    <3> QED BY <2>4, <3>1 DEF Utf8, v
  <2> QED BY <2>3, <2>4 DEF Utf8
<1> QED BY <1>9 DEF IsSendable

-----------------------------------------------------------------------------
(* MessageObjects.                                                         *)

\* The classes of the .proto files.
LEMMA ClassesAre ==
    /\ IsClass(person) /\ IsClass(HelloRequest) /\ HelloResponse = HelloRequest
    /\ IsClass(AddRequest) /\ IsClass(AddResponse)
    /\ DOMAIN person = 1..5 /\ DOMAIN HelloRequest = {1}
    /\ person[1] = "string" /\ person[2] = "int32" /\ person[3] = "string" /\ person[4] = "floats"
    /\ person[5] = "map" /\ HelloRequest[1] = "string"
<1>1. IsClass(person)
  <2>1. person \in Seq(Kinds) /\ DOMAIN person = 1..5
    BY DEF person, Kinds
  <2> QED BY <2>1 DEF IsClass, person
<1>2. IsClass(HelloRequest) /\ IsClass(AddResponse)
  <2>1. HelloRequest \in Seq(Kinds) /\ DOMAIN HelloRequest = {1}
    BY DEF HelloRequest, Kinds
  <2>2. AddResponse \in Seq(Kinds) /\ DOMAIN AddResponse = {1}
    BY DEF AddResponse, Kinds
  <2> QED BY <2>1, <2>2 DEF IsClass, HelloRequest, AddResponse
<1>3. IsClass(AddRequest)
  <2>1. AddRequest \in Seq(Kinds) /\ DOMAIN AddRequest = 1..2
    BY DEF AddRequest, Kinds
  <2> QED BY <2>1 DEF IsClass, AddRequest
<1>4. HelloResponse = HelloRequest /\ DOMAIN HelloRequest = {1} /\ HelloRequest[1] = "string"
  BY DEF HelloResponse, HelloRequest
<1>5. /\ DOMAIN person = 1..5 /\ person[1] = "string" /\ person[2] = "int32" /\ person[3] = "string"
      /\ person[4] = "floats" /\ person[5] = "map"
  BY DEF person
<1> QED BY <1>1, <1>2, <1>3, <1>4, <1>5

\* A peer that knows the first field of a person only has the same to send on.
LEMMA PeerKeeps ==
    ASSUME NEW m, IsMessage(person, m), IsSendable(person, m), NEW w \in Serialize(person, m),
           NEW v \in Serialize(HelloRequest, Parse(HelloRequest, w).message)
    PROVE  v = w
<1>1. PICK keys : /\ IsOrder(person, m.fields, keys)
                  /\ w = FlattenSeq(SentFields(person, m.fields, keys)) \o m.unknown
  BY ClassesAre, SerializedIs
<1> DEFINE F == SentFields(person, m.fields, keys)
           name == m.fields[1]
<1>2. /\ IsSeq(F) /\ Len(F) = 5
      /\ \A n \in 1..5 : /\ person[n] \in Kinds /\ IsSeq(F[n])
                         /\ F[n] = Records(person[n], n, m.fields[n], keys)
  <2>1. Len(person) = 5
    BY DEF person
  <2> QED BY <1>1, <2>1, ClassesAre, SentAreSeqs
<1>3. F[1] = Records("string", 1, name, keys) /\ IsSeq(F[1])
  BY <1>2, ClassesAre
<1> HIDE DEF F
<1>4. PICK rest : /\ IsSeq(rest) /\ FlattenSeq(F) = F[1] \o rest
                  /\ \A r \in ToSet(rest) : \E i \in 2..Len(F) : r \in ToSet(F[i])
  <2>1. Len(F) > 0 /\ \A i \in 1..Len(F) : IsSeq(F[i])
    BY <1>2
  <2> QED BY <1>2, <2>1, FlattenFirst
<1> DEFINE more == rest \o m.unknown
<1>5. IsSeq(m.unknown) /\ \A r \in ToSet(m.unknown) : IsUnknown(person, r)
  BY DEF IsMessage
<1>6. w = F[1] \o more
  <2>1. Assoc(F[1], rest, m.unknown)
    BY <1>3, <1>4, <1>5, ConcatThree
  <2> QED BY <1>1, <1>4, <2>1 DEF Assoc, F
<1>7. IsSeq(more) /\ ToSet(more) = ToSet(rest) \cup ToSet(m.unknown)
  BY <1>4, <1>5, ConcatIsSeq
<1>8. \A r \in ToSet(more) : IsUnknown(HelloRequest, r)
  <2>1. ASSUME NEW r \in ToSet(rest)
        PROVE  IsUnknown(HelloRequest, r)
    <3>1. PICK i \in 2..5 : r \in ToSet(F[i])
      BY <1>2, <1>4, <2>1
    <3>2. /\ i \in 1..5 /\ person[i] \in Kinds /\ Holds(person[i], m.fields[i])
          /\ r \in ToSet(Records(person[i], i, m.fields[i], keys))
      BY <1>2, <3>1, ClassesAre DEF IsMessage, FieldsOf
    <3>3. person[i] = "map" => IsSeq(keys) /\ keys \in SetToSeqs(DOMAIN m.fields[i])
      BY <1>1, <3>2, ClassesAre DEF IsOrder
    <3>4. r[1] = <<i, WireType[person[i]]>>
      BY Zenon, <3>2, <3>3, RecordsAre
    <3>5. WireType[person[i]] \in {"len", "varint"}
      BY <3>2 DEF WireType, Kinds
    <3>6. r[1][1] = i /\ r[1][2] \in {"len", "varint"}
      BY <3>4, <3>5
    <3>7. i # 1
      BY <3>1
    <3> QED BY <3>6, <3>7, ClassesAre DEF IsUnknown, Known
  <2>2. ASSUME NEW r \in ToSet(m.unknown)
        PROVE  IsUnknown(HelloRequest, r)
    BY <1>5, <2>2, ClassesAre DEF IsUnknown, Known
  <2> QED BY <1>7, <2>1, <2>2
<1> HIDE DEF more, name
<1> DEFINE f == New(HelloRequest).fields
           h == [f EXCEPT ![1] = name]
<1>9. /\ f = [n \in {1} |-> Default["string"]]
      /\ New(HelloRequest) = [fields |-> f, unknown |-> <<>>]
      /\ h = [n \in {1} |-> name]
  BY ClassesAre DEF New
<1>10. name \in Text /\ name.utf8
  BY ClassesAre DEF IsMessage, FieldsOf, Holds, IsSendable, Utf8, name
<1>11. Parse(HelloRequest, w).message = [fields |-> h, unknown |-> more]
  <2> DEFINE u == <<>>
             p == ParseLoop(HelloRequest, State(f, u), w)
  <2>1. ParseLoop(HelloRequest, State(f, u), F[1]) = State(h, u)
    <3>1. 1 \in DOMAIN f /\ f[1] = Default["string"] /\ f = [k \in DOMAIN f |-> f[k]]
      BY <1>9
    <3>2. "string" \in Kinds /\ Holds("string", Default["string"])
          /\ Holds("string", name) /\ Utf8("string", name)
      BY <1>10, DefaultHolds DEF Kinds, Holds, Utf8
    <3> HIDE DEF f, u
    <3>3. ParseLoop(HelloRequest, State(f, u), Records("string", 1, name, keys)) =
            State([f EXCEPT ![1] = MergeField("string", f[1], name)], u)
      BY <3>1, <3>2, ClassesAre, FieldParsed
    <3>4. MergeField("string", f[1], name) = name
      BY <3>1, <3>2, MergeNew
    <3> QED BY <1>3, <3>3, <3>4
  <2>2. IsSeq(u) /\ u \o more = more
    BY <1>7, ConcatEmptySeq DEF IsSeq
  <2>3. Parse(HelloRequest, w).message = p.message
    <3>1. IsSeq(w)
      BY <1>3, <1>6, <1>7, ConcatIsSeq
    <3>2. State(f, u) = [message |-> New(HelloRequest), status |-> "parsing"]
      BY <1>9 DEF State
    <3> QED BY <3>1, <3>2, ParseIs
  <2> HIDE DEF f, h, u, p
  <2>4. p = ParseLoop(HelloRequest, ParseLoop(HelloRequest, State(f, u), F[1]), more)
    BY <1>3, <1>6, <1>7, ParseConcat DEF p
  <2>5. p = State(h, u \o more)
    <3>1. ParseLoop(HelloRequest, State(h, u), more) = State(h, u \o more)
      <4>1. IsSeq(u) /\ IsSeq(more)
        BY <1>7, <2>2
      <4> QED BY <1>8, <4>1, UnknownParsed
    <3> QED BY <2>1, <2>4, <3>1
  <2> QED BY <2>2, <2>3, <2>5 DEF State
<1> DEFINE q == [fields |-> h, unknown |-> more]
<1>12. IsMessage(HelloRequest, q)
  BY <1>7, <1>8, <1>9, <1>10, ClassesAre DEF IsMessage, FieldsOf, Holds
<1>13. q.fields = h /\ q.unknown = more /\ h[1] = name
  BY <1>9
<1> HIDE DEF q, h
<1>14. PICK order : /\ IsOrder(HelloRequest, h, order)
                    /\ v = FlattenSeq(SentFields(HelloRequest, h, order)) \o more
  <2>1. v \in Serialize(HelloRequest, q)
    BY <1>11 DEF q
  <2>2. IsClass(HelloRequest)
    BY ClassesAre
  <2>3. PICK order : /\ IsOrder(HelloRequest, q.fields, order)
                     /\ v = FlattenSeq(SentFields(HelloRequest, q.fields, order)) \o q.unknown
    BY <1>12, <2>1, <2>2, SerializedIs
  <2> QED BY <1>13, <2>3
<1> DEFINE G == SentFields(HelloRequest, h, order)
<1>15. IsSeq(G) /\ Len(G) = 1 /\ IsSeq(G[1]) /\ G[1] = Records("string", 1, name, order)
  <2>1. Len(HelloRequest) = 1
    BY DEF HelloRequest
  <2> QED BY <1>13, <1>14, <2>1, ClassesAre, SentAreSeqs
<1>16. Records("string", 1, name, order) = Records("string", 1, name, keys)
  <2>1. "string" \in Kinds /\ "string" # "map"
    BY DEF Kinds
  <2>2. CASE name = Default["string"]
    BY <2>1, <2>2, DefaultIs
  <2>3. CASE name # Default["string"]
    BY <2>1, <2>3, OneRecord
  <2> QED BY <2>2, <2>3
<1> HIDE DEF G
<1>17. FlattenSeq(G) = G[1]
  <2>1. PICK g : Flat(G, g) /\ FlattenSeq(G) = g[1]
    <3>1. \A i \in 1..Len(G) : IsSeq(G[i])
      BY <1>15
    <3> QED BY <1>15, <3>1, FlattenIs
  <2>2. 1 \in 1..Len(G) /\ 1 - 1 = 0
    BY <1>15
  <2>3. g[1] = g[1 - 1] \o G[1] /\ g[0] = <<>>
    BY <2>1, <2>2 DEF Flat
  <2>4. <<>> \o G[1] = G[1]
    BY <1>15, ConcatEmptySeq DEF IsSeq
  <2> QED BY <2>1, <2>2, <2>3, <2>4
<1> QED BY <1>3, <1>6, <1>14, <1>15, <1>16, <1>17 DEF G

\* A merged message is a message.
LEMMA MergeTyped ==
    ASSUME NEW class, IsClass(class), NEW m, IsMessage(class, m), NEW from, IsMessage(class, from)
    PROVE  IsMessage(class, Merge(class, m, from))
<1> DEFINE f == [n \in DOMAIN class |-> MergeField(class[n], m.fields[n], from.fields[n])]
           u == m.unknown \o from.unknown
<1>1. ASSUME NEW kind \in Kinds, NEW old, Holds(kind, old), NEW new, Holds(kind, new)
      PROVE  Holds(kind, MergeField(kind, old, new))
  <2>1. CASE kind \in {"string", "int32"}
    BY <1>1, <2>1 DEF MergeField
  <2>2. CASE kind = "floats"
    <3>1. old \in Seq(Int) /\ new \in Seq(Int)
      BY <1>1, <2>2 DEF Holds
    <3>2. old \o new \in Seq(Int)
      BY <3>1, ConcatProperties
    <3> QED BY <2>2, <3>2 DEF MergeField, Holds
  <2>3. CASE kind = "map"
    <3> DEFINE v == Over(new, old)
    <3>1. IsMap(old) /\ IsMap(new)
      BY <1>1, <2>3 DEF Holds
    <3>2. DOMAIN v = DOMAIN new \cup DOMAIN old /\ v = [k \in DOMAIN v |-> v[k]]
      BY DEF Over
    <3>3. IsFiniteSet(DOMAIN v)
      <4>1. IsFiniteSet(DOMAIN old) /\ IsFiniteSet(DOMAIN new)
        BY <3>1 DEF IsMap
      <4>2. IsFiniteSet(DOMAIN new \cup DOMAIN old)
        BY <4>1, FS_Union
      <4> QED BY <3>2, <4>2
    <3>4. \A k \in DOMAIN v : v[k] \in Text
      BY <3>1 DEF Over, IsMap
    <3> HIDE DEF v
    <3>5. IsMap(v)
      BY <3>2, <3>3, <3>4 DEF IsMap
    <3> QED BY <2>3, <3>5 DEF MergeField, Holds, v
  <2> QED BY <2>1, <2>2, <2>3 DEF Kinds
<1>2. FieldsOf(class, f)
  <2>1. ASSUME NEW n \in DOMAIN class
        PROVE  Holds(class[n], MergeField(class[n], m.fields[n], from.fields[n]))
    <3>1. class[n] \in Kinds /\ Holds(class[n], m.fields[n]) /\ Holds(class[n], from.fields[n])
      BY LenProperties DEF IsClass, IsMessage, FieldsOf
    <3> QED BY <1>1, <3>1
  <2> QED BY <2>1 DEF FieldsOf
<1>3. IsSeq(u) /\ \A r \in ToSet(u) : IsUnknown(class, r)
  BY ConcatIsSeq DEF IsMessage
<1>4. Merge(class, m, from) = [fields |-> f, unknown |-> u]
  BY DEF Merge
<1> HIDE DEF f, u
<1> QED BY <1>2, <1>3, <1>4 DEF IsMessage

\* The instance has operators of its own, and they are the same.
LEMMA MessagesOperators ==
    /\ Messages!person = person
    /\ Messages!HelloRequest = HelloRequest /\ Messages!HelloResponse = HelloResponse
    /\ Messages!Default = Default
    /\ \A class : Messages!New(class) = New(class)
    /\ \A class, m, from : Messages!Merge(class, m, from) = Merge(class, m, from)
    /\ \A class, from : Messages!Copy(class, from) = Merge(class, New(class), from)
    /\ \A new, old : Messages!Over(new, old) = Over(new, old)
    /\ \A key, value : Messages!Entry(key, value) = Entry(key, value)
    /\ \A class, w : Messages!Parse(class, w) = Parse(class, w)
    /\ \A class, m : Messages!Serialize(class, m) = Serialize(class, m)
<1>1. /\ Messages!person = person
      /\ Messages!HelloRequest = HelloRequest /\ Messages!HelloResponse = HelloResponse
      /\ Messages!Default = Default
  BY DEF Messages!person, person, Messages!HelloRequest, HelloRequest, Messages!HelloResponse,
         HelloResponse, Messages!Default, Default
<1>2. \A class : Messages!New(class) = New(class)
  BY <1>1 DEF Messages!New, New
<1>3. \A new, old : Messages!Over(new, old) = Over(new, old)
  BY DEF Messages!Over, Over
<1>4. \A key, value : Messages!Entry(key, value) = Entry(key, value)
  BY DEF Messages!Entry, Entry
<1>5. \A class, m, from : Messages!Merge(class, m, from) = Merge(class, m, from)
  BY DEF Messages!Merge, Merge, Messages!MergeField, MergeField, Messages!Over, Over,
         Messages!Default, Default
<1>6. \A class, from : Messages!Copy(class, from) = Merge(class, New(class), from)
  BY <1>2, <1>5 DEF Messages!Copy
<1>7. ASSUME NEW class, NEW w
      PROVE  Messages!Parse(class, w) = Parse(class, w)
  BY Zenon DEF Messages!Parse, Parse, Messages!MergeFromWire, MergeFromWire, Messages!ParseRecord,
     ParseRecord, Messages!New, New, Messages!Default, Default, Messages!Known, Known,
     Messages!WireType, WireType, Messages!Read, Read, Messages!Int32, Int32, Messages!AddScores,
     AddScores, Messages!Over, Over, Messages!Entry, Entry, Messages!Verified, Verified,
     Messages!Keep, Keep, FoldLeft, Messages!FoldLeft, MapThenFoldSet, Messages!MapThenFoldSet,
     Max, Messages!Max
<1>8. ASSUME NEW class, NEW m
      PROVE  Messages!Serialize(class, m) = Serialize(class, m)
  BY Zenon DEF Messages!Serialize, Serialize, Messages!Orders, Orders, Messages!Records, Records,
     Messages!Default, Default, Messages!WireType, WireType, FlattenSeq, Messages!FlattenSeq,
     SetToSeqs, Messages!SetToSeqs, Cardinality, Messages!Cardinality, ExistsBijection,
     Messages!ExistsBijection, Bijection, Messages!Bijection
<1> QED BY <1>1, <1>2, <1>3, <1>4, <1>5, <1>6, <1>7, <1>8

\* The objects are messages, and what is on the wire fits.
MessagesOK ==
    /\ object = [o \in {"p", "q"} |-> object[o]]
    /\ \A o \in {"p", "q"} : IsMessage(person, object[o])
    /\ IsSeq(wire) /\ \A r \in ToSet(wire) : FitsClass(person, r)

\* New objects are messages.
LEMMA MessagesInit == Messages!Init => MessagesOK
<1> SUFFICES ASSUME Messages!Init
             PROVE  MessagesOK
  OBVIOUS
<1>1. object = [o \in {"p", "q"} |-> New(person)] /\ wire = <<>>
  BY MessagesOperators DEF Messages!Init, Messages!Objects
<1>2. IsMessage(person, New(person))
  BY ClassesAre, NewIs
<1>3. IsSeq(<<>>) /\ ToSet(<<>>) = {}
  BY DEF IsSeq, ToSet
<1> QED BY <1>1, <1>2, <1>3 DEF MessagesOK

\* One object becomes another message.
LEMMA BecomesTyped ==
    ASSUME MessagesOK, NEW o \in {"p", "q"}, NEW m, IsMessage(person, m), Messages!Becomes(o, m)
    PROVE  MessagesOK'
<1>1. object' = [object EXCEPT ![o] = m] /\ wire' = wire
  BY DEF Messages!Becomes
<1> QED BY <1>1 DEF MessagesOK

\* Every method leaves messages, and bytes that can be read.
LEMMA MessagesStep == MessagesOK /\ Messages!Next => MessagesOK'
<1> SUFFICES ASSUME MessagesOK, Messages!Next
             PROVE  MessagesOK'
  OBVIOUS
<1>1. ASSUME NEW o \in {"p", "q"},
             NEW n \in 1..5, NEW v, Holds(person[n], v), Messages!SetField(o, n, v)
      PROVE  MessagesOK'
  <2>1. Messages!Becomes(o, [object[o] EXCEPT !.fields[n] = v])
    BY <1>1 DEF Messages!SetField
  <2>2. IsMessage(person, [object[o] EXCEPT !.fields[n] = v])
    BY <1>1, ClassesAre, SetFieldTyped DEF MessagesOK
  <2> QED BY <2>1, <2>2, BecomesTyped
<1>2. ASSUME NEW o \in {"p", "q"}
      PROVE  /\ object[o].fields[4] \in Seq(Int)
             /\ IsMap(object[o].fields[5])
  BY ClassesAre DEF MessagesOK, IsMessage, FieldsOf, Holds
<1>3. CASE Messages!SetName
  <2>1. PICK o \in {"p", "q"}, s \in Texts : Messages!SetField(o, 1, s)
    BY <1>3 DEF Messages!SetName, Messages!Objects
  <2>2. Holds(person[1], s)
    BY ClassesAre, CodecsAssumption DEF Holds
  <2> QED BY <1>1, <2>1, <2>2
<1>4. CASE Messages!SetAge
  <2>1. PICK o \in {"p", "q"}, n \in Ages : Messages!SetField(o, 2, n)
    BY <1>4 DEF Messages!SetAge, Messages!Objects
  <2>2. Holds(person[2], n)
    BY ClassesAre, CodecsAssumption DEF Holds, Int32s
  <2> QED BY <1>1, <2>1, <2>2
<1>5. CASE Messages!SetEmail
  <2>1. PICK o \in {"p", "q"}, s \in Texts : Messages!SetField(o, 3, s)
    BY <1>5 DEF Messages!SetEmail, Messages!Objects
  <2>2. Holds(person[3], s)
    BY ClassesAre, CodecsAssumption DEF Holds
  <2> QED BY <1>1, <2>1, <2>2
<1>6. CASE Messages!AddScore
  <2>1. PICK o \in {"p", "q"}, x \in Scores :
            Messages!SetField(o, 4, Append(object[o].fields[4], x))
    BY <1>6 DEF Messages!AddScore, Messages!Objects
  <2>2. x \in Int
    BY CodecsAssumption
  <2>3. Append(object[o].fields[4], x) \in Seq(Int)
    BY <1>2, <2>2, AppendProperties
  <2>4. Holds(person[4], Append(object[o].fields[4], x))
    BY <2>3, ClassesAre DEF Holds
  <2> QED BY <1>1, <2>1, <2>4
<1>7. CASE Messages!SetScore
  <2>1. PICK o \in {"p", "q"}, x \in Scores : \E i \in DOMAIN object[o].fields[4] :
            Messages!SetField(o, 4, [object[o].fields[4] EXCEPT ![i] = x])
    BY <1>7 DEF Messages!SetScore, Messages!Objects
  <2>2. PICK i \in DOMAIN object[o].fields[4] :
            Messages!SetField(o, 4, [object[o].fields[4] EXCEPT ![i] = x])
    BY <2>1
  <2>3. x \in Int /\ i \in 1..Len(object[o].fields[4])
    BY <1>2, CodecsAssumption, LenProperties
  <2>4. [object[o].fields[4] EXCEPT ![i] = x] \in Seq(Int)
    BY <1>2, <2>3, ExceptSeq
  <2>5. Holds(person[4], [object[o].fields[4] EXCEPT ![i] = x])
    BY <2>4, ClassesAre DEF Holds
  <2> QED BY <1>1, <2>2, <2>5
<1>8. CASE Messages!PutOther
  <2>1. PICK o \in {"p", "q"}, k \in Keys, s \in Texts :
            Messages!SetField(o, 5, Over(Entry(k, s), object[o].fields[5]))
    BY <1>8, MessagesOperators DEF Messages!PutOther, Messages!Objects
  <2> DEFINE payload == [key |-> k, value |-> s]
  <2>2. Fits("map", "len", payload) /\ "map" \in Kinds /\ Holds("map", object[o].fields[5])
    BY <1>2, CodecsAssumption DEF Fits, Kinds, Holds
  <2>3. payload.key = k /\ payload.value = s
    OBVIOUS
  <2> HIDE DEF payload
  <2>4. Holds("map", Read("map", object[o].fields[5], "len", payload))
    BY <2>2, ReadHolds
  <2>5. Holds(person[5], Over(Entry(k, s), object[o].fields[5]))
    BY <2>3, <2>4, ClassesAre DEF Read
  <2> QED BY <1>1, <2>1, <2>5
<1>9. CASE Messages!ClearField
  <2>1. PICK o \in {"p", "q"} : \E n \in 1..5 : Messages!SetField(o, n, Default[person[n]])
    BY <1>9, MessagesOperators, ClassesAre DEF Messages!ClearField, Messages!Objects
  <2>2. PICK n \in 1..5 : Messages!SetField(o, n, Default[person[n]])
    BY <2>1
  <2>3. person[n] \in Kinds
    BY ClassesAre DEF Kinds
  <2> QED BY <1>1, <2>2, <2>3, DefaultHolds
<1>10. CASE Messages!Clear
  <2>1. PICK o \in {"p", "q"} : Messages!Becomes(o, New(person))
    BY <1>10, MessagesOperators DEF Messages!Clear, Messages!Objects
  <2> QED BY <2>1, ClassesAre, NewIs, BecomesTyped
<1>11. CASE Messages!MergeFrom
  <2>1. PICK o \in {"p", "q"}, from \in {"p", "q"} :
            Messages!Becomes(o, Merge(person, object[o], object[from]))
    BY <1>11, MessagesOperators DEF Messages!MergeFrom, Messages!Objects
  <2>2. IsMessage(person, Merge(person, object[o], object[from]))
    BY ClassesAre, MergeTyped DEF MessagesOK
  <2> QED BY <2>1, <2>2, BecomesTyped
<1>12. CASE Messages!CopyFrom
  <2>1. PICK o \in {"p", "q"}, from \in {"p", "q"} :
            Messages!Becomes(o, Merge(person, New(person), object[from]))
    BY <1>12, MessagesOperators DEF Messages!CopyFrom, Messages!Objects
  <2>2. IsMessage(person, Merge(person, New(person), object[from]))
    BY ClassesAre, NewIs, MergeTyped DEF MessagesOK
  <2> QED BY <2>1, <2>2, BecomesTyped
<1>13. CASE Messages!Swap
  BY <1>13 DEF Messages!Swap, MessagesOK
<1>14. CASE Messages!SerializeAsString
  <2>1. PICK o \in {"p", "q"} : wire' \in Serialize(person, object[o]) /\ object' = object
    BY <1>14, MessagesOperators DEF Messages!SerializeAsString, Messages!Objects
  <2>2. IsMessage(person, object[o])
    BY DEF MessagesOK
  <2>3. \A w \in Serialize(person, object[o]) : IsSeq(w) /\ \A r \in ToSet(w) : FitsClass(person, r)
    BY <2>2, ClassesAre, SerializedFits
  <2> QED BY <2>1, <2>3 DEF MessagesOK
<1>15. CASE Messages!ParseFromString
  <2>1. PICK o \in {"p", "q"} :
        object' = [object EXCEPT ![o] = Parse(person, wire).message] /\ wire' = wire
    BY <1>15, MessagesOperators DEF Messages!ParseFromString, Messages!Objects
  <2> DEFINE p == [message |-> New(person), status |-> "parsing"]
             q == ParseLoop(person, p, wire)
  <2>2. Parse(person, wire).message = q.message
    BY ParseIs DEF MessagesOK
  <2>3. IsParser(person, p)
    BY ClassesAre, NewIs DEF IsParser
  <2> HIDE DEF p
  <2>4. IsParser(person, q)
    BY <2>3, ClassesAre, LoopTyped DEF MessagesOK
  <2>5. IsMessage(person, Parse(person, wire).message)
    BY <2>2, <2>4 DEF IsParser
  <2> QED BY <2>1, <2>5 DEF MessagesOK
<1>16. CASE Messages!Arrive
  <2>1. PICK r \in Foreign : wire' = Append(wire, r) /\ object' = object
    BY <1>16 DEF Messages!Arrive
  <2>2. FitsClass(person, r)
    BY CodecsAssumption DEF FitsClass
  <2> DEFINE S == ToSet(wire) \cup {r}
  <2>3. wire \in Seq(S) /\ r \in S
    BY SeqMonotonic DEF MessagesOK, IsSeq
  <2>4. wire' \in Seq(S) /\ ToSet(wire') = ToSet(wire) \cup {r}
    <3>1. Append(wire, r) \in Seq(S) /\ ToSet(Append(wire, r)) = ToSet(wire) \cup {r}
      BY <2>3, AppendProperties, ToSetAppend
    <3> QED BY <2>1, <3>1
  <2>5. IsSeq(wire')
    BY <2>4, SeqIsSeq
  <2>6. \A x \in ToSet(wire') : FitsClass(person, x)
    BY <2>2, <2>4 DEF MessagesOK
  <2> QED BY <2>1, <2>5, <2>6 DEF MessagesOK
<1> QED BY <1>3, <1>4, <1>5, <1>6, <1>7, <1>8, <1>9, <1>10, <1>11, <1>12, <1>13, <1>14, <1>15, <1>16
        DEF Messages!Next

\* Sendable of MessageObjects is IsSendable.
LEMMA SendableIs ==
    ASSUME NEW m
    PROVE  Messages!Sendable(m) <=> IsSendable(person, m)
BY MessagesOperators, ClassesAre DEF Messages!Sendable, IsSendable, Utf8

\* Such objects come back.
LEMMA MessagesKept == MessagesOK => RoundTrip /\ ConcatenationMerges
<1> SUFFICES ASSUME MessagesOK
             PROVE  RoundTrip /\ ConcatenationMerges
  OBVIOUS
<1>1. ASSUME NEW o \in {"p", "q"}, NEW w \in Serialize(person, object[o]), IsSendable(person, object[o])
      PROVE  /\ Parse(person, w) = [message |-> object[o], ok |-> TRUE]
             /\ \A v \in Serialize(HelloRequest, Parse(HelloRequest, w).message) :
                \A u \in Serialize(HelloRequest, Parse(HelloRequest, v).message) :
                    Parse(person, u) = [message |-> object[o], ok |-> TRUE]
  <2>1. IsMessage(person, object[o])
    BY DEF MessagesOK
  <2>2. Parse(person, w) = [message |-> object[o], ok |-> TRUE]
    BY <1>1, <2>1, ClassesAre, ParsedIsSent
  <2>3. ASSUME NEW v \in Serialize(HelloRequest, Parse(HelloRequest, w).message)
        PROVE  v = w
    BY <1>1, <2>1, PeerKeeps
  <2> QED BY <2>2, <2>3
<1>2. ASSUME NEW o \in {"p", "q"},
             NEW w \in Serialize(person, object[o]), ~IsSendable(person, object[o])
      PROVE  ~Parse(person, w).ok
  BY <1>2, ClassesAre, ParsedIsSendable DEF MessagesOK
<1>3. RoundTrip
  BY <1>1, <1>2, SendableIs, MessagesOperators, ClassesAre
     DEF RoundTrip, Messages!RoundTrip, Messages!Objects, Messages!RequestParse,
         Messages!RequestSerialize, Messages!ResponseParse, Messages!ResponseSerialize
<1>4. ConcatenationMerges
  <2>1. ASSUME NEW o \in {"p", "q"}, NEW from \in {"p", "q"}, IsSendable(person, object[o]),
               IsSendable(person, object[from]),
               NEW v \in Serialize(person, object[o]), NEW w \in Serialize(person, object[from])
        PROVE  Parse(person, v \o w).message = Merge(person, object[o], object[from])
    BY <2>1, ClassesAre, ConcatParsed DEF MessagesOK
  <2> QED BY <2>1, SendableIs, MessagesOperators
          DEF ConcatenationMerges, Messages!ConcatenationMerges, Messages!Objects
<1> QED BY <1>3, <1>4

-----------------------------------------------------------------------------
(* RpcCalls.                                                               *)

\* RpcCalls has the operators of the messages.
LEMMA RpcOperators ==
    /\ Rpc!AddRequest = AddRequest /\ Rpc!AddResponse = AddResponse
    /\ \A class : Rpc!New(class) = New(class)
    /\ \A n : Rpc!Int32(n) = Int32(n)
    /\ \A class, w : Rpc!Parse(class, w) = Parse(class, w)
    /\ \A class, m : Rpc!Serialize(class, m) = Serialize(class, m)
<1>1. Rpc!AddRequest = AddRequest /\ Rpc!AddResponse = AddResponse
  BY DEF Rpc!AddRequest, AddRequest, Rpc!AddResponse, AddResponse
<1>2. \A class : Rpc!New(class) = New(class)
  BY DEF Rpc!New, New, Rpc!Default, Default
<1>3. \A n : Rpc!Int32(n) = Int32(n)
  BY DEF Rpc!Int32, Int32
<1>4. ASSUME NEW class, NEW w
      PROVE  Rpc!Parse(class, w) = Parse(class, w)
  BY Zenon DEF Rpc!Parse, Parse, Rpc!MergeFromWire, MergeFromWire, Rpc!ParseRecord,
     ParseRecord, Rpc!New, New, Rpc!Default, Default, Rpc!Known, Known,
     Rpc!WireType, WireType, Rpc!Read, Read, Rpc!Int32, Int32, Rpc!AddScores,
     AddScores, Rpc!Over, Over, Rpc!Entry, Entry, Rpc!Verified, Verified,
     Rpc!Keep, Keep, FoldLeft, Rpc!FoldLeft, MapThenFoldSet, Rpc!MapThenFoldSet,
     Max, Rpc!Max
<1>5. ASSUME NEW class, NEW m
      PROVE  Rpc!Serialize(class, m) = Serialize(class, m)
  BY Zenon DEF Rpc!Serialize, Serialize, Rpc!Orders, Orders, Rpc!Records, Records,
     Rpc!Default, Default, Rpc!WireType, WireType, FlattenSeq, Rpc!FlattenSeq,
     SetToSeqs, Rpc!SetToSeqs, Cardinality, Rpc!Cardinality, ExistsBijection,
     Rpc!ExistsBijection, Bijection, Rpc!Bijection
<1> QED BY <1>1, <1>2, <1>3, <1>4, <1>5

\* The sum of a request, and the response with it.
SumOf(m)     == Int32(m.fields[1] + m.fields[2])

ResultOf(m)  == [New(AddResponse) EXCEPT !.fields[1] = SumOf(m)]

Responses(m) == Serialize(AddResponse, ResultOf(m))

Requests(m)  == Serialize(AddRequest, m)

\* A request comes to the server as it was sent, and its answer to the client.
LEMMA RequestParsed ==
    ASSUME NEW m, IsMessage(AddRequest, m), NEW w \in Requests(m)
    PROVE  Parse(AddRequest, w).message = m
<1>1. IsSendable(AddRequest, m)
  <2>1. AddRequest[1] = "int32" /\ AddRequest[2] = "int32" /\ DOMAIN AddRequest = 1..2
    BY DEF AddRequest
  <2> QED BY <2>1 DEF IsSendable, Utf8
<1>2. Parse(AddRequest, w) = [message |-> m, ok |-> TRUE]
  BY <1>1, ClassesAre, ParsedIsSent DEF Requests
<1> QED BY <1>2

\* The client reads the sum of the request that was sent.
LEMMA ResponseParsed ==
    ASSUME NEW m, IsMessage(AddRequest, m), NEW w \in Responses(m)
    PROVE  Parse(AddResponse, w).message.fields[1] = SumOf(m)
<1> DEFINE new == New(AddResponse)
           n == SumOf(m)
           q == ResultOf(m)
<1>1. AddResponse[1] = "int32" /\ DOMAIN AddResponse = {1}
  BY DEF AddResponse
<1>2. IsMessage(AddResponse, new) /\ 1 \in DOMAIN new.fields /\ "fields" \in DOMAIN new
  <2>1. IsMessage(AddResponse, new)
    BY ClassesAre, NewIs
  <2> QED BY <1>1, <2>1 DEF New
<1>3. n \in Int32s
  <2>1. /\ m.fields[1] \in Int32s /\ m.fields[2] \in Int32s
    <3>1. 1 \in DOMAIN AddRequest /\ 2 \in DOMAIN AddRequest
          /\ AddRequest[1] = "int32" /\ AddRequest[2] = "int32"
      BY DEF AddRequest
    <3>2. Holds("int32", m.fields[1]) /\ Holds("int32", m.fields[2])
      BY <3>1 DEF IsMessage, FieldsOf
    <3> QED BY <3>2 DEF Holds
  <2>2. m.fields[1] + m.fields[2] \in Int
    BY <2>1, IntAssumption DEF Int32s
  <2> QED BY <2>2, Int32Is DEF SumOf
<1>4. q = [new EXCEPT !.fields[1] = n]
  BY DEF ResultOf
<1> HIDE DEF new, n, q
<1>5. q.fields[1] = n
  BY <1>2, <1>4
<1>6. IsMessage(AddResponse, q)
  <2>1. Holds(AddResponse[1], n) /\ 1 \in DOMAIN AddResponse
    BY <1>1, <1>3 DEF Holds
  <2> QED BY <1>2, <1>4, <2>1, SetFieldTyped
<1>7. IsSendable(AddResponse, q)
  BY <1>1 DEF IsSendable, Utf8
<1>8. Parse(AddResponse, w) = [message |-> q, ok |-> TRUE]
  BY <1>6, <1>7, ClassesAre, ParsedIsSent DEF Responses, q
<1> QED BY <1>5, <1>8 DEF n

\* What a packet, a request in a handler, and an end of a call are for.
PacketOK(p) ==
    /\ p.call \in Issued /\ attempt[p.call] # 0
    /\ p.kind = "request" => p.wire \in Requests(request[p.call])
    /\ p.kind = "response" => p.wire \in Responses(request[p.call])
    /\ p.kind \in {"request", "response", "error"}

JobOK(j) == j.call \in Issued /\ attempt[j.call] # 0 /\ j.request = request[j.call]

EndedOK(c) ==
    \/ ended[c] = <<>>
    \/ /\ attempt[c] # 0
       /\ \E x : /\ ended[c] = <<x>>
                 /\ ~x.failed => x.result = SumOf(request[c])

RpcOK ==
    /\ request = [c \in Issued |-> request[c]] /\ attempt = [c \in Issued |-> attempt[c]]
    /\ ended = [c \in Issued |-> ended[c]]
    /\ \A c \in Issued :
           /\ attempt[c] \in Nat /\ EndedOK(c)
           /\ IsMessage(AddRequest, request[c])
    /\ \A p \in net : PacketOK(p)
    /\ \A j \in jobs : JobOK(j)

\* No call was issued yet.
LEMMA RpcInit == Rpc!Init => RpcOK
<1> SUFFICES ASSUME Rpc!Init
             PROVE  RpcOK
  OBVIOUS
<1>1. /\ request = [c \in Issued |-> New(AddRequest)] /\ attempt = [c \in Issued |-> 0]
      /\ net = {} /\ jobs = {} /\ ended = [c \in Issued |-> <<>>]
  BY RpcOperators DEF Rpc!Init
<1>2. IsMessage(AddRequest, New(AddRequest))
  BY ClassesAre, NewIs
<1> QED BY <1>1, <1>2 DEF RpcOK, EndedOK

\* Only the packets and the requests in handlers change.
LEMMA PacketsChange ==
    ASSUME RpcOK, request' = request, attempt' = attempt, ended' = ended,
           \A p \in net' \ net : PacketOK(p), \A j \in jobs' \ jobs : JobOK(j)
    PROVE  RpcOK'
<1>1. \A p \in net' : PacketOK(p)
  BY DEF RpcOK
<1>2. \A j \in jobs' : JobOK(j)
  BY DEF RpcOK
<1>3. \A p \in net' : PacketOK(p)'
  BY <1>1 DEF PacketOK
<1>4. \A j \in jobs' : JobOK(j)'
  BY <1>2 DEF JobOK
<1> QED BY <1>3, <1>4 DEF RpcOK, EndedOK

\* A call ends.
LEMMA CallEnds ==
    ASSUME RpcOK, NEW c \in Issued, Rpc!Waiting(c), NEW x, Rpc!Run(c, x),
           ~x.failed => x.result = SumOf(request[c]),
           request' = request, attempt' = attempt, net' \subseteq net, jobs' = jobs
    PROVE  RpcOK'
<1>1. ended[c] = <<>> /\ attempt[c] # 0
  BY DEF Rpc!Waiting, RpcOK
<1>2. ended' = [ended EXCEPT ![c] = <<x>>]
  <2>1. Append(<<>>, x) = <<x>>
    OBVIOUS
  <2> QED BY <1>1, <2>1 DEF Rpc!Run
<1>3. \A p \in net' : PacketOK(p)'
  BY DEF PacketOK, RpcOK
<1>4. \A j \in jobs' : JobOK(j)'
  BY DEF JobOK, RpcOK
<1>5. \A d \in Issued : EndedOK(d)'
  BY <1>1, <1>2 DEF EndedOK, RpcOK
<1> QED BY <1>2, <1>3, <1>4, <1>5 DEF RpcOK

\* A call is sent, the first time or again.
LEMMA CallSent ==
    ASSUME RpcOK, NEW c \in Issued, NEW m, IsMessage(AddRequest, m), NEW n \in Nat \ {0},
           attempt[c] = 0 \/ m = request[c],
           request' = [request EXCEPT ![c] = m], attempt' = [attempt EXCEPT ![c] = n],
           ended' = ended, jobs' = jobs, Rpc!Send(c, m)
    PROVE  RpcOK'
<1>3. request'[c] = m /\ attempt'[c] = n
  BY DEF RpcOK
<1>1. PICK w \in Requests(m) : net' = net \cup {Rpc!Packet("request", c, n, w)}
  BY <1>3, RpcOperators DEF Rpc!Send, Requests
<1> DEFINE p == Rpc!Packet("request", c, n, w)
<1>2. p.call = c /\ p.kind = "request" /\ p.wire = w
  BY DEF Rpc!Packet
<1> HIDE DEF p
<1>4. \A d \in Issued : attempt[d] # 0 => request'[d] = request[d] /\ attempt'[d] # 0
  BY <1>3 DEF RpcOK
<1>5. PacketOK(p)'
  BY <1>2, <1>3 DEF PacketOK
<1>6. \A q \in net' : PacketOK(q)'
  <2>1. ASSUME NEW q \in net
        PROVE  PacketOK(q)'
    <3>1. PacketOK(q)
      BY DEF RpcOK
    <3> QED BY <1>4, <3>1 DEF PacketOK
  <2> QED BY <1>1, <1>5, <2>1 DEF p
<1>7. \A j \in jobs' : JobOK(j)'
  BY <1>4 DEF RpcOK, JobOK
<1>8. \A d \in Issued : EndedOK(d)'
  <2>1. ASSUME NEW d \in Issued
        PROVE  EndedOK(d)'
    <3>1. ended'[d] = ended[d] /\ EndedOK(d)
      BY DEF RpcOK
    <3>2. CASE ended[d] = <<>>
      BY <3>1, <3>2 DEF EndedOK
    <3>3. CASE ended[d] # <<>>
      <4>1. attempt[d] # 0 /\ \E x : ended[d] = <<x>> /\ (~x.failed => x.result = SumOf(request[d]))
        BY <3>1, <3>3 DEF EndedOK
      <4>2. request'[d] = request[d] /\ attempt'[d] # 0
        BY <1>4, <4>1
      <4> QED BY <3>1, <4>1, <4>2 DEF EndedOK
    <3> QED BY <3>2, <3>3
  <2> QED BY <2>1
<1>9. \A d \in Issued : attempt'[d] \in Nat /\ IsMessage(AddRequest, request'[d])
  BY DEF RpcOK
<1> QED BY <1>6, <1>7, <1>8, <1>9 DEF RpcOK

\* Every step keeps what is known of packets, jobs and answers.
LEMMA RpcStep == RpcOK /\ Rpc!Next => RpcOK'
<1> SUFFICES ASSUME RpcOK, Rpc!Next
             PROVE  RpcOK'
  OBVIOUS
<1>1. \A m : Rpc!SerializeResponse(Rpc!SetResult(Rpc!New(Rpc!AddResponse), Rpc!Sum(m))) = Responses(m)
  BY RpcOperators DEF Rpc!SerializeResponse, Rpc!SetResult, Rpc!Sum, Responses, ResultOf, SumOf
<1>2. ASSUME NEW c \in Issued, attempt[c] # 0, NEW n, NEW kind \in {"response", "error"}, NEW w,
             kind = "response" => w \in Responses(request[c])
      PROVE  PacketOK(Rpc!Packet(kind, c, n, w))
  BY <1>2 DEF PacketOK, Rpc!Packet
<1>3. CASE Rpc!Create
  BY <1>3, PacketsChange DEF Rpc!Create
<1>4. CASE Rpc!CallMethod
  <2> DEFINE m(p) == Rpc!ParseRequest(p.wire)
  <2>1. PICK p \in net :
            /\ p.kind = "request"
            /\ \/ /\ \E w \in Responses(m(p)) :
                         net' = (net \ {p}) \cup {Rpc!Packet("response", p.call, p.attempt, w)}
                  /\ UNCHANGED jobs
               \/ /\ net' = (net \ {p}) \cup {Rpc!Packet("error", p.call, p.attempt, <<>>)}
                  /\ UNCHANGED jobs
               \/ /\ net' = net \ {p}
                  /\ jobs' = jobs \cup {[call |-> p.call, attempt |-> p.attempt, request |-> m(p)]}
            /\ UNCHANGED <<service, request, attempt, ended>>
    BY <1>1, <1>4 DEF Rpc!CallMethod, Rpc!NotImplemented
  <2>2. p.call \in Issued /\ attempt[p.call] # 0 /\ p.wire \in Requests(request[p.call])
    BY <2>1 DEF RpcOK, PacketOK
  <2>3. m(p) = request[p.call]
    BY <2>2, RequestParsed, RpcOperators DEF Rpc!ParseRequest, RpcOK
  <2> HIDE DEF m
  <2>4. CASE /\ \E w \in Responses(m(p)) :
                    net' = (net \ {p}) \cup {Rpc!Packet("response", p.call, p.attempt, w)}
             /\ UNCHANGED jobs
    <3>1. PICK w \in Responses(request[p.call]) :
              net' = (net \ {p}) \cup {Rpc!Packet("response", p.call, p.attempt, w)}
      BY <2>3, <2>4
    <3>2. PacketOK(Rpc!Packet("response", p.call, p.attempt, w))
      BY <1>2, <2>2
    <3> QED BY <2>1, <2>4, <3>1, <3>2, PacketsChange
  <2>5. CASE /\ net' = (net \ {p}) \cup {Rpc!Packet("error", p.call, p.attempt, <<>>)}
             /\ UNCHANGED jobs
    <3>1. PacketOK(Rpc!Packet("error", p.call, p.attempt, <<>>))
      BY <1>2, <2>2
    <3> QED BY <2>1, <2>5, <3>1, PacketsChange
  <2>6. CASE /\ net' = net \ {p}
             /\ jobs' = jobs \cup {[call |-> p.call, attempt |-> p.attempt, request |-> m(p)]}
    <3>1. JobOK([call |-> p.call, attempt |-> p.attempt, request |-> m(p)])
      BY <2>2, <2>3 DEF JobOK
    <3> QED BY <2>1, <2>6, <3>1, PacketsChange
  <2> QED BY <2>1, <2>4, <2>5, <2>6
<1>5. CASE Rpc!WorkThread
  <2>1. PICK j \in jobs :
            /\ \E w \in Responses(j.request) :
                   net' = net \cup {Rpc!Packet("response", j.call, j.attempt, w)}
            /\ jobs' = jobs \ {j}
            /\ UNCHANGED <<service, request, attempt, ended>>
    BY <1>1, <1>5 DEF Rpc!WorkThread
  <2>2. j.call \in Issued /\ attempt[j.call] # 0 /\ j.request = request[j.call]
    BY DEF RpcOK, JobOK
  <2>3. PICK w \in Responses(request[j.call]) :
            net' = net \cup {Rpc!Packet("response", j.call, j.attempt, w)}
    BY <2>1, <2>2
  <2>4. PacketOK(Rpc!Packet("response", j.call, j.attempt, w))
    BY <1>2, <2>2
  <2> QED BY <2>1, <2>3, <2>4, PacketsChange
<1>6. CASE Rpc!Add
  <2>1. PICK c \in Issued, a \in Addends, b \in Addends :
            /\ attempt[c] = 0
            /\ request' = [request EXCEPT ![c] = [New(AddRequest) EXCEPT !.fields = <<a, b>>]]
            /\ attempt' = [attempt EXCEPT ![c] = 1]
            /\ Rpc!Send(c, [New(AddRequest) EXCEPT !.fields = <<a, b>>])
            /\ UNCHANGED <<service, jobs, ended>>
    BY <1>6, RpcOperators DEF Rpc!Add
  <2> DEFINE f == <<a, b>>
             m == [New(AddRequest) EXCEPT !.fields = f]
  <2>2. m = [fields |-> f, unknown |-> <<>>]
    <3> DEFINE new == New(AddRequest)
    <3>1. new = [fields |-> new.fields, unknown |-> <<>>]
      BY DEF New
    <3> HIDE DEF f, new
    <3>2. [new EXCEPT !.fields = f] = [fields |-> f, unknown |-> <<>>]
      BY <3>1
    <3> QED BY <3>2 DEF new
  <2>3. FieldsOf(AddRequest, f)
    <3>1. AddRequest[1] = "int32" /\ AddRequest[2] = "int32" /\ DOMAIN AddRequest = 1..2
      BY DEF AddRequest
    <3>2. Holds("int32", a) /\ Holds("int32", b)
      BY CodecsAssumption DEF Holds, Int32s
    <3>3. f = [n \in 1..2 |-> f[n]] /\ f[1] = a /\ f[2] = b
      OBVIOUS
    <3> HIDE DEF f
    <3> QED BY <3>1, <3>2, <3>3 DEF FieldsOf
  <2>4. IsSeq(<<>>) /\ ToSet(<<>>) = {}
    BY DEF IsSeq, ToSet
  <2>5. IsMessage(AddRequest, m)
    BY <2>2, <2>3, <2>4 DEF IsMessage
  <2>6. /\ request' = [request EXCEPT ![c] = m] /\ Rpc!Send(c, m)
        /\ attempt' = [attempt EXCEPT ![c] = 1] /\ ended' = ended /\ jobs' = jobs
    BY <2>1
  <2> HIDE DEF m
  <2>7. 1 \in Nat \ {0}
    OBVIOUS
  <2> QED BY <2>1, <2>5, <2>6, <2>7, CallSent
<1>7. CASE Rpc!Retry
  <2>1. PICK c \in Issued :
            /\ Rpc!Waiting(c)
            /\ attempt' = [attempt EXCEPT ![c] = @ + 1]
            /\ Rpc!Send(c, request[c])
            /\ UNCHANGED <<service, request, jobs, ended>>
    BY <1>7 DEF Rpc!Retry
  <2>2. attempt[c] + 1 \in Nat \ {0} /\ IsMessage(AddRequest, request[c])
    BY DEF RpcOK
  <2>3. request' = [request EXCEPT ![c] = request[c]]
        /\ attempt' = [attempt EXCEPT ![c] = attempt[c] + 1]
    BY <2>1 DEF RpcOK
  <2> QED BY <2>1, <2>2, <2>3, CallSent
<1>8. CASE Rpc!Lose
  BY <1>8, PacketsChange DEF Rpc!Lose
<1>9. CASE Rpc!Answer
  <2>1. PICK p \in net :
            /\ p.kind # "request"
            /\ IF ~Rpc!Accepted(p) THEN UNCHANGED ended
               ELSE IF p.kind = "error" THEN Rpc!Run(p.call, [failed |-> TRUE, result |-> 0])
               ELSE Rpc!Run(p.call, [failed |-> FALSE,
                                     result |-> Rpc!ParseResponse(p.wire).fields[1]])
            /\ net' = net \ {p}
            /\ UNCHANGED <<service, request, attempt, jobs>>
    BY <1>9 DEF Rpc!Answer
  <2>2. PacketOK(p) /\ p.call \in Issued /\ IsMessage(AddRequest, request[p.call])
    BY DEF RpcOK, PacketOK
  <2>3. CASE ~Rpc!Accepted(p)
    BY <2>1, <2>3, PacketsChange
  <2>4. CASE Rpc!Accepted(p) /\ p.kind = "error"
    <3> DEFINE x == [failed |-> TRUE, result |-> 0]
    <3>1. x.failed /\ Rpc!Waiting(p.call) /\ Rpc!Run(p.call, x)
      BY <2>1, <2>4 DEF Rpc!Accepted
    <3> HIDE DEF x
    <3> QED BY <2>1, <2>2, <3>1, CallEnds
  <2>5. CASE Rpc!Accepted(p) /\ p.kind # "error"
    <3> DEFINE x == [failed |-> FALSE, result |-> Rpc!ParseResponse(p.wire).fields[1]]
    <3>1. Rpc!Waiting(p.call) /\ Rpc!Run(p.call, x)
      BY <2>1, <2>5 DEF Rpc!Accepted
    <3>2. p.wire \in Responses(request[p.call])
      BY <2>1, <2>2, <2>5 DEF PacketOK
    <3>3. x.result = SumOf(request[p.call])
      BY <2>2, <3>2, ResponseParsed, RpcOperators DEF Rpc!ParseResponse
    <3> HIDE DEF x
    <3> QED BY <2>1, <2>2, <3>1, <3>3, CallEnds
  <2> QED BY <2>3, <2>4, <2>5
<1>10. CASE Rpc!Timeout
  <2>1. PICK c \in Issued :
            /\ Rpc!Waiting(c)
            /\ Rpc!Run(c, [failed |-> TRUE, result |-> 0])
            /\ UNCHANGED <<service, request, attempt, net, jobs>>
    BY <1>10 DEF Rpc!Timeout
  <2> DEFINE x == [failed |-> TRUE, result |-> 0]
  <2>2. x.failed /\ Rpc!Run(c, x)
    BY <2>1
  <2> HIDE DEF x
  <2> QED BY <2>1, <2>2, CallEnds
<1> QED BY <1>3, <1>4, <1>5, <1>6, <1>7, <1>8, <1>9, <1>10 DEF Rpc!Next

\* So the answer is the own one.
LEMMA RpcKept == RpcOK => AnswerIsOwn
<1> SUFFICES ASSUME RpcOK, NEW c \in Issued
             PROVE  /\ Len(ended[c]) <= 1
                    /\ \A i \in DOMAIN ended[c] :
                           ~ended[c][i].failed => ended[c][i].result = Rpc!Sum(request[c])
  BY DEF AnswerIsOwn, Rpc!AnswerIsOwn
<1>1. Rpc!Sum(request[c]) = SumOf(request[c])
  BY RpcOperators DEF Rpc!Sum, SumOf
<1>2. CASE ended[c] = <<>>
  BY <1>2
<1>3. CASE ended[c] # <<>>
  <2>1. PICK x : ended[c] = <<x>> /\ (~x.failed => x.result = SumOf(request[c]))
    BY <1>3 DEF RpcOK, EndedOK
  <2>2. Len(<<x>>) = 1 /\ DOMAIN <<x>> = {1} /\ <<x>>[1] = x
    OBVIOUS
  <2> QED BY <1>1, <2>1, <2>2
<1> QED BY <1>2, <1>3

-----------------------------------------------------------------------------
(* M3U8Playlist: CleanAndSplit and Parse.                                  *)

\* The lines of a playlist, those that are not blank, and those that are headers.
LineKinds == {"m3u", "inf", "end", "tag", "uri", "blank"}

LineOK(l) ==
    /\ l = [kind |-> l.kind, dir |-> l.dir, file |-> l.file] /\ l.kind \in LineKinds
    /\ l.kind \in {"inf", "end"} => l.file = ""

FullLine(l) == LineOK(l) /\ l.kind # "blank"

HeaderLine(l) == FullLine(l) /\ l.kind \notin {"inf", "end"}

\* A turn of CleanAndSplit.
LEMMA CleanTurn ==
    ASSUME NEW p, NEW r
    PROVE  Turn(Cleaning, p, r) = IF r.kind = "blank" THEN p ELSE Append(p, r)
BY DEF Turn, Cleaning, Playlist!AddLine

\* Lines of which none is blank stay.
LEMMA CleanKeeps ==
    ASSUME NEW w, IsSeq(w), \A l \in ToSet(w) : l.kind # "blank"
    PROVE  Playlist!CleanAndSplit(w) = w
<1> DEFINE h == [i \in 0..Len(w) |-> SubSeq(w, 1, i)]
<1>1. w \in Seq(ToSet(w)) /\ Len(w) \in Nat /\ DOMAIN w = 1..Len(w)
  BY LenProperties DEF IsSeq
<1>2. h[0] = <<>>
  <2>1. 0 \in 0..Len(w)
    BY <1>1
  <2>2. SubSeq(w, 1, 0) = <<>>
    BY SubSeqEmpty
  <2> QED BY <2>1, <2>2
<1>3. h[Len(w)] = w
  <2>1. Len(w) \in 0..Len(w)
    BY <1>1
  <2>2. SubSeq(w, 1, Len(w)) = w
    BY <1>1, SubSeqFull
  <2> QED BY <2>1, <2>2
<1>4. ASSUME NEW i \in 1..Len(w)
      PROVE  h[i] = Turn(Cleaning, h[i - 1], w[i])
  <2>1. i \in 0..Len(w) /\ i - 1 \in 0..Len(w)
    BY <1>1
  <2>2. SubSeq(w, 1, i) = Append(SubSeq(w, 1, i - 1), w[i]) /\ w[i] \in ToSet(w)
    BY SubSeqGrows
  <2>3. h[i] = SubSeq(w, 1, i) /\ h[i - 1] = SubSeq(w, 1, i - 1)
    BY <2>1
  <2> HIDE DEF h
  <2> QED BY <2>2, <2>3, CleanTurn
<1> HIDE DEF h
<1>5. States(Cleaning, <<>>, w, h)
  BY <1>2, <1>4 DEF States
<1> QED BY <1>3, <1>5, LoopIs, CleanIsLoop

\* What is left of any lines.
LEMMA CleanIs ==
    ASSUME NEW w, IsSeq(w), \A l \in ToSet(w) : LineOK(l)
    PROVE  IsSeq(Playlist!CleanAndSplit(w)) /\ \A l \in ToSet(Playlist!CleanAndSplit(w)) : FullLine(l)
<1>1. PICK h : States(Cleaning, <<>>, w, h) /\ Loop(Cleaning, <<>>, w) = h[Len(w)]
  BY LoopStates
<1>2. Len(w) \in Nat /\ DOMAIN w = 1..Len(w)
  BY LenProperties DEF IsSeq
<1> DEFINE N == Len(w)
           P == {i \in 0..N : IsSeq(h[i]) /\ \A l \in ToSet(h[i]) : FullLine(l)}
<1>3. 0 \in P
  BY <1>1, <1>2, NewIsSeq DEF States, ToSet
<1>4. ASSUME NEW i \in Nat, i < N, i \in P
      PROVE  i + 1 \in P
  <2>1. i + 1 \in 1..N /\ (i + 1) - 1 = i /\ i + 1 \in 0..N
    BY <1>2, <1>4
  <2>2. h[i + 1] = IF w[i + 1].kind = "blank" THEN h[i] ELSE Append(h[i], w[i + 1])
    BY <1>1, <2>1, CleanTurn DEF States
  <2>3. LineOK(w[i + 1])
    BY <1>2, <2>1 DEF ToSet
  <2>4. CASE w[i + 1].kind = "blank"
    BY <1>4, <2>1, <2>2, <2>4
  <2>5. CASE w[i + 1].kind # "blank"
    <3>1. IsSeq(h[i]) /\ \A l \in ToSet(h[i]) : FullLine(l)
      BY <1>4
    <3> DEFINE v == h[i]
               e == w[i + 1]
    <3> HIDE DEF v, e
    <3>3. IsSeq(v)
      BY <3>1 DEF v
    <3>4. IsSeq(Append(v, e)) /\ ToSet(Append(v, e)) = ToSet(v) \cup {e}
      BY <3>3, AppendIsSeq
    <3>2. IsSeq(h[i + 1]) /\ ToSet(h[i + 1]) = ToSet(h[i]) \cup {w[i + 1]}
      BY <2>2, <2>5, <3>4 DEF v, e
    <3> QED BY <2>1, <2>3, <2>5, <3>1, <3>2 DEF FullLine
  <2> QED BY <2>4, <2>5
<1> HIDE DEF P, N
<1>5. N \in P
  <2>1. N \in Nat
    BY <1>2 DEF N
  <2>2. \A i \in 0..N : i \in P
    BY <1>3, <1>4, <2>1, UpTo
  <2> QED BY <2>1, <2>2
<1>6. Playlist!CleanAndSplit(w) = h[N]
  BY <1>1, CleanIsLoop DEF N
<1> QED BY <1>5, <1>6 DEF P

Reader(inf, headers, segments, endlist) ==
    [inf |-> inf, headers |-> headers, segments |-> segments, endlist |-> endlist]

Between(headers, segments, endlist) == Reader(FALSE, headers, segments, endlist)

AfterInf(headers, segments, endlist) == Reader(TRUE, headers, segments, endlist)

Off == FALSE

On  == TRUE

Start == Between(<<>>, <<>>, Off)

\* A turn, between #EXTINF and its segment and elsewhere.
LEMMA ReadSegment ==
    ASSUME NEW hd, NEW sg, NEW e, NEW l
    PROVE  Turn(Reading, AfterInf(hd, sg, e), l) = Between(hd, Append(sg, l), e)
<1>1. Turn(Reading, AfterInf(hd, sg, e), l) = Playlist!ParseLine(AfterInf(hd, sg, e), l)
  BY DEF Turn, Reading
<1> QED BY <1>1 DEF Playlist!ParseLine, Reader, Between, AfterInf

\* #EXT-X-ENDLIST elsewhere than after #EXTINF.
LEMMA ReadEnd ==
    ASSUME NEW hd, NEW sg, NEW e, NEW l, l.kind = "end"
    PROVE  Turn(Reading, Between(hd, sg, e), l) = Between(hd, sg, On)
<1>1. Turn(Reading, Between(hd, sg, e), l) = Playlist!ParseLine(Between(hd, sg, e), l)
  BY DEF Turn, Reading
<1> QED BY <1>1 DEF Playlist!ParseLine, Reader, Between, AfterInf, On

\* #EXTINF.
LEMMA ReadInf ==
    ASSUME NEW hd, NEW sg, NEW e, NEW l, l.kind = "inf"
    PROVE  Turn(Reading, Between(hd, sg, e), l) = AfterInf(hd, sg, e)
<1>1. Turn(Reading, Between(hd, sg, e), l) = Playlist!ParseLine(Between(hd, sg, e), l)
  BY DEF Turn, Reading
<1> QED BY <1>1 DEF Playlist!ParseLine, Reader, Between, AfterInf

\* Any other line.
LEMMA ReadHeader ==
    ASSUME NEW hd, NEW sg, NEW e, NEW l, l.kind \notin {"inf", "end"}
    PROVE  Turn(Reading, Between(hd, sg, e), l) = Between(Append(hd, l), sg, e)
<1>1. Turn(Reading, Between(hd, sg, e), l) = Playlist!ParseLine(Between(hd, sg, e), l)
  BY DEF Turn, Reading
<1> QED BY <1>1 DEF Playlist!ParseLine, Reader, Between, AfterInf

\* What a fresh parser makes of lines.
IsPlaylist(clean) == clean # <<>> /\ Head(clean).kind = "m3u"

\* From a text that begins with #EXTM3U.
LEMMA ParsedIs ==
    ASSUME NEW all, NEW clean, clean = Playlist!CleanAndSplit(all), IsSeq(clean), IsPlaylist(clean),
           NEW end, end = Loop(Reading, Start, clean)
    PROVE  Playlist!Parsed(Playlist!Empty, all) =
             [headers |-> end.headers, segments |-> end.segments, endlist |-> end.endlist, ok |-> TRUE]
<1>1. end = Playlist!FoldLeft(Playlist!ParseLine, Start, clean)
  BY LinesAreLoop
<1>2. Start = [inf |-> FALSE, headers |-> Playlist!Empty.headers, segments |-> Playlist!Empty.segments,
               endlist |-> Playlist!Empty.endlist]
  BY DEF Start, Off, Between, Reader, Playlist!Empty
<1> QED BY <1>1, <1>2 DEF Playlist!Parsed, IsPlaylist

\* From any other.
LEMMA NotParsed ==
    ASSUME NEW all, ~IsPlaylist(Playlist!CleanAndSplit(all))
    PROVE  LET p == Playlist!Parsed(Playlist!Empty, all)
           IN /\ p.headers = <<>> /\ p.segments = <<>> /\ p.endlist = FALSE /\ p.ok = FALSE
              /\ p = [headers |-> p.headers, segments |-> p.segments,
                 endlist |-> p.endlist, ok |-> p.ok]
<1>1. Playlist!Parsed(Playlist!Empty, all) = [Playlist!Empty EXCEPT !.ok = FALSE]
  BY DEF Playlist!Parsed, IsPlaylist
<1> QED BY <1>1 DEF Playlist!Empty

\* Headers are kept in their order, and so are segments.
LEMMA HeadersRead ==
    ASSUME NEW w, IsSeq(w), \A l \in ToSet(w) : HeaderLine(l), NEW hd, IsSeq(hd), NEW sg, NEW e
    PROVE  Loop(Reading, Between(hd, sg, e), w) = Between(hd \o w, sg, e)
<1> DEFINE h == [i \in 0..Len(w) |-> Between(hd \o SubSeq(w, 1, i), sg, e)]
<1>1. w \in Seq(ToSet(w)) /\ Len(w) \in Nat /\ DOMAIN w = 1..Len(w)
  BY LenProperties DEF IsSeq
<1>2. h[0] = Between(hd, sg, e)
  <2>1. 0 \in 0..Len(w)
    BY <1>1
  <2>2. SubSeq(w, 1, 0) = <<>>
    BY SubSeqEmpty
  <2>3. hd \o <<>> = hd
    BY ConcatEmptySeq DEF IsSeq
  <2>4. h[0] = Between(hd \o SubSeq(w, 1, 0), sg, e)
    BY <2>1
  <2> QED BY <2>2, <2>3, <2>4
<1>3. h[Len(w)] = Between(hd \o w, sg, e)
  <2>1. Len(w) \in 0..Len(w)
    BY <1>1
  <2>2. SubSeq(w, 1, Len(w)) = w
    BY <1>1, SubSeqFull
  <2>3. h[Len(w)] = Between(hd \o SubSeq(w, 1, Len(w)), sg, e)
    BY <2>1
  <2> QED BY <2>2, <2>3
<1>4. ASSUME NEW i \in 1..Len(w)
      PROVE  h[i] = Turn(Reading, h[i - 1], w[i])
  <2> DEFINE s == SubSeq(w, 1, i - 1)
  <2>1. i \in 0..Len(w) /\ i - 1 \in 0..Len(w)
    BY <1>1
  <2>2. SubSeq(w, 1, i) = Append(s, w[i]) /\ w[i] \in ToSet(w) /\ s \in Seq(ToSet(w))
    BY SubSeqGrows
  <2>3. h[i] = Between(hd \o SubSeq(w, 1, i), sg, e) /\ h[i - 1] = Between(hd \o s, sg, e)
    BY <2>1
  <2> HIDE DEF h, s
  <2>4. hd \o Append(s, w[i]) = Append(hd \o s, w[i])
    <3> DEFINE S == ToSet(hd) \cup ToSet(w)
    <3>1. hd \in Seq(S) /\ s \in Seq(S) /\ w[i] \in S
      BY <2>2, SeqMonotonic DEF IsSeq
    <3> QED BY <3>1, ConcatAppend
  <2>5. w[i].kind \notin {"inf", "end"}
    BY <2>2 DEF HeaderLine
  <2>6. Turn(Reading, h[i - 1], w[i]) = Between(Append(hd \o s, w[i]), sg, e)
    <3> DEFINE v == hd \o s
               l == w[i]
    <3>1. h[i - 1] = Between(v, sg, e) /\ l.kind \notin {"inf", "end"}
      BY <2>3, <2>5
    <3> HIDE DEF v, l
    <3>2. Turn(Reading, Between(v, sg, e), l) = Between(Append(v, l), sg, e)
      BY <3>1, ReadHeader
    <3>3. Turn(Reading, h[i - 1], l) = Between(Append(v, l), sg, e)
      BY <3>1, <3>2
    <3> QED BY <3>3 DEF v, l
  <2> QED BY <2>2, <2>3, <2>4, <2>6
<1> HIDE DEF h
<1>5. States(Reading, Between(hd, sg, e), w, h)
  BY <1>2, <1>4 DEF States
<1> QED BY <1>3, <1>5, LoopIs

-----------------------------------------------------------------------------
(* Serialize.                                                              *)

\* The lines of segments, and of the end.
Segs(sg) == Loop(Writing, <<>>, sg)

Ending(e) == IF e THEN <<Playlist!Line("end", "", "")>> ELSE <<>>

\* A turn of Serialize over the segments.
LEMMA WriteTurn ==
    ASSUME NEW p, NEW r
    PROVE  Turn(Writing, p, r) = p \o <<Playlist!Inf, r>>
BY DEF Turn, Writing

\* The lines of the segments are written by that loop.
LEMMA SegsAreLoop ==
    ASSUME NEW sg, IsSeq(sg)
    PROVE  Playlist!FlattenSeq([i \in DOMAIN sg |-> <<Playlist!Inf, sg[i]>>]) = Segs(sg)
<1> DEFINE F == [i \in DOMAIN sg |-> <<Playlist!Inf, sg[i]>>]
<1>1. DOMAIN sg = 1..Len(sg) /\ Len(sg) \in Nat
  BY LenProperties DEF IsSeq
<1>2. Playlist!FlattenSeq(F) = FlattenSeq(F)
  BY Zenon DEF Playlist!FlattenSeq, FlattenSeq
<1>3. F \in Seq({<<Playlist!Inf, sg[i]>> : i \in DOMAIN sg}) /\ Len(F) = Len(sg)
  BY <1>1
<1>4. IsSeq(F)
  BY <1>3, SeqIsSeq
<1>5. \A i \in 1..Len(F) : F[i] = <<Playlist!Inf, sg[i]>>
  BY <1>1, <1>3
<1> HIDE DEF F
<1>6. ASSUME NEW i \in 1..Len(F)
      PROVE  IsSeq(F[i])
  <2>1. IsSeq(<<Playlist!Inf, sg[i]>>)
    BY PairIsSeq
  <2> QED BY <1>5, <2>1
<1>7. PICK g : Flat(F, g) /\ FlattenSeq(F) = g[Len(F)]
  BY <1>4, <1>6, FlattenIs
<1>8. ASSUME NEW i \in 1..Len(sg)
      PROVE  g[i] = Turn(Writing, g[i - 1], sg[i])
  <2>1. g[i] = g[i - 1] \o F[i] /\ F[i] = <<Playlist!Inf, sg[i]>>
    BY <1>3, <1>5, <1>7 DEF Flat
  <2>2. Turn(Writing, g[i - 1], sg[i]) = g[i - 1] \o <<Playlist!Inf, sg[i]>>
    BY WriteTurn
  <2> QED BY <2>1, <2>2
<1>10. States(Writing, <<>>, sg, g)
  BY <1>7, <1>8 DEF States, Flat
<1>9. Segs(sg) = g[Len(sg)]
  BY <1>10, LoopIs DEF Segs
<1> QED BY <1>2, <1>3, <1>7, <1>9 DEF F

\* One segment more is two lines more.
LEMMA SegsAppend ==
    ASSUME NEW sg, IsSeq(sg), NEW l
    PROVE  Segs(Append(sg, l)) = Segs(sg) \o <<Playlist!Inf, l>>
<1>1. Append(sg, l) = sg \o <<l>> /\ IsSeq(<<l>>)
  BY AppendIsSeq
<1>2. Loop(Writing, <<>>, sg \o <<l>>) = Loop(Writing, Loop(Writing, <<>>, sg), <<l>>)
  BY <1>1, LoopConcat
<1> QED BY <1>1, <1>2, LoopOne, WriteTurn DEF Segs

\* They are #EXTINF and segments.
LEMMA SegsAre ==
    ASSUME NEW sg, IsSeq(sg)
    PROVE  IsSeq(Segs(sg)) /\ \A l \in ToSet(Segs(sg)) : l = Playlist!Inf \/ l \in ToSet(sg)
<1>1. PICK h : States(Writing, <<>>, sg, h) /\ Loop(Writing, <<>>, sg) = h[Len(sg)]
  BY LoopStates
<1>2. Len(sg) \in Nat /\ DOMAIN sg = 1..Len(sg)
  BY LenProperties DEF IsSeq
<1> DEFINE N == Len(sg)
           P == {i \in 0..N : IsSeq(h[i]) /\ \A l \in ToSet(h[i]) : l = Playlist!Inf \/ l \in ToSet(sg)}
<1>3. 0 \in P
  BY <1>1, <1>2, NewIsSeq DEF States, ToSet
<1>4. ASSUME NEW i \in Nat, i < N, i \in P
      PROVE  i + 1 \in P
  <2>1. i + 1 \in 1..N /\ (i + 1) - 1 = i /\ i + 1 \in 0..N
    BY <1>2, <1>4
  <2> DEFINE v == h[i]
             l == sg[i + 1]
             w == <<Playlist!Inf, l>>
  <2>2. h[i + 1] = v \o w
    BY <1>1, <2>1, WriteTurn DEF States
  <2>3. IsSeq(v) /\ \A x \in ToSet(v) : x = Playlist!Inf \/ x \in ToSet(sg)
    BY <1>4
  <2>4. IsSeq(w) /\ ToSet(w) = {Playlist!Inf, l}
    BY PairIsSeq
  <2>5. l \in ToSet(sg)
    BY <1>2, <2>1 DEF ToSet
  <2> HIDE DEF v, w, l
  <2>6. IsSeq(v \o w) /\ ToSet(v \o w) = ToSet(v) \cup ToSet(w)
    BY <2>3, <2>4, ConcatIsSeq
  <2> QED BY <2>1, <2>2, <2>3, <2>4, <2>5, <2>6
<1> HIDE DEF P, N
<1>5. N \in P
  <2>1. N \in Nat
    BY <1>2 DEF N
  <2>2. \A i \in 0..N : i \in P
    BY <1>3, <1>4, <2>1, UpTo
  <2> QED BY <2>1, <2>2
<1> QED BY <1>1, <1>5 DEF P, N, Segs

\* They are read as the same segments.
LEMMA SegsRead ==
    ASSUME NEW sg, IsSeq(sg), NEW hd, NEW e
    PROVE  Loop(Reading, Between(hd, <<>>, e), Segs(sg)) = Between(hd, sg, e)
<1> DEFINE p == Between(hd, <<>>, e)
           N == Len(sg)
           P == {i \in 0..N : Loop(Reading, p, Segs(SubSeq(sg, 1, i)))
                                = Between(hd, SubSeq(sg, 1, i), e)}
<1>1. sg \in Seq(ToSet(sg)) /\ Len(sg) \in Nat /\ DOMAIN sg = 1..Len(sg)
  BY LenProperties DEF IsSeq
<1>2. 0 \in P
  <2>1. SubSeq(sg, 1, 0) = <<>>
    BY SubSeqEmpty
  <2>2. Segs(<<>>) = <<>> /\ Loop(Reading, p, <<>>) = p
    BY LoopEmpty DEF Segs
  <2>3. 0 \in 0..N
    BY <1>1
  <2> QED BY <2>1, <2>2, <2>3
<1>3. ASSUME NEW i \in Nat, i < N, i \in P
      PROVE  i + 1 \in P
  <2>1. i + 1 \in 1..N /\ (i + 1) - 1 = i /\ i + 1 \in 0..N
    BY <1>1, <1>3
  <2> DEFINE s == SubSeq(sg, 1, i)
             l == sg[i + 1]
             v == Segs(s)
             inf == Playlist!Inf
  <2>2. SubSeq(sg, 1, i + 1) = Append(s, l) /\ s \in Seq(ToSet(sg))
    BY <2>1, SubSeqGrows
  <2>3. Loop(Reading, p, v) = Between(hd, s, e)
    BY <1>3
  <2> HIDE DEF s, l, v, inf, p
  <2>4. IsSeq(s)
    BY <2>2, SeqIsSeq
  <2>5. IsSeq(v)
    BY <2>4, SegsAre DEF v
  <2>6. Segs(Append(s, l)) = v \o <<inf, l>>
    BY <2>4, SegsAppend DEF v, inf
  <2>7. IsSeq(<<inf, l>>) /\ IsSeq(<<inf>>) /\ IsSeq(<<l>>) /\ <<inf, l>> = <<inf>> \o <<l>>
    BY PairIsSeq
  <2>8. Loop(Reading, p, v \o <<inf, l>>) = Loop(Reading, Between(hd, s, e), <<inf, l>>)
    <3> DEFINE w == <<inf, l>>
    <3>1. IsSeq(w)
      BY <2>7
    <3> HIDE DEF w
    <3>2. Loop(Reading, p, v \o w) = Loop(Reading, Loop(Reading, p, v), w)
      BY <2>5, <3>1, LoopConcat
    <3> QED BY <2>3, <3>2 DEF w
  <2> DEFINE q == Between(hd, s, e)
             r == AfterInf(hd, s, e)
  <2>9. Turn(Reading, q, inf) = r
    BY Zenon, ReadInf DEF inf, Playlist!Inf, Playlist!Line
  <2>10. Turn(Reading, r, l) = Between(hd, Append(s, l), e)
    BY ReadSegment
  <2> HIDE DEF q, r
  <2>11. Loop(Reading, q, <<inf>> \o <<l>>) = Loop(Reading, r, <<l>>)
    <3>1. Loop(Reading, q, <<inf>> \o <<l>>) = Loop(Reading, Loop(Reading, q, <<inf>>), <<l>>)
      BY <2>7, LoopConcat
    <3> QED BY <3>1, <2>9, LoopOne
  <2>12. Loop(Reading, r, <<l>>) = Between(hd, Append(s, l), e)
    BY <2>10, LoopOne
  <2>13. Loop(Reading, p, Segs(Append(s, l))) = Between(hd, Append(s, l), e)
    BY <2>6, <2>7, <2>8, <2>11, <2>12 DEF q
  <2> QED BY <2>1, <2>2, <2>13
<1> HIDE DEF P, N, p
<1>4. N \in P
  <2>1. N \in Nat
    BY <1>1 DEF N
  <2>2. \A i \in 0..N : i \in P
    BY <1>2, <1>3, <2>1, UpTo
  <2> QED BY <2>1, <2>2
<1>5. SubSeq(sg, 1, N) = sg
  BY <1>1, SubSeqFull DEF N
<1> QED BY <1>4, <1>5 DEF P, p

-----------------------------------------------------------------------------
(* What Parse leaves.                                                      *)

\* What Parse leaves, after any lines.
ReaderState(w, i, st) ==
    \E hd, sg, e :
        /\ IsSeq(hd) /\ \A l \in ToSet(hd) : HeaderLine(l)
        /\ IsSeq(sg) /\ \A l \in ToSet(sg) : FullLine(l)
        /\ e \in {On, Off}
        /\ st = Between(hd, sg, e) \/ st = AfterInf(hd, sg, e)
        /\ i = 0 => hd = <<>> /\ st = Between(hd, sg, e)
        /\ i > 0 => hd # <<>> /\ hd[1] = w[1]

\* Lines with one more.
LEMMA AppendLine ==
    ASSUME NEW v, IsSeq(v), NEW l
    PROVE  /\ (\A x \in ToSet(v) : FullLine(x)) /\ FullLine(l)
               => \A x \in ToSet(Append(v, l)) : FullLine(x)
           /\ (\A x \in ToSet(v) : HeaderLine(x)) /\ HeaderLine(l)
               => \A x \in ToSet(Append(v, l)) : HeaderLine(x)
<1>1. ToSet(Append(v, l)) = ToSet(v) \cup {l}
  BY AppendIsSeq
<1> QED BY <1>1

\* One line more, of whatever kind.
LEMMA ReadStep ==
    ASSUME NEW w, IsSeq(w), \A l \in ToSet(w) : FullLine(l), w # <<>> => w[1].kind = "m3u",
           NEW i \in Nat, i < Len(w), NEW st, ReaderState(w, i, st)
    PROVE  ReaderState(w, i + 1, Turn(Reading, st, w[i + 1]))
<1> DEFINE l == w[i + 1]
           next == Turn(Reading, st, l)
<1>1. /\ Len(w) \in Nat /\ DOMAIN w = 1..Len(w) /\ i + 1 \in 1..Len(w)
      /\ i + 1 > 0 /\ i + 1 # 0 /\ (i = 0 \/ i > 0)
  BY LenProperties DEF IsSeq
<1>2. FullLine(l) /\ w # <<>> /\ w[1].kind = "m3u"
  <2>1. l \in ToSet(w)
    BY <1>1 DEF ToSet
  <2>2. w # <<>>
    BY <1>1
  <2> QED BY <2>1, <2>2
<1>3. PICK hd, sg, e :
        /\ IsSeq(hd) /\ \A x \in ToSet(hd) : HeaderLine(x)
        /\ IsSeq(sg) /\ \A x \in ToSet(sg) : FullLine(x)
        /\ e \in {On, Off}
        /\ st = Between(hd, sg, e) \/ st = AfterInf(hd, sg, e)
        /\ i = 0 => hd = <<>> /\ st = Between(hd, sg, e)
        /\ i > 0 => hd # <<>> /\ hd[1] = w[1]
  BY DEF ReaderState
<1>4. i = 0 => l.kind = "m3u"
  BY <1>2
<1> HIDE DEF l
<1>5. CASE i > 0 /\ st = AfterInf(hd, sg, e)
  <2>1. next = Between(hd, Append(sg, l), e)
    BY <1>5, ReadSegment
  <2>2. IsSeq(Append(sg, l))
    BY <1>3, AppendIsSeq
  <2>3. \A x \in ToSet(Append(sg, l)) : FullLine(x)
    BY <1>2, <1>3, AppendLine
  <2> DEFINE more == Append(sg, l)
  <2> HIDE DEF next, more
  <2>4. ReaderState(w, i + 1, next)
    BY <1>1, <1>3, <1>5, <2>1, <2>2, <2>3 DEF ReaderState, more
  <2> QED BY <2>4 DEF next, l
<1>6. CASE st = Between(hd, sg, e) /\ l.kind = "end"
  <2>1. next = Between(hd, sg, On)
    BY <1>6, ReadEnd
  <2>2. i > 0
    BY <1>1, <1>4, <1>6
  <2> HIDE DEF next
  <2>3. ReaderState(w, i + 1, next)
    BY <1>1, <1>3, <2>1, <2>2 DEF ReaderState
  <2> QED BY <2>3 DEF next, l
<1>7. CASE st = Between(hd, sg, e) /\ l.kind = "inf"
  <2>1. next = AfterInf(hd, sg, e)
    BY <1>7, ReadInf
  <2>2. i > 0
    BY <1>1, <1>4, <1>7
  <2> HIDE DEF next
  <2>3. ReaderState(w, i + 1, next)
    BY <1>1, <1>3, <2>1, <2>2 DEF ReaderState
  <2> QED BY <2>3 DEF next, l
<1>8. CASE st = Between(hd, sg, e) /\ l.kind \notin {"end", "inf"}
  <2>1. next = Between(Append(hd, l), sg, e)
    BY <1>8, ReadHeader
  <2>2. HeaderLine(l)
    BY <1>2, <1>8 DEF HeaderLine
  <2>3. IsSeq(Append(hd, l))
    BY <1>3, AppendIsSeq
  <2>4. \A x \in ToSet(Append(hd, l)) : HeaderLine(x)
    BY <1>3, <2>2, AppendLine
  <2>5. Append(hd, l) # <<>> /\ Append(hd, l)[1] = w[1]
    <3>1. CASE i = 0
      <4>1. l = w[1] /\ hd = <<>>
        BY <1>3, <3>1 DEF l
      <4> QED BY <1>3, <4>1, FirstStays
    <3>2. CASE i > 0
      BY <1>3, <3>2, FirstStays
    <3> QED BY <1>1, <3>1, <3>2
  <2> DEFINE more == Append(hd, l)
  <2>6. IsSeq(more) /\ (\A x \in ToSet(more) : HeaderLine(x)) /\ more # <<>> /\ more[1] = w[1]
        /\ next = Between(more, sg, e)
    BY <2>1, <2>3, <2>4, <2>5
  <2> HIDE DEF next, more
  <2>7. ReaderState(w, i + 1, next)
    BY <1>1, <1>3, <2>6 DEF ReaderState
  <2> QED BY <2>7 DEF next, l
<1> QED BY <1>1, <1>3, <1>5, <1>6, <1>7, <1>8

\* So after all of them.
LEMMA ReadTyped ==
    ASSUME NEW w, IsSeq(w), \A l \in ToSet(w) : FullLine(l), w # <<>>, w[1].kind = "m3u"
    PROVE  ReaderState(w, Len(w), Loop(Reading, Start, w))
<1>1. PICK h : States(Reading, Start, w, h) /\ Loop(Reading, Start, w) = h[Len(w)]
  BY LoopStates
<1>2. Len(w) \in Nat
  BY LenProperties DEF IsSeq
<1> DEFINE N == Len(w)
           P == {i \in 0..N : ReaderState(w, i, h[i])}
<1>3. 0 \in P
  <2>1. h[0] = Between(<<>>, <<>>, Off)
    BY <1>1 DEF States, Start
  <2>2. IsSeq(<<>>) /\ ToSet(<<>>) = {}
    BY DEF IsSeq, ToSet
  <2>3. ReaderState(w, 0, h[0])
    BY <2>1, <2>2 DEF ReaderState
  <2> QED BY <1>2, <2>3
<1>4. ASSUME NEW i \in Nat, i < N, i \in P
      PROVE  i + 1 \in P
  <2>1. i + 1 \in 1..N /\ (i + 1) - 1 = i /\ i + 1 \in 0..N
    BY <1>2, <1>4
  <2>2. h[i + 1] = Turn(Reading, h[i], w[i + 1])
    BY <1>1, <2>1 DEF States
  <2>3. ReaderState(w, i, h[i])
    BY <1>4
  <2>4. ReaderState(w, i + 1, Turn(Reading, h[i], w[i + 1]))
    BY <1>4, <2>3, ReadStep
  <2> QED BY <2>1, <2>2, <2>4
<1> HIDE DEF P, N
<1>5. N \in P
  <2>1. N \in Nat
    BY <1>2 DEF N
  <2>2. \A i \in 0..N : i \in P
    BY <1>3, <1>4, <2>1, UpTo
  <2> QED BY <2>1, <2>2
<1> QED BY <1>1, <1>5 DEF P, N

-----------------------------------------------------------------------------
(* Lines that differ in their directories only.                            *)

\* Lines that differ in their directories only.
Near(k, l) == [k EXCEPT !.dir = ""] = [l EXCEPT !.dir = ""]

Sim(a, b) ==
    /\ IsSeq(a) /\ IsSeq(b) /\ Len(a) = Len(b)
    /\ \A i \in 1..Len(a) : Near(a[i], b[i])

\* Such lines are the same in Plain.
LEMMA SimPlain ==
    ASSUME NEW a, NEW b, Sim(a, b)
    PROVE  Playlist!Plain(a) = Playlist!Plain(b)
<1>1. DOMAIN a = 1..Len(a) /\ DOMAIN b = 1..Len(a)
  BY LenProperties DEF IsSeq, Sim
<1> QED BY Zenon, <1>1 DEF Playlist!Plain, Sim, Near

\* Lines differ in nothing from themselves.
LEMMA SimSelf ==
    ASSUME NEW a, IsSeq(a)
    PROVE  Sim(a, a)
BY DEF Sim, Near

\* Two such differences are one.
LEMMA SimTrans ==
    ASSUME NEW a, NEW b, NEW c, Sim(a, b), Sim(b, c)
    PROVE  Sim(a, c)
BY Zenon DEF Sim, Near

\* Two sequences of such lines in a row.
LEMMA SimConcat ==
    ASSUME NEW a, NEW b, NEW c, NEW d, Sim(a, b), Sim(c, d)
    PROVE  Sim(a \o c, b \o d)
<1>1. IsSeq(a) /\ IsSeq(b) /\ IsSeq(c) /\ IsSeq(d) /\ Len(a) = Len(b) /\ Len(c) = Len(d)
  BY DEF Sim
<1>2. IsSeq(a \o c) /\ IsSeq(b \o d)
  BY <1>1, ConcatIsSeq
<1>3. Len(a) \in Nat /\ Len(c) \in Nat
  BY <1>1, LenProperties DEF IsSeq
<1>4. /\ Len(a \o c) = Len(a) + Len(c)
      /\ \A i \in 1..Len(a) : (a \o c)[i] = a[i]
      /\ \A i \in 1..Len(c) : (a \o c)[Len(a) + i] = c[i]
  <2> DEFINE S == ToSet(a) \cup ToSet(c)
  <2>1. a \in Seq(S) /\ c \in Seq(S)
    BY <1>1, SeqMonotonic DEF IsSeq
  <2> QED BY <2>1, ConcatProperties
<1>5. /\ Len(b \o d) = Len(b) + Len(d)
      /\ \A i \in 1..Len(b) : (b \o d)[i] = b[i]
      /\ \A i \in 1..Len(d) : (b \o d)[Len(b) + i] = d[i]
  <2> DEFINE S == ToSet(b) \cup ToSet(d)
  <2>1. b \in Seq(S) /\ d \in Seq(S)
    BY <1>1, SeqMonotonic DEF IsSeq
  <2> QED BY <2>1, ConcatProperties
<1> DEFINE v == a \o c
           w == b \o d
<1>6. ASSUME NEW i \in 1..Len(v)
      PROVE  Near(v[i], w[i])
  <2>1. CASE i <= Len(a)
    <3>1. i \in 1..Len(a)
      BY <1>3, <1>4, <2>1
    <3>2. v[i] = a[i] /\ w[i] = b[i]
      BY <1>1, <1>4, <1>5, <3>1
    <3> QED BY <3>1, <3>2 DEF Sim
  <2>2. CASE ~(i <= Len(a))
    <3>1. PICK j \in 1..Len(c) : i = Len(a) + j
      <4>1. i - Len(a) \in 1..Len(c) /\ i = Len(a) + (i - Len(a))
        BY <1>3, <1>4, <2>2
      <4> QED BY <4>1
    <3>2. v[i] = c[j] /\ w[i] = d[j]
      BY <1>1, <1>4, <1>5, <3>1
    <3> QED BY <3>2 DEF Sim
  <2> QED BY <2>1, <2>2
<1> HIDE DEF v, w
<1>7. Len(v) = Len(w)
  BY <1>1, <1>4, <1>5 DEF v, w
<1>8. Sim(v, w)
  BY <1>2, <1>6, <1>7 DEF Sim, v, w
<1> QED BY <1>8 DEF v, w

\* One such line.
LEMMA SimOne ==
    ASSUME NEW k, NEW l, Near(k, l)
    PROVE  Sim(<<k>>, <<l>>)
<1>1. IsSeq(<<k>>) /\ IsSeq(<<l>>) /\ Len(<<k>>) = 1 /\ Len(<<l>>) = 1
  BY PairIsSeq
<1>2. <<k>>[1] = k /\ <<l>>[1] = l
  OBVIOUS
<1> DEFINE a == <<k>>
           b == <<l>>
<1>3. Len(a) = 1 /\ a[1] = k /\ b[1] = l /\ Len(b) = 1 /\ IsSeq(a) /\ IsSeq(b)
  BY <1>1, <1>2
<1> HIDE DEF a, b
<1>4. Sim(a, b)
  BY <1>3 DEF Sim
<1> QED BY <1>4 DEF a, b

\* One such line more.
LEMMA SimAppend ==
    ASSUME NEW a, NEW b, Sim(a, b), NEW k, NEW l, Near(k, l)
    PROVE  Sim(Append(a, k), Append(b, l))
<1>1. Append(a, k) = a \o <<k>> /\ Append(b, l) = b \o <<l>>
  <2>1. IsSeq(a) /\ IsSeq(b)
    BY DEF Sim
  <2> QED BY <2>1, AppendIsSeq
<1>2. Sim(<<k>>, <<l>>)
  BY SimOne
<1>3. Sim(a \o <<k>>, b \o <<l>>)
  BY <1>2, SimConcat
<1> QED BY <1>1, <1>3

\* Segments that differ in their directories are written so.
LEMMA SimSegs ==
    ASSUME NEW a, NEW b, Sim(a, b)
    PROVE  Sim(Segs(a), Segs(b))
<1>1. IsSeq(a) /\ IsSeq(b) /\ Len(a) = Len(b) /\ Len(a) \in Nat
  BY LenProperties DEF Sim, IsSeq
<1>2. PICK g : States(Writing, <<>>, a, g) /\ Loop(Writing, <<>>, a) = g[Len(a)]
  BY <1>1, LoopStates
<1>3. PICK h : States(Writing, <<>>, b, h) /\ Loop(Writing, <<>>, b) = h[Len(b)]
  BY <1>1, LoopStates
<1> DEFINE N == Len(a)
           P == {i \in 0..N : Sim(g[i], h[i])}
<1>4. 0 \in P
  <2>1. g[0] = <<>> /\ h[0] = <<>> /\ IsSeq(<<>>)
    BY <1>2, <1>3, NewIsSeq DEF States
  <2> QED BY <1>1, <2>1, SimSelf
<1>5. ASSUME NEW i \in Nat, i < N, i \in P
      PROVE  i + 1 \in P
  <2>1. i + 1 \in 1..N /\ (i + 1) - 1 = i /\ i + 1 \in 0..N
    BY <1>1, <1>5
  <2> DEFINE k == a[i + 1]
             l == b[i + 1]
             inf == Playlist!Inf
             u == g[i]
             v == h[i]
  <2>2. g[i + 1] = u \o <<inf, k>> /\ h[i + 1] = v \o <<inf, l>>
    BY <1>1, <1>2, <1>3, <2>1, WriteTurn DEF States
  <2>3. Near(k, l)
    BY <2>1 DEF Sim
  <2>4. Sim(u, v)
    BY <1>5
  <2> HIDE DEF k, l, inf, u, v
  <2>5. Sim(<<inf>>, <<inf>>)
    <3>1. Near(inf, inf)
      BY DEF Near
    <3> QED BY <3>1, SimOne
  <2>6. Sim(<<k>>, <<l>>)
    BY <2>3, SimOne
  <2>7. Sim(<<inf>> \o <<k>>, <<inf>> \o <<l>>)
    BY <2>5, <2>6, SimConcat
  <2>8. <<inf, k>> = <<inf>> \o <<k>> /\ <<inf, l>> = <<inf>> \o <<l>>
    BY PairIsSeq
  <2>9. Sim(<<inf, k>>, <<inf, l>>)
    BY <2>7, <2>8
  <2>10. Sim(u \o <<inf, k>>, v \o <<inf, l>>)
    BY <2>4, <2>9, SimConcat
  <2> QED BY <2>1, <2>2, <2>10
<1> HIDE DEF P, N
<1>6. N \in P
  <2>1. N \in Nat
    BY <1>1 DEF N
  <2>2. \A i \in 0..N : i \in P
    BY <1>4, <1>5, <2>1, UpTo
  <2> QED BY <2>1, <2>2
<1> QED BY <1>1, <1>2, <1>3, <1>6 DEF P, N, Segs

-----------------------------------------------------------------------------
(* Regular playlists.                                                      *)

\* What Serialize writes: headers and segments, and the end.
Body(hd, sg) == hd \o Segs(sg)

Written(hd, sg, e) == Body(hd, sg) \o Ending(e)

LastLine == Playlist!Line("end", "", "")

\* Serialize writes headers, segments and the end.
LEMMA WrittenIs ==
    ASSUME NEW p, IsSeq(p.segments)
    PROVE  Playlist!Serialized(p) = Written(p.headers, p.segments, p.endlist)
<1>1. Playlist!FlattenSeq([i \in DOMAIN p.segments |-> <<Playlist!Inf, p.segments[i]>>])
      = Segs(p.segments)
  BY SegsAreLoop
<1> QED BY Zenon, <1>1 DEF Playlist!Serialized, Written, Body, Ending

\* The end is one line, or none.
LEMMA EmptyEnding ==
    ASSUME NEW v, IsSeq(v)
    PROVE  v \o Ending(Off) = v /\ v \o Ending(On) = Append(v, LastLine)
<1>1. Ending(Off) = <<>> /\ Ending(On) = <<LastLine>>
  BY DEF Ending, Off, On, LastLine
<1>2. v \o <<>> = v
  BY ConcatEmptySeq DEF IsSeq
<1>3. v \o <<LastLine>> = Append(v, LastLine)
  BY AppendIsSeq
<1> QED BY <1>1, <1>2, <1>3

\* Headers and segments are a sequence of lines.
LEMMA BodyIsSeq ==
    ASSUME NEW hd, IsSeq(hd), NEW sg, IsSeq(sg)
    PROVE  IsSeq(Body(hd, sg))
<1>1. IsSeq(Segs(sg))
  BY SegsAre
<1> QED BY <1>1, ConcatIsSeq DEF Body

\* A header is one line more while there is no segment.
LEMMA BodyHeader ==
    ASSUME NEW hd, IsSeq(hd), NEW l
    PROVE  Body(hd, <<>>) = hd /\ Body(Append(hd, l), <<>>) = Append(hd, l)
<1>1. Segs(<<>>) = <<>>
  BY LoopEmpty DEF Segs
<1>2. IsSeq(Append(hd, l))
  BY AppendIsSeq
<1> DEFINE v == Append(hd, l)
<1> HIDE DEF v
<1>3. hd \o <<>> = hd /\ v \o <<>> = v
  BY <1>2, ConcatEmptySeq DEF IsSeq, v
<1>4. Body(v, <<>>) = v /\ Body(hd, <<>>) = hd
  BY <1>1, <1>3 DEF Body
<1> QED BY <1>4 DEF v

\* A segment is two lines more.
LEMMA BodySegment ==
    ASSUME NEW hd, IsSeq(hd), NEW sg, IsSeq(sg), NEW l
    PROVE  Body(hd, Append(sg, l)) = Append(Append(Body(hd, sg), Playlist!Inf), l)
<1> DEFINE inf == Playlist!Inf
           s == Segs(sg)
           v == Body(hd, sg)
<1> HIDE DEF inf, s, v
<1>1. Segs(Append(sg, l)) = s \o <<inf, l>>
  BY SegsAppend DEF s, inf
<1>2. <<inf, l>> = <<inf>> \o <<l>> /\ IsSeq(<<inf, l>>) /\ IsSeq(<<inf>>) /\ IsSeq(<<l>>)
  BY PairIsSeq
<1>3. IsSeq(s) /\ IsSeq(v) /\ v = hd \o s
  BY SegsAre, BodyIsSeq DEF s, v, Body
<1> DEFINE a == <<inf>>
           b == <<l>>
<1>4. IsSeq(a) /\ IsSeq(b)
  BY <1>2
<1> HIDE DEF a, b
<1>5. IsSeq(a \o b)
  BY <1>4, ConcatIsSeq
<1> DEFINE c == a \o b
<1> HIDE DEF c
<1>6. Assoc(hd, s, c)
  BY <1>3, <1>5, ConcatThree DEF c
<1>7. Assoc(v, a, b)
  BY <1>3, <1>4, ConcatThree
<1>8. hd \o (s \o c) = v \o c
  BY <1>3, <1>6 DEF Assoc
<1>9. v \o c = (v \o a) \o b
  BY <1>7 DEF Assoc, c
<1>10. v \o a = Append(v, inf)
  BY <1>3, AppendIsSeq DEF a
<1>11. IsSeq(Append(v, inf))
  BY <1>3, AppendIsSeq
<1>12. Append(v, inf) \o b = Append(Append(v, inf), l)
  BY <1>11, AppendIsSeq DEF b
<1>13. Body(hd, Append(sg, l)) = hd \o (s \o c)
  BY <1>1, <1>2 DEF Body, a, b, c
<1> QED BY <1>8, <1>9, <1>10, <1>12, <1>13 DEF v, inf

\* A line with another directory.
LEMMA DirSet ==
    ASSUME NEW k, NEW d, NEW f, NEW x
    PROVE  [[kind |-> k, dir |-> d, file |-> f] EXCEPT !.dir = x] = [kind |-> k, dir |-> x, file |-> f]
OBVIOUS

\* All #EXTINF lines are the same, and so are all ends.
LEMMA NearIs ==
    ASSUME NEW l, LineOK(l)
    PROVE  /\ l.kind = "inf" => Near(Playlist!Inf, l)
           /\ l.kind = "end" => Near(LastLine, l)
<1>1. l = [kind |-> l.kind, dir |-> l.dir, file |-> l.file]
  BY Zenon DEF LineOK
<1> DEFINE none == ""
<1>3. [l EXCEPT !.dir = none] = [kind |-> l.kind, dir |-> none, file |-> l.file]
  <2> DEFINE k == l.kind
             d == l.dir
             f == l.file
  <2>1. l = [kind |-> k, dir |-> d, file |-> f]
    BY <1>1
  <2> HIDE DEF none, k, d, f
  <2>2. [[kind |-> k, dir |-> d, file |-> f] EXCEPT !.dir = none]
           = [kind |-> k, dir |-> none, file |-> f]
    BY DirSet
  <2>3. [l EXCEPT !.dir = none] = [kind |-> k, dir |-> none, file |-> f]
    BY <2>1, <2>2
  <2> QED BY <2>3 DEF k, f
<1>4. [Playlist!Inf EXCEPT !.dir = none] = [kind |-> "inf", dir |-> none, file |-> ""]
  <2> DEFINE k == "inf"
             d == ""
             f == ""
  <2>1. Playlist!Inf = [kind |-> k, dir |-> d, file |-> f]
    BY DEF Playlist!Inf, Playlist!Line
  <2> HIDE DEF none, k, d, f
  <2>2. [[kind |-> k, dir |-> d, file |-> f] EXCEPT !.dir = none]
           = [kind |-> k, dir |-> none, file |-> f]
    BY DirSet
  <2>3. [Playlist!Inf EXCEPT !.dir = none] = [kind |-> k, dir |-> none, file |-> f]
    BY <2>1, <2>2
  <2> QED BY Zenon, <2>3 DEF k, f
<1>5. [LastLine EXCEPT !.dir = none] = [kind |-> "end", dir |-> none, file |-> ""]
  <2> DEFINE k == "end"
             d == ""
             f == ""
  <2>1. LastLine = [kind |-> k, dir |-> d, file |-> f]
    BY DEF LastLine, Playlist!Line
  <2> HIDE DEF none, k, d, f
  <2>2. [[kind |-> k, dir |-> d, file |-> f] EXCEPT !.dir = none]
           = [kind |-> k, dir |-> none, file |-> f]
    BY DirSet
  <2>3. [LastLine EXCEPT !.dir = none] = [kind |-> k, dir |-> none, file |-> f]
    BY <2>1, <2>2
  <2> QED BY Zenon, <2>3 DEF k, f
<1>6. l.kind \in {"inf", "end"} => l.file = ""
  BY Zenon DEF LineOK
<1> HIDE DEF none
<1>7. CASE l.kind = "inf"
  <2>1. [Playlist!Inf EXCEPT !.dir = none] = [l EXCEPT !.dir = none]
    BY Zenon, <1>3, <1>4, <1>6, <1>7
  <2>2. Near(Playlist!Inf, l)
    BY Zenon, <2>1 DEF Near, none
  <2> QED BY <1>7, <2>2
<1>8. CASE l.kind = "end"
  <2>1. [LastLine EXCEPT !.dir = none] = [l EXCEPT !.dir = none]
    BY Zenon, <1>3, <1>5, <1>6, <1>8
  <2>2. Near(LastLine, l)
    BY Zenon, <2>1 DEF Near, none
  <2> QED BY <1>8, <2>2
<1> QED BY <1>7, <1>8

\* Regular, line by line.
LEMMA RegularIs ==
    ASSUME NEW w, IsSeq(w), Playlist!Regular(w)
    PROVE  /\ w # <<>> /\ w[1].kind = "m3u"
           /\ \A i \in 1..Len(w) :
                /\ w[i].kind = "uri" <=> i > 1 /\ w[i - 1].kind = "inf"
                /\ w[i].kind = "inf" => i < Len(w)
                /\ w[i].kind \in {"m3u", "tag"} => \A j \in 1..Len(w) : w[j].kind = "inf" => i < j
                /\ w[i].kind = "end" => i = Len(w)
<1>1. DOMAIN w = 1..Len(w) /\ Len(w) \in Nat
  BY LenProperties DEF IsSeq
<1>2. \A i \in 1..Len(w) : i > 1 => i - 1 \in 1..Len(w)
  BY <1>1
<1> QED BY Zenon, <1>1, <1>2 DEF Playlist!Regular

\* The state of the parser after the first i lines: what it would write is these lines.
RegularState(w, i, st) ==
    \E hd, sg :
        /\ IsSeq(hd) /\ IsSeq(sg)
        /\ sg # <<>> => \E j \in 1..i : w[j].kind = "inf"
        /\ \/ /\ st = Between(hd, sg, Off) /\ Sim(Body(hd, sg), SubSeq(w, 1, i))
              /\ i = 0 \/ w[i].kind # "inf"
           \/ /\ st = AfterInf(hd, sg, Off)
              /\ Sim(Append(Body(hd, sg), Playlist!Inf), SubSeq(w, 1, i))
              /\ i > 0 /\ w[i].kind = "inf"
           \/ /\ st = Between(hd, sg, On)
              /\ Sim(Append(Body(hd, sg), LastLine), SubSeq(w, 1, i))
              /\ i > 0 /\ w[i].kind = "end"

\* One line more of a regular playlist.
LEMMA RegularStep ==
    ASSUME NEW w, IsSeq(w), \A l \in ToSet(w) : FullLine(l), Playlist!Regular(w),
           NEW i \in Nat, i < Len(w), NEW st, RegularState(w, i, st)
    PROVE  RegularState(w, i + 1, Turn(Reading, st, w[i + 1]))
<1> DEFINE l == w[i + 1]
           s == SubSeq(w, 1, i)
           next == Turn(Reading, st, l)
<1>1. /\ Len(w) \in Nat /\ DOMAIN w = 1..Len(w) /\ i + 1 \in 1..Len(w) /\ (i + 1) - 1 = i
      /\ i + 1 > 0 /\ i + 1 # 0 /\ i # Len(w)
      /\ i # 0 => i > 0 /\ i + 1 > 1 /\ i \in 1..Len(w) /\ i \in 1..(i + 1)
      /\ \A j \in 1..i : j \in 1..(i + 1) /\ j \in 1..Len(w) /\ ~(i + 1 < j)
      /\ ~(0 + 1 > 1)
  BY LenProperties DEF IsSeq
<1>2. LineOK(l) /\ l.kind \in {"m3u", "inf", "end", "tag", "uri"}
  <2>1. l \in ToSet(w)
    BY Zenon, <1>1 DEF ToSet
  <2> QED BY Zenon, <2>1 DEF FullLine, LineOK, LineKinds
<1>3. SubSeq(w, 1, i + 1) = Append(s, l)
  BY Zenon, <1>1, SubSeqGrows
<1>4. /\ l.kind = "uri" <=> i # 0 /\ w[i].kind = "inf"
      /\ l.kind = "inf" => i + 1 < Len(w)
      /\ l.kind \in {"m3u", "tag"} => \A j \in 1..Len(w) : w[j].kind = "inf" => i + 1 < j
      /\ i # 0 /\ w[i].kind = "end" => i = Len(w)
  <2>1. \A j \in 1..Len(w) :
            /\ w[j].kind = "uri" <=> j > 1 /\ w[j - 1].kind = "inf"
            /\ w[j].kind = "inf" => j < Len(w)
            /\ w[j].kind \in {"m3u", "tag"} => \A k \in 1..Len(w) : w[k].kind = "inf" => j < k
            /\ w[j].kind = "end" => j = Len(w)
    BY RegularIs
  <2>2. w[i + 1].kind = "uri" <=> i + 1 > 1 /\ w[(i + 1) - 1].kind = "inf"
    BY Zenon, <1>1, <2>1
  <2>3. i + 1 > 1 <=> i # 0
    BY Zenon, <1>1
  <2> QED BY Zenon, <1>1, <2>1, <2>2, <2>3
<1>5. PICK hd, sg :
        /\ IsSeq(hd) /\ IsSeq(sg)
        /\ sg # <<>> => \E j \in 1..i : w[j].kind = "inf"
        /\ \/ /\ st = Between(hd, sg, Off) /\ Sim(Body(hd, sg), s)
              /\ i = 0 \/ w[i].kind # "inf"
           \/ /\ st = AfterInf(hd, sg, Off)
              /\ Sim(Append(Body(hd, sg), Playlist!Inf), s)
              /\ i > 0 /\ w[i].kind = "inf"
           \/ /\ st = Between(hd, sg, On)
              /\ Sim(Append(Body(hd, sg), LastLine), s)
              /\ i > 0 /\ w[i].kind = "end"
  BY DEF RegularState
<1>6. sg # <<>> => \E j \in 1..(i + 1) : w[j].kind = "inf"
  BY Zenon, <1>1, <1>5
<1> DEFINE body == Body(hd, sg)
           inf == Playlist!Inf
<1> HIDE DEF s, next
<1>7. CASE st = AfterInf(hd, sg, Off) /\ Sim(Append(body, inf), s) /\ i > 0 /\ w[i].kind = "inf"
  <2> DEFINE more == Append(sg, l)
  <2>1. next = Between(hd, more, Off)
    BY <1>7, ReadSegment DEF next
  <2>2. IsSeq(more)
    BY <1>5, AppendIsSeq
  <2>3. Body(hd, more) = Append(Append(body, inf), l)
    BY <1>5, BodySegment
  <2>4. Near(l, l)
    BY DEF Near
  <2>5. l.kind # "inf" /\ \E j \in 1..(i + 1) : w[j].kind = "inf"
    <3>2. i # 0
      BY <1>7
    <3>1. i \in 1..(i + 1) /\ w[i].kind = "inf"
      BY <1>1, <1>7, <3>2
    <3>3. l.kind = "uri"
      BY <1>4, <1>7, <3>2
    <3> QED BY <3>1, <3>3
  <2> HIDE DEF more, inf, body, l
  <2>6. Sim(Append(Append(body, inf), l), Append(s, l))
    BY <1>7, <2>4, SimAppend
  <2>7. Sim(Body(hd, more), SubSeq(w, 1, i + 1))
    BY <1>3, <2>3, <2>6
  <2>8. RegularState(w, i + 1, next)
    BY <1>5, <2>1, <2>2, <2>5, <2>7 DEF RegularState, l
  <2> QED BY <2>8 DEF next, l
<1>8. CASE st = Between(hd, sg, Off) /\ Sim(body, s) /\ (i = 0 \/ w[i].kind # "inf")
  <2>1. l.kind # "uri"
    BY <1>4, <1>8
  <2>2. CASE l.kind = "inf"
    <3>1. next = AfterInf(hd, sg, Off)
      BY <1>8, <2>2, ReadInf DEF next
    <3>2. Near(inf, l)
      BY <1>2, <2>2, NearIs
    <3> HIDE DEF inf, body, l
    <3>3. Sim(Append(body, inf), Append(s, l))
      BY <1>8, <3>2, SimAppend
    <3>4. Sim(Append(Body(hd, sg), Playlist!Inf), SubSeq(w, 1, i + 1))
      BY <1>3, <3>3 DEF body, inf
    <3>5. RegularState(w, i + 1, next)
      BY Zenon, <1>1, <1>5, <1>6, <2>2, <3>1, <3>4 DEF RegularState, l
    <3> QED BY <3>5 DEF next, l
  <2>3. CASE l.kind = "end"
    <3>1. next = Between(hd, sg, On)
      BY <1>8, <2>3, ReadEnd DEF next
    <3>2. Near(LastLine, l)
      BY <1>2, <2>3, NearIs
    <3> HIDE DEF inf, body, l
    <3>3. Sim(Append(body, LastLine), Append(s, l))
      BY <1>8, <3>2, SimAppend
    <3>4. Sim(Append(Body(hd, sg), LastLine), SubSeq(w, 1, i + 1))
      BY <1>3, <3>3 DEF body
    <3>5. RegularState(w, i + 1, next)
      BY Zenon, <1>1, <1>5, <1>6, <2>3, <3>1, <3>4 DEF RegularState, l
    <3> QED BY <3>5 DEF next, l
  <2>4. CASE l.kind \in {"m3u", "tag"}
    <3> DEFINE more == Append(hd, l)
    <3>1. sg = <<>>
      BY <1>1, <1>4, <1>5, <2>4
    <3>2. next = Between(more, sg, Off)
      BY <1>8, <2>4, ReadHeader DEF next
    <3>3. IsSeq(more)
      BY <1>5, AppendIsSeq
    <3>4. body = hd /\ Body(more, sg) = Append(hd, l)
      BY <1>5, <3>1, BodyHeader
    <3>5. Near(l, l)
      BY DEF Near
    <3>6. l.kind # "inf"
      BY <2>4
    <3> HIDE DEF more, inf, body, l
    <3>7. Sim(Append(hd, l), Append(s, l))
      BY <1>8, <3>4, <3>5, SimAppend
    <3>8. Sim(Body(more, sg), SubSeq(w, 1, i + 1))
      BY <1>3, <3>4, <3>7
    <3>9. RegularState(w, i + 1, next)
      BY <1>5, <1>6, <3>2, <3>3, <3>6, <3>8 DEF RegularState, l
    <3> QED BY <3>9 DEF next, l
  <2> QED BY <1>2, <2>1, <2>2, <2>3, <2>4
<1>9. CASE i > 0 /\ w[i].kind = "end"
  BY <1>1, <1>4, <1>9
<1> QED BY <1>5, <1>7, <1>8, <1>9

\* So after all of them.
LEMMA RegularRead ==
    ASSUME NEW w, IsSeq(w), \A l \in ToSet(w) : FullLine(l), Playlist!Regular(w)
    PROVE  RegularState(w, Len(w), Loop(Reading, Start, w))
<1>1. PICK h : States(Reading, Start, w, h) /\ Loop(Reading, Start, w) = h[Len(w)]
  BY LoopStates
<1>2. Len(w) \in Nat
  BY LenProperties DEF IsSeq
<1> DEFINE N == Len(w)
           P == {i \in 0..N : RegularState(w, i, h[i])}
<1>3. 0 \in P
  <2>1. h[0] = Between(<<>>, <<>>, Off)
    BY <1>1 DEF States, Start
  <2>2. IsSeq(<<>>)
    BY NewIsSeq
  <2>3. Body(<<>>, <<>>) = <<>>
    BY <2>2, BodyHeader
  <2>4. SubSeq(w, 1, 0) = <<>>
    BY SubSeqEmpty
  <2>5. Sim(Body(<<>>, <<>>), SubSeq(w, 1, 0))
    BY <2>2, <2>3, <2>4, SimSelf
  <2>6. RegularState(w, 0, h[0])
    BY <2>1, <2>2, <2>5 DEF RegularState
  <2> QED BY <1>2, <2>6
<1>4. ASSUME NEW i \in Nat, i < N, i \in P
      PROVE  i + 1 \in P
  <2>1. i + 1 \in 1..N /\ (i + 1) - 1 = i /\ i + 1 \in 0..N
    BY <1>2, <1>4
  <2>2. h[i + 1] = Turn(Reading, h[i], w[i + 1])
    BY <1>1, <2>1 DEF States
  <2>3. RegularState(w, i, h[i])
    BY <1>4
  <2>4. RegularState(w, i + 1, Turn(Reading, h[i], w[i + 1]))
    BY <1>4, <2>3, RegularStep
  <2> QED BY <2>1, <2>2, <2>4
<1> HIDE DEF P, N
<1>5. N \in P
  <2>1. N \in Nat
    BY <1>2 DEF N
  <2>2. \A i \in 0..N : i \in P
    BY <1>3, <1>4, <2>1, UpTo
  <2> QED BY <2>1, <2>2
<1> QED BY <1>1, <1>5 DEF P, N

-----------------------------------------------------------------------------
(* What is written is read.                                                *)

\* A text, and a parser.
TextOK(t) == IsSeq(t) /\ \A l \in ToSet(t) : LineOK(l)

ParserOK(p) ==
    /\ p = [headers |-> p.headers, segments |-> p.segments, endlist |-> p.endlist, ok |-> p.ok]
    /\ IsSeq(p.headers) /\ \A l \in ToSet(p.headers) : HeaderLine(l)
    /\ IsSeq(p.segments) /\ \A l \in ToSet(p.segments) : FullLine(l)
    /\ p.endlist \in {On, Off} /\ p.ok \in BOOLEAN
    /\ p.ok => p.headers # <<>> /\ p.headers[1].kind = "m3u"

\* A regular text is what the parser that read it writes, but for directories.
Faithful(p, t) ==
    Playlist!Regular(Playlist!CleanAndSplit(t)) =>
        p.ok /\ Sim(Playlist!Serialized(p), Playlist!CleanAndSplit(t))

\* What is written are lines none of which is blank, headers first.
LEMMA WrittenLines ==
    ASSUME NEW hd, IsSeq(hd), \A l \in ToSet(hd) : HeaderLine(l),
           NEW sg, IsSeq(sg), \A l \in ToSet(sg) : FullLine(l), NEW e \in {On, Off}
    PROVE  /\ IsSeq(Written(hd, sg, e)) /\ \A l \in ToSet(Written(hd, sg, e)) : FullLine(l)
           /\ hd # <<>> => Written(hd, sg, e) # <<>> /\ Written(hd, sg, e)[1] = hd[1]
<1> DEFINE s == Segs(sg)
           b == Ending(e)
<1>1. IsSeq(s) /\ \A l \in ToSet(s) : l = Playlist!Inf \/ l \in ToSet(sg)
  BY SegsAre
<1>2. FullLine(Playlist!Inf) /\ FullLine(LastLine)
  BY Zenon DEF FullLine, LineOK, LineKinds, LastLine, Playlist!Inf, Playlist!Line
<1>3. IsSeq(b) /\ \A l \in ToSet(b) : l = LastLine
  <2>1. IsSeq(<<>>) /\ ToSet(<<>>) = {}
    BY DEF IsSeq, ToSet
  <2>2. IsSeq(<<LastLine>>) /\ ToSet(<<LastLine>>) = {LastLine}
    BY PairIsSeq
  <2> QED BY Zenon, <2>1, <2>2 DEF Ending, LastLine
<1> HIDE DEF s, b
<1> DEFINE v == hd \o s
<1>4. IsSeq(v) /\ ToSet(v) = ToSet(hd) \cup ToSet(s)
  BY <1>1, ConcatIsSeq
<1> HIDE DEF v
<1> DEFINE w == v \o b
<1>5. IsSeq(w) /\ ToSet(w) = ToSet(v) \cup ToSet(b)
  BY <1>3, <1>4, ConcatIsSeq
<1>6. hd # <<>> => w # <<>> /\ w[1] = hd[1]
  <2> SUFFICES ASSUME hd # <<>> PROVE w # <<>> /\ w[1] = hd[1]
    OBVIOUS
  <2>1. v # <<>> /\ v[1] = hd[1]
    <3> DEFINE S == ToSet(hd) \cup ToSet(s)
    <3>1. hd \in Seq(S) /\ s \in Seq(S)
      BY <1>1, SeqMonotonic DEF IsSeq
    <3>2. Len(hd) \in Nat /\ Len(s) \in Nat /\ 1 \in 1..Len(hd) /\ Len(hd) # 0
      BY <3>1, EmptySeq, LenProperties
    <3>3. Len(hd \o s) = Len(hd) + Len(s) /\ (hd \o s)[1] = hd[1]
      BY <3>1, <3>2, ConcatProperties
    <3>4. Len(<<>>) = 0 /\ Len(v) # 0
      BY <3>2, <3>3 DEF v
    <3> QED BY <3>3, <3>4 DEF v
  <2> DEFINE S == ToSet(v) \cup ToSet(b)
  <2>2. v \in Seq(S) /\ b \in Seq(S)
    BY <1>3, <1>4, SeqMonotonic DEF IsSeq
  <2>3. Len(v) \in Nat /\ Len(b) \in Nat /\ 1 \in 1..Len(v) /\ Len(v) # 0
    BY <2>1, <2>2, EmptySeq, LenProperties
  <2>4. Len(v \o b) = Len(v) + Len(b) /\ (v \o b)[1] = v[1]
    BY <2>2, <2>3, ConcatProperties
  <2>5. Len(<<>>) = 0 /\ Len(w) # 0
    BY <2>3, <2>4
  <2> QED BY <2>1, <2>4, <2>5
<1> HIDE DEF w
<1>7. w = Written(hd, sg, e)
  BY DEF w, v, s, b, Written, Body
<1>8. \A l \in ToSet(w) : FullLine(l)
  BY <1>1, <1>2, <1>3, <1>4, <1>5 DEF HeaderLine
<1> QED BY <1>5, <1>6, <1>7, <1>8

\* What a parser wrote is read as it was.
LEMMA ReadWritten ==
    ASSUME NEW hd, IsSeq(hd), \A l \in ToSet(hd) : HeaderLine(l),
           NEW sg, IsSeq(sg), \A l \in ToSet(sg) : FullLine(l), NEW e \in {On, Off}
    PROVE  Loop(Reading, Start, Written(hd, sg, e)) = Between(hd, sg, e)
<1> DEFINE s == Segs(sg)
           v == Body(hd, sg)
<1>1. IsSeq(s) /\ IsSeq(v) /\ v = hd \o s
  BY SegsAre, BodyIsSeq DEF Body
<1>2. IsSeq(<<>>)
  BY NewIsSeq
<1>3. Loop(Reading, Start, hd) = Between(hd, <<>>, Off)
  <2> DEFINE none == <<>>
  <2>1. IsSeq(none)
    BY <1>2
  <2> HIDE DEF none
  <2>2. \A q : Loop(Reading, Between(none, q, Off), hd) = Between(none \o hd, q, Off)
    BY <2>1, HeadersRead
  <2>3. Loop(Reading, Between(<<>>, none, Off), hd) = Between(<<>> \o hd, none, Off)
    BY <2>2 DEF none
  <2>4. <<>> \o hd = hd
    BY ConcatEmptySeq DEF IsSeq
  <2> QED BY <2>3, <2>4 DEF none, Start
<1>4. Loop(Reading, Between(hd, <<>>, Off), s) = Between(hd, sg, Off)
  BY SegsRead
<1> HIDE DEF s, v
<1>5. Loop(Reading, Start, v) = Between(hd, sg, Off)
  <2>1. Loop(Reading, Start, hd \o s) = Loop(Reading, Loop(Reading, Start, hd), s)
    BY <1>1, LoopConcat
  <2> QED BY <1>1, <1>3, <1>4, <2>1
<1>6. CASE e = Off
  <2>1. Written(hd, sg, e) = v
    BY <1>1, <1>6, EmptyEnding DEF Written, v
  <2> QED BY <1>5, <1>6, <2>1
<1>7. CASE e = On
  <2>1. Written(hd, sg, e) = Append(v, LastLine)
    BY <1>1, <1>7, EmptyEnding DEF Written, v
  <2>2. Append(v, LastLine) = v \o <<LastLine>> /\ IsSeq(<<LastLine>>)
    BY <1>1, AppendIsSeq
  <2>3. Loop(Reading, Start, v \o <<LastLine>>) = Loop(Reading, Loop(Reading, Start, v), <<LastLine>>)
    BY <1>1, <2>2, LoopConcat
  <2>4. Turn(Reading, Between(hd, sg, Off), LastLine) = Between(hd, sg, On)
    <3>1. LastLine.kind = "end"
      BY DEF LastLine, Playlist!Line
    <3> QED BY <3>1, ReadEnd
  <2> QED BY <1>5, <1>7, <2>1, <2>2, <2>3, <2>4, LoopOne
<1> QED BY <1>6, <1>7

-----------------------------------------------------------------------------
(* ParseString and ApplyBaseURL.                                           *)

\* Serialized and parsed again, a parser is the same.
LEMMA Reread ==
    ASSUME NEW p, ParserOK(p), p.ok
    PROVE  Playlist!Parsed(Playlist!Empty, Playlist!Serialized(p)) = p
<1> DEFINE hd == p.headers
           sg == p.segments
           e == p.endlist
           w == Written(hd, sg, e)
<1>1. /\ IsSeq(hd) /\ \A l \in ToSet(hd) : HeaderLine(l)
      /\ IsSeq(sg) /\ \A l \in ToSet(sg) : FullLine(l)
      /\ e \in {On, Off} /\ p.ok = TRUE
      /\ hd # <<>> /\ hd[1].kind = "m3u"
      /\ p = [headers |-> hd, segments |-> sg, endlist |-> e, ok |-> p.ok]
  BY DEF ParserOK
<1>2. Playlist!Serialized(p) = w
  BY <1>1, WrittenIs
<1> HIDE DEF hd, sg, e
<1>3. IsSeq(w) /\ (\A l \in ToSet(w) : FullLine(l)) /\ w # <<>> /\ w[1] = hd[1]
  BY <1>1, WrittenLines
<1>4. Loop(Reading, Start, w) = Between(hd, sg, e)
  BY <1>1, ReadWritten
<1> HIDE DEF w
<1>5. Playlist!CleanAndSplit(w) = w
  <2>1. \A l \in ToSet(w) : l.kind # "blank"
    BY <1>3 DEF FullLine
  <2> QED BY <1>3, <2>1, CleanKeeps
<1>6. IsPlaylist(w)
  <2>1. Head(w) = w[1]
    BY <1>3
  <2> QED BY <1>1, <1>3, <2>1 DEF IsPlaylist
<1> DEFINE end == Between(hd, sg, e)
<1>7. end.headers = hd /\ end.segments = sg /\ end.endlist = e
  BY DEF Between, Reader
<1> HIDE DEF end
<1>8. Playlist!Parsed(Playlist!Empty, w) =
        [headers |-> end.headers, segments |-> end.segments, endlist |-> end.endlist, ok |-> TRUE]
  BY <1>3, <1>4, <1>5, <1>6, ParsedIs DEF end
<1> QED BY <1>1, <1>2, <1>7, <1>8

\* ParseString.
LEMMA ParseKeeps ==
    ASSUME NEW t, TextOK(t), NEW p, p = Playlist!Parsed(Playlist!Empty, t)
    PROVE  ParserOK(p) /\ Faithful(p, t)
<1> DEFINE w == Playlist!CleanAndSplit(t)
<1>1. IsSeq(w) /\ \A l \in ToSet(w) : FullLine(l)
  BY CleanIs DEF TextOK
<1>2. CASE ~IsPlaylist(w)
  <2>1. /\ p.headers = <<>> /\ p.segments = <<>> /\ p.endlist = FALSE /\ p.ok = FALSE
        /\ p = [headers |-> p.headers, segments |-> p.segments, endlist |-> p.endlist, ok |-> p.ok]
    BY <1>2, NotParsed
  <2>2. IsSeq(<<>>) /\ ToSet(<<>>) = {}
    BY DEF IsSeq, ToSet
  <2>3. ParserOK(p)
    BY <2>1, <2>2 DEF ParserOK, Off
  <2>4. ~Playlist!Regular(w)
    <3> SUFFICES ASSUME Playlist!Regular(w) PROVE FALSE
      OBVIOUS
    <3> HIDE DEF w
    <3>1. w # <<>> /\ w[1].kind = "m3u"
      BY <1>1, RegularIs
    <3>2. Head(w) = w[1]
      OBVIOUS
    <3> QED BY <1>2, <3>1, <3>2 DEF IsPlaylist
  <2> QED BY <2>3, <2>4 DEF Faithful
<1>3. CASE IsPlaylist(w)
  <2> DEFINE end == Loop(Reading, Start, w)
  <2>1. p = [headers |-> end.headers, segments |-> end.segments, endlist |-> end.endlist, ok |-> TRUE]
    BY <1>1, <1>3, ParsedIs
  <2>2. w # <<>> /\ w[1].kind = "m3u"
    <3>1. Head(w) = w[1]
      OBVIOUS
    <3> QED BY <1>3, <3>1 DEF IsPlaylist
  <2>3. ReaderState(w, Len(w), end)
    <3> HIDE DEF w
    <3> QED BY <1>1, <2>2, ReadTyped
  <2>4. Len(w) \in Nat /\ Len(w) > 0
    BY <1>1, <2>2, EmptySeq, LenProperties DEF IsSeq
  <2> HIDE DEF w, end
  <2>5. PICK hd, sg, e :
            /\ IsSeq(hd) /\ \A l \in ToSet(hd) : HeaderLine(l)
            /\ IsSeq(sg) /\ \A l \in ToSet(sg) : FullLine(l)
            /\ e \in {On, Off}
            /\ end = Between(hd, sg, e) \/ end = AfterInf(hd, sg, e)
            /\ hd # <<>> /\ hd[1] = w[1]
    BY <2>3, <2>4 DEF ReaderState
  <2>6. end.headers = hd /\ end.segments = sg /\ end.endlist = e
    BY <2>5 DEF Between, AfterInf, Reader
  <2>7. p = [headers |-> hd, segments |-> sg, endlist |-> e, ok |-> TRUE]
    BY <2>1, <2>6
  <2>8. p.headers = hd /\ p.segments = sg /\ p.endlist = e /\ p.ok = TRUE
    BY <2>7
  <2>9. ParserOK(p)
    BY <2>2, <2>5, <2>7, <2>8 DEF ParserOK
  <2>10. ASSUME Playlist!Regular(w)
         PROVE  Sim(Playlist!Serialized(p), w)
    <3>1. RegularState(w, Len(w), end)
      BY <1>1, <2>10, RegularRead DEF end
    <3>2. PICK a, b :
            /\ IsSeq(a) /\ IsSeq(b)
            /\ \/ /\ end = Between(a, b, Off) /\ Sim(Body(a, b), SubSeq(w, 1, Len(w)))
                  /\ Len(w) = 0 \/ w[Len(w)].kind # "inf"
               \/ /\ end = AfterInf(a, b, Off)
                  /\ Sim(Append(Body(a, b), Playlist!Inf), SubSeq(w, 1, Len(w)))
                  /\ Len(w) > 0 /\ w[Len(w)].kind = "inf"
               \/ /\ end = Between(a, b, On)
                  /\ Sim(Append(Body(a, b), LastLine), SubSeq(w, 1, Len(w)))
                  /\ Len(w) > 0 /\ w[Len(w)].kind = "end"
      BY <3>1 DEF RegularState
    <3>3. w[Len(w)].kind # "inf"
      <4>1. \A i \in 1..Len(w) : w[i].kind = "inf" => i < Len(w)
        BY <1>1, <2>10, RegularIs
      <4>2. Len(w) \in 1..Len(w) /\ ~(Len(w) < Len(w))
        BY <2>4
      <4> QED BY <4>1, <4>2
    <3>4. SubSeq(w, 1, Len(w)) = w
      BY <1>1, SubSeqFull DEF IsSeq
    <3>5. IsSeq(Body(a, b))
      BY <3>2, BodyIsSeq
    <3>6. Playlist!Serialized(p) = Written(p.headers, p.segments, p.endlist)
      BY <2>5, <2>8, WrittenIs
    <3>7. CASE end = Between(a, b, Off) /\ Sim(Body(a, b), w)
      <4>1. end.headers = a /\ end.segments = b /\ end.endlist = Off
        BY <3>7 DEF Between, Reader
      <4>2. Written(a, b, Off) = Body(a, b)
        BY <3>5, EmptyEnding DEF Written
      <4>3. Playlist!Serialized(p) = Written(a, b, Off)
        BY <2>6, <2>8, <3>6, <4>1
      <4> QED BY <3>7, <4>2, <4>3
    <3>8. CASE end = Between(a, b, On) /\ Sim(Append(Body(a, b), LastLine), w)
      <4>1. end.headers = a /\ end.segments = b /\ end.endlist = On
        BY <3>8 DEF Between, Reader
      <4>2. Written(a, b, On) = Append(Body(a, b), LastLine)
        BY <3>5, EmptyEnding DEF Written
      <4>3. Playlist!Serialized(p) = Written(a, b, On)
        BY <2>6, <2>8, <3>6, <4>1
      <4> QED BY <3>8, <4>2, <4>3
    <3> QED BY <3>2, <3>3, <3>4, <3>7, <3>8
  <2> QED BY <2>8, <2>9, <2>10 DEF Faithful, w
<1> QED BY <1>2, <1>3

\* ApplyBaseURL.
IsRebased(q, p, prefix) ==
    q = [p EXCEPT !.segments = [i \in DOMAIN @ |-> Playlist!Rebased(@[i], prefix)]]

\* ApplyBaseURL changes nothing but directories.
LEMMA RebaseKeeps ==
    ASSUME NEW p, ParserOK(p), NEW t, NEW prefix, NEW q, IsRebased(q, p, prefix)
    PROVE  ParserOK(q) /\ (Faithful(p, t) => Faithful(q, t))
<1> DEFINE sg == p.segments
           a == [i \in DOMAIN sg |-> Playlist!Rebased(sg[i], prefix)]
<1>1. /\ p = [headers |-> p.headers, segments |-> sg, endlist |-> p.endlist, ok |-> p.ok]
      /\ IsSeq(p.headers) /\ \A l \in ToSet(p.headers) : HeaderLine(l)
      /\ IsSeq(sg) /\ \A l \in ToSet(sg) : FullLine(l)
      /\ p.endlist \in {On, Off} /\ p.ok \in BOOLEAN
      /\ p.ok => p.headers # <<>> /\ p.headers[1].kind = "m3u"
  BY DEF ParserOK
<1>2. /\ q = [headers |-> p.headers, segments |-> a, endlist |-> p.endlist, ok |-> p.ok]
      /\ q.headers = p.headers /\ q.segments = a /\ q.endlist = p.endlist /\ q.ok = p.ok
  BY <1>1 DEF IsRebased
<1> HIDE DEF sg
<1>3. DOMAIN sg = 1..Len(sg) /\ Len(sg) \in Nat
  BY <1>1, LenProperties DEF IsSeq
<1>4. IsSeq(a) /\ Len(a) = Len(sg) /\ DOMAIN a = 1..Len(sg)
  <2>1. a \in Seq({Playlist!Rebased(sg[i], prefix) : i \in DOMAIN sg}) /\ Len(a) = Len(sg)
    BY <1>3
  <2> QED BY <1>3, <2>1, SeqIsSeq
<1>5. ASSUME NEW i \in 1..Len(sg)
      PROVE  FullLine(a[i]) /\ Near(a[i], sg[i])
  <2> DEFINE l == sg[i]
             k == l.kind
             d == l.dir
             f == l.file
             x == prefix
             none == ""
  <2>1. a[i] = [l EXCEPT !.dir = x]
    BY <1>3 DEF Playlist!Rebased
  <2>2. FullLine(l)
    <3>1. l \in ToSet(sg)
      BY <1>3 DEF ToSet
    <3> QED BY <1>1, <3>1
  <2>3. l = [kind |-> k, dir |-> d, file |-> f]
    BY Zenon, <2>2 DEF FullLine, LineOK
  <2> DEFINE y == a[i]
  <2> HIDE DEF k, d, f, x, none, a, l, y
  <2>4. y = [kind |-> k, dir |-> x, file |-> f]
    BY <2>1, <2>3, DirSet DEF y
  <2>5. y.kind = l.kind /\ y.file = l.file /\ y.dir = x
    BY <2>3, <2>4
  <2>6. y = [kind |-> y.kind, dir |-> y.dir, file |-> y.file]
    BY <2>4, <2>5
  <2>7. FullLine(y)
    BY Zenon, <2>2, <2>5, <2>6 DEF FullLine, LineOK
  <2>8. [y EXCEPT !.dir = none] = [kind |-> k, dir |-> none, file |-> f]
    BY <2>4, DirSet
  <2>9. [l EXCEPT !.dir = none] = [kind |-> k, dir |-> none, file |-> f]
    BY <2>3, DirSet
  <2>10. Near(y, l)
    BY Zenon, <2>8, <2>9 DEF Near, none
  <2> QED BY <2>7, <2>10 DEF y, l
<1> HIDE DEF a
<1>6. \A l \in ToSet(a) : FullLine(l)
  BY <1>4, <1>5 DEF ToSet
<1>7. ParserOK(q)
  BY <1>1, <1>2, <1>4, <1>6 DEF ParserOK
<1>8. Sim(Playlist!Serialized(q), Playlist!Serialized(p))
  <2>1. Sim(a, sg)
    BY <1>1, <1>4, <1>5 DEF Sim
  <2>2. Sim(Segs(a), Segs(sg))
    BY <2>1, SimSegs
  <2> DEFINE hd == p.headers
             e == p.endlist
  <2>3. Sim(hd, hd)
    BY <1>1, SimSelf
  <2>4. Sim(Ending(e), Ending(e))
    <3>1. IsSeq(<<>>)
      BY NewIsSeq
    <3>2. IsSeq(<<LastLine>>)
      BY PairIsSeq
    <3>3. IsSeq(Ending(e))
      BY Zenon, <3>1, <3>2 DEF Ending, LastLine
    <3> QED BY <3>3, SimSelf
  <2> HIDE DEF hd, e
  <2>5. Sim(hd \o Segs(a), hd \o Segs(sg))
    BY <2>2, <2>3, SimConcat
  <2>6. Sim(Body(hd, a), Body(hd, sg))
    BY <2>5 DEF Body
  <2>7. Sim(Body(hd, a) \o Ending(e), Body(hd, sg) \o Ending(e))
    BY <2>4, <2>6, SimConcat
  <2>8. Sim(Written(hd, a, e), Written(hd, sg, e))
    BY <2>7 DEF Written
  <2>9. Playlist!Serialized(p) = Written(hd, sg, e)
    BY <1>1, WrittenIs DEF hd, e, sg
  <2>10. Playlist!Serialized(q) = Written(q.headers, q.segments, q.endlist)
    BY <1>2, <1>4, WrittenIs
  <2> QED BY <1>2, <2>8, <2>9, <2>10 DEF hd, e
<1> DEFINE u == Playlist!Serialized(q)
           v == Playlist!Serialized(p)
           w == Playlist!CleanAndSplit(t)
<1> HIDE DEF u, v, w
<1>9. Sim(v, w) => Sim(u, w)
  BY <1>8, SimTrans DEF u, v
<1> QED BY <1>2, <1>7, <1>9 DEF Faithful, u, v, w

-----------------------------------------------------------------------------
(* The playlists.                                                          *)

PlaylistOK ==
    /\ TextOK(text) /\ ParserOK(parser) /\ read \in BOOLEAN
    /\ read => Faithful(parser, text)

\* Such a parser keeps playlists.
LEMMA PlaylistKeptIs == PlaylistOK => PlaylistKept
<1> SUFFICES ASSUME PlaylistOK PROVE PlaylistKept
  OBVIOUS
<1>1. read /\ Playlist!Regular(Playlist!CleanAndSplit(text)) =>
          parser.ok /\ Playlist!Plain(Playlist!Serialized(parser)) =
                     Playlist!Plain(Playlist!CleanAndSplit(text))
  BY SimPlain DEF PlaylistOK, Faithful
<1>2. parser.ok => Playlist!Parsed(Playlist!Empty, Playlist!Serialized(parser)) = parser
  BY Reread DEF PlaylistOK
<1> QED BY <1>1, <1>2 DEF PlaylistKept, Playlist!PlaylistKept

\* Before anything is read.
LEMMA EmptyOK == TextOK(<<>>) /\ ParserOK(Playlist!Empty)
<1>1. IsSeq(<<>>) /\ ToSet(<<>>) = {}
  BY DEF IsSeq, ToSet
<1>2. Playlist!Empty.endlist \in {On, Off} /\ Playlist!Empty.ok = FALSE
  BY DEF Playlist!Empty, Off
<1> QED BY <1>1, <1>2 DEF TextOK, ParserOK, Playlist!Empty

\* Nothing was read or written yet.
LEMMA PlaylistInit == Playlist!Init => PlaylistOK
BY EmptyOK DEF Playlist!Init, PlaylistOK

\* Parsing, serializing, another base, and a text that grows keep it.
LEMMA PlaylistStep == PlaylistOK /\ [Playlist!Next]_playlistVars => PlaylistOK'
<1> SUFFICES ASSUME PlaylistOK, [Playlist!Next]_playlistVars PROVE PlaylistOK'
  OBVIOUS
<1>1. TextOK(text) /\ ParserOK(parser) /\ read \in BOOLEAN /\ (read => Faithful(parser, text))
  BY DEF PlaylistOK
<1>2. CASE Playlist!ParseString
  <2> DEFINE p == parser'
             t == text
  <2>1. p = Playlist!Parsed(Playlist!Empty, t) /\ read' = TRUE /\ text' = t
    BY <1>2 DEF Playlist!ParseString, Playlist!Cleared
  <2> HIDE DEF p, t
  <2>2. ParserOK(p) /\ Faithful(p, t)
    BY <1>1, <2>1, ParseKeeps DEF t
  <2> QED BY <1>1, <2>1, <2>2 DEF PlaylistOK, p, t
<1>3. CASE Playlist!Serialize
  <2> DEFINE w == Playlist!Serialized(parser)
  <2>1. text' = w /\ read' = FALSE /\ parser' = parser
    BY <1>3 DEF Playlist!Serialize
  <2>2. TextOK(w)
    <3>1. w = Written(parser.headers, parser.segments, parser.endlist)
      BY <1>1, WrittenIs DEF ParserOK
    <3>2. IsSeq(w) /\ \A l \in ToSet(w) : FullLine(l)
      BY <1>1, <3>1, WrittenLines DEF ParserOK
    <3> QED BY <3>2 DEF TextOK, FullLine
  <2> HIDE DEF w
  <2> QED BY <1>1, <2>1, <2>2 DEF PlaylistOK
<1>4. CASE Playlist!ApplyBaseURL
  <2>1. PICK prefix \in Bases :
            /\ parser' = [parser EXCEPT !.segments =
               [i \in DOMAIN @ |-> Playlist!Rebased(@[i], prefix)]]
            /\ text' = text /\ read' = read
    BY <1>4 DEF Playlist!ApplyBaseURL
  <2> DEFINE q == parser'
  <2>2. IsRebased(q, parser, prefix)
    BY <2>1 DEF IsRebased
  <2> HIDE DEF q
  <2>3. ParserOK(q) /\ (Faithful(parser, text) => Faithful(q, text))
    BY <1>1, <2>2, RebaseKeeps
  <2> QED BY <1>1, <2>1, <2>3 DEF PlaylistOK, q
<1>5. CASE Playlist!Write
  <2>1. PICK l \in Playlist!Lines : text' = Append(text, l)
    BY <1>5 DEF Playlist!Write
  <2>2. read' = FALSE /\ parser' = parser
    BY <1>5 DEF Playlist!Write
  <2>3. LineOK(l)
    <3>1. CASE l \in {Playlist!Line(k, "", "") : k \in {"m3u", "inf", "end", "tag", "blank"}}
      <4>1. PICK k \in {"m3u", "inf", "end", "tag", "blank"} : l = [kind |-> k, dir |-> "", file |-> ""]
        BY Zenon, <3>1 DEF Playlist!Line
      <4> DEFINE none == ""
      <4>2. l.kind = k /\ l.dir = none /\ l.file = none
        BY Zenon, <4>1
      <4>3. l = [kind |-> k, dir |-> none, file |-> none]
        BY Zenon, <4>1
      <4>4. k \in LineKinds
        BY DEF LineKinds
      <4> HIDE DEF none
      <4>5. l = [kind |-> l.kind, dir |-> l.dir, file |-> l.file]
        BY <4>2, <4>3
      <4>6. l.file = ""
        BY Zenon, <4>2 DEF none
      <4> QED BY Zenon, <4>2, <4>4, <4>5, <4>6 DEF LineOK
    <3>2. CASE l \in {Playlist!Line("uri", Old, f) : f \in Files}
      <4>1. PICK f \in Files : l = [kind |-> "uri", dir |-> Old, file |-> f]
        BY <3>2 DEF Playlist!Line
      <4>2. l.kind = "uri" /\ l = [kind |-> l.kind, dir |-> l.dir, file |-> l.file]
        BY <4>1
      <4> QED BY <4>2 DEF LineOK, LineKinds
    <3> QED BY Zenon, <2>1, <3>1, <3>2 DEF Playlist!Lines
  <2> DEFINE t == Append(text, l)
  <2>4. IsSeq(t) /\ ToSet(t) = ToSet(text) \cup {l}
    BY <1>1, AppendIsSeq DEF TextOK
  <2>5. TextOK(t)
    BY <1>1, <2>3, <2>4 DEF TextOK
  <2> HIDE DEF t
  <2>6. text' = t
    BY <2>1 DEF t
  <2> QED BY <1>1, <2>2, <2>5, <2>6 DEF PlaylistOK
<1>6. CASE Playlist!Anew
  BY <1>1, <1>6, EmptyOK DEF Playlist!Anew, PlaylistOK
<1>7. CASE UNCHANGED playlistVars
  BY <1>1, <1>7 DEF playlistVars, PlaylistOK
<1> QED BY <1>2, <1>3, <1>4, <1>5, <1>6, <1>7 DEF Playlist!Next

-----------------------------------------------------------------------------
(* The components together.                                                *)

\* A step of Codecs is a step of one of its components and a stutter of the others.
LEMMA CodecsStep ==
    ASSUME [CodecsNext]_codecsVars
    PROVE  /\ [Next]_vars
           /\ Messages!Next \/ UNCHANGED messageVars
           /\ Rpc!Next \/ UNCHANGED rpcVars
           /\ [Playlist!Next]_playlistVars
<1>1. CASE UNCHANGED codecsVars
  BY <1>1 DEF codecsVars
<1>2. CASE CodecsNext
  <2>1. CASE Next /\ UNCHANGED <<messageVars, rpcVars, playlistVars>>
    BY <2>1
  <2>2. CASE Messages!Next /\ UNCHANGED <<vars, rpcVars, playlistVars>>
    BY <2>2
  <2>3. CASE Rpc!Next /\ UNCHANGED <<vars, messageVars, playlistVars>>
    BY <2>3
  <2>4. CASE Playlist!Next /\ UNCHANGED <<vars, messageVars, rpcVars>>
    BY <2>4
  <2> QED BY <1>2, <2>1, <2>2, <2>3, <2>4 DEF CodecsNext
<1> QED BY <1>1, <1>2

\* Codecs runs the classes of odb as OdbDatabase does.
LEMMA OdbRuns == CodecsSpec => Spec
<1>1. CodecsInit => Init
  BY DEF CodecsInit
<1>2. [CodecsNext]_codecsVars => [Next]_vars
  BY CodecsStep
<1> QED BY <1>1, <1>2, PTL DEF CodecsSpec, Spec

\* BindingsFresh of the composition, for any objects, any lengths of strings and any number of
\* calls: what the versions of student-odb.cxx say is up to date is up to date, for every
\* statement of every class, whichever of them replaced a buffer last.
THEOREM BindingsStayFresh == CodecsSpec => []BindingsFresh
BY OdbRuns, FreshBindings, PTL

\* StoredIsLoaded of the composition: what persist and update store comes back from the columns
\* it was stored in, and no buffer that was replaced is read.
THEOREM StoredStaysLoaded == CodecsSpec => []StoredIsLoaded
BY OdbRuns, StoredComesBack, PTL

\* The objects of MessageObjects are always messages, and the bytes records that can be read.
LEMMA AlwaysMessages == CodecsSpec => []MessagesOK
<1>1. CodecsInit => MessagesOK
  BY MessagesInit DEF CodecsInit
<1>2. MessagesOK /\ [CodecsNext]_codecsVars => MessagesOK'
  <2> SUFFICES ASSUME MessagesOK, [CodecsNext]_codecsVars PROVE MessagesOK'
    OBVIOUS
  <2>1. CASE Messages!Next
    BY <2>1, MessagesStep
  <2>2. CASE UNCHANGED messageVars
    BY <2>2 DEF messageVars, MessagesOK
  <2> QED BY <2>1, <2>2, CodecsStep
<1> QED BY <1>1, <1>2, PTL DEF CodecsSpec

\* RoundTrip, for any texts, numbers and records of other peers, and int32 of any width: what a
\* message whose strings are UTF-8 is serialized to is parsed to the same message (person,
\* _InternalSerialize and _InternalParse of test.pb.cc), also behind peers that know only the
\* name (HelloRequest, HelloResponse); one with other strings is not parsed.
THEOREM MessagesComeBack == CodecsSpec => []RoundTrip
<1>1. MessagesOK => RoundTrip
  BY MessagesKept
<1> QED BY <1>1, AlwaysMessages, PTL

\* ConcatenationMerges, for any constants: two serialized messages in a row are parsed to what
\* MergeFrom makes of them (person::_InternalParse, person::MergeFrom).
THEOREM ConcatenationIsMerge == CodecsSpec => []ConcatenationMerges
<1>1. MessagesOK => ConcatenationMerges
  BY MessagesKept
<1> QED BY <1>1, AlwaysMessages, PTL

\* AnswerIsOwn, for any calls and numbers, however packets are lost, delayed, repeated or
\* reordered and calls are tried again: the closure of a call runs not more than once, with an
\* error or with the sum of its own request (CalculatorServiceImpl, ClosureFactory).
THEOREM AnswersAreOwn == CodecsSpec => []AnswerIsOwn
<1>1. CodecsInit => RpcOK
  BY RpcInit DEF CodecsInit
<1>2. RpcOK /\ [CodecsNext]_codecsVars => RpcOK'
  <2> SUFFICES ASSUME RpcOK, [CodecsNext]_codecsVars PROVE RpcOK'
    OBVIOUS
  <2>1. CASE Rpc!Next
    BY <2>1, RpcStep
  <2>2. CASE UNCHANGED rpcVars
    BY <2>2 DEF rpcVars, RpcOK, PacketOK, JobOK, EndedOK
  <2> QED BY <2>1, <2>2, CodecsStep
<1>3. RpcOK => AnswerIsOwn
  BY RpcKept
<1> QED BY <1>1, <1>2, <1>3, PTL DEF CodecsSpec

\* PlaylistKept, for any lines, in any order and number, read, rebased and serialized again and
\* again: a regular playlist comes back line by line but for directories, and whatever the
\* parser wrote is read as the same headers, segments and end (M3U8Parser).
THEOREM PlaylistsAreKept == CodecsSpec => []PlaylistKept
<1>1. CodecsInit => PlaylistOK
  BY PlaylistInit DEF CodecsInit
<1>2. PlaylistOK /\ [CodecsNext]_codecsVars => PlaylistOK'
  BY PlaylistStep, CodecsStep
<1>3. PlaylistOK => PlaylistKept
  BY PlaylistKeptIs
<1> QED BY <1>1, <1>2, <1>3, PTL DEF CodecsSpec
=============================================================================
