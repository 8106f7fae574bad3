--------------------------- MODULE TuitionProofs ----------------------------
(***************************************************************************)
(* Proofs about the two components that say what a contract owes and what  *)
(* was paid for it: Enrollment first, then FinanceLedger.                  *)
(***************************************************************************)
EXTENDS Enrollment, FinanceLedger, FiniteSetTheorems, WellFoundedInduction, TLAPS

-----------------------------------------------------------------------------
(***************************************************************************)
(* Proofs about Enrollment, for any students, classes, plans, capacities,  *)
(* dates and numbers of contracts.                                         *)
(*                                                                         *)
(* The step that matters is the end of a contract: it sets a boundary and  *)
(* an end date, and neither may cut away a session that was owed.  This    *)
(* holds because a contract that is active has no boundary, no end date    *)
(* and was not set aside (OpenEnded), so nothing was cut away before, and  *)
(* the boundary comes after every completed session (BoundaryBehind).      *)
(***************************************************************************)

-----------------------------------------------------------------------------
(* Sets of session numbers. *)

LEMMA Plans == \A c \in Class : Planned[c] \in Nat \ {0}
BY BoundsAssumption

LEMMA MaxBounded ==
    ASSUME NEW n \in Nat, NEW S, S \subseteq 1 .. n, S # {}
    PROVE  Max(S) \in S /\ \A y \in S : y <= Max(S)
<1> DEFINE T == {n - y : y \in S}
<1>1. T \subseteq Nat /\ T # {}
  <2>1. \A y \in S : n - y \in Nat
    <3>1. \A y \in 1 .. n : n - y \in Nat
      OBVIOUS
    <3> QED BY <3>1
  <2> QED BY <2>1
<1> HIDE DEF T
<1>2. PICK t \in T : \A u \in T : <<u, t>> \notin OpToRel(<, Nat)
  BY <1>1, WFMin, NatLessThanWellFounded, Zenon
<1>3. \A u \in T : ~(u < t)
  BY <1>1, <1>2, Zenon DEF OpToRel
<1>4. PICK x \in S : t = n - x
  BY DEF T
<1>5. \A y \in S : n - y \in T
  BY DEF T
<1>6. \A y \in S : x >= y
  BY <1>3, <1>4, <1>5
<1>7. Max(S) \in S /\ \A y \in S : Max(S) >= y
  BY <1>6 DEF Max
<1>8. S \subseteq Int
  OBVIOUS
<1> QED BY <1>7, <1>8

LEMMA ContractFields ==
    ASSUME NEW x \in ContractRow
    PROVE  /\ x.student \in Student /\ x.class \in Class
           /\ x.from \in Number(x.class) /\ x.until \in Number(x.class)
           /\ x.status \in {"active", "withdrawn", "completed"}
           /\ x.end \in Day \cup {Unset} /\ x.wd \in Unset .. Planned[x.class] + 1
           /\ x.into \in Unset .. MaxContracts
           /\ x.freezes \subseteq [from : Number(x.class), to : {Unset} \cup Number(x.class)]
           /\ x.from \in Nat \ {0} /\ x.until \in Nat \ {0}
<1>1. PICK c \in Class :
           x \in [student : Student, class : {c}, from : Number(c), until : Number(c),
                  status : {"active", "withdrawn", "completed"}, end : Day \cup {Unset},
                  wd : Unset .. Planned[c] + 1, into : Unset .. MaxContracts,
                  freezes : SUBSET [from : Number(c), to : {Unset} \cup Number(c)]]
  BY DEF ContractRow
<1>2. x.class = c /\ x.student \in Student /\ x.from \in Number(c) /\ x.until \in Number(c)
  BY <1>1
<1>3. /\ x.status \in {"active", "withdrawn", "completed"}
      /\ x.end \in Day \cup {Unset} /\ x.wd \in Unset .. Planned[c] + 1
      /\ x.into \in Unset .. MaxContracts
      /\ x.freezes \subseteq [from : Number(c), to : {Unset} \cup Number(c)]
  BY <1>1
<1>4. Number(c) \subseteq Nat \ {0}
  BY Plans DEF Number
<1> QED BY <1>2, <1>3, <1>4

(* The boundary comes after every completed session of the contract. *)
LEMMA BoundaryBehind ==
    ASSUME NEW x \in ContractRow
    PROVE  /\ Boundary(x) \in Unset .. Planned[x.class] + 1 /\ Boundary(x) # Unset
           /\ \A n \in CompletedIn(x.class) \cap Span(x) : n < Boundary(x)
<1> DEFINE done == CompletedIn(x.class) \cap Span(x)
<1>1. Planned[x.class] \in Nat \ {0} /\ x.from \in 1 .. Planned[x.class]
  BY ContractFields, Plans DEF Number
<1>2. done \subseteq 1 .. Planned[x.class]
  BY DEF CompletedIn, Number
<1>3. Boundary(x) = IF done = {} THEN x.from ELSE Max(done) + 1
  BY DEF Boundary
<1> HIDE DEF done
<1>4. CASE done = {}
  BY <1>1, <1>3, <1>4 DEF Unset, done
<1>5. CASE done # {}
  <2>1. Max(done) \in done /\ \A y \in done : y <= Max(done)
    BY <1>1, <1>2, <1>5, MaxBounded
  <2>2. Max(done) \in 1 .. Planned[x.class] /\ \A y \in done : y \in Int
    <3>1. 1 .. Planned[x.class] \subseteq Int
      OBVIOUS
    <3> QED BY <1>2, <2>1, <3>1
  <2>3. Boundary(x) = Max(done) + 1
    BY <1>3, <1>5
  <2>4. \A y \in done : y < Boundary(x)
    BY <2>1, <2>2, <2>3
  <2> QED BY <1>1, <2>2, <2>3, <2>4 DEF Unset, done
<1> QED BY <1>4, <1>5

LEMMA NextSessionTyped ==
    ASSUME NEW c \in Class, NextSession(c) <= Planned[c]
    PROVE  NextSession(c) \in Number(c)
<1>1. Planned[c] \in Nat \ {0} /\ CompletedIn(c) \subseteq 1 .. Planned[c]
  BY Plans DEF CompletedIn, Number
<1>2. CASE CompletedIn(c) = {}
  BY <1>1, <1>2 DEF NextSession, Number
<1>3. CASE CompletedIn(c) # {}
  <2>1. Max(CompletedIn(c)) \in 1 .. Planned[c]
    BY <1>1, <1>3, MaxBounded
  <2>2. NextSession(c) = Max(CompletedIn(c)) + 1
    BY <1>3 DEF NextSession
  <2> QED BY <1>1, <2>1, <2>2 DEF Number
<1> QED BY <1>2, <1>3

-----------------------------------------------------------------------------
(* The inductive invariant.  Its part about contracts is stated for any      *)
(* contracts f and any archived classes, since some steps change two         *)
(* contracts, or a class with them.                                          *)

OpenEnded(x) == x.wd = Unset /\ x.end = Unset /\ x.into = Unset

Sound(f, closed) ==
    /\ \A k \in DOMAIN f : f[k] \in ContractRow /\ f[k].from <= f[k].until
    /\ \A k \in DOMAIN f : f[k].status = "active" => OpenEnded(f[k]) /\ f[k].class \notin closed
    /\ \A k \in DOMAIN f : f[k].into # Unset => f[k].status = "withdrawn"
    /\ \A j, k \in DOMAIN f :
          (/\ f[j].student = f[k].student /\ f[j].class = f[k].class
           /\ f[j].status = "active" /\ f[k].status = "active") => j = k

Others ==
    /\ day \in Day
    /\ deleted \subseteq Student /\ archived \subseteq Class
    /\ DOMAIN lesson = Class /\ \A c \in Class : lesson[c] \in [Number(c) -> Lesson]
    /\ transfers \subseteq Made \X Made

EnrollInv == Others /\ (\E k \in 0 .. MaxContracts : Made = 1 .. k) /\ Sound(contract, archived)

-----------------------------------------------------------------------------
(* What the steps make of contracts. *)

LEMMA NewContractSound ==
    ASSUME NEW s \in Student, NEW c \in Class, NEW a \in Number(c), NEW b \in Number(c)
    PROVE  NewContract(s, c, a, b) \in ContractRow
<1>1. Unset \in Unset .. Planned[c] + 1 /\ Unset \in Unset .. MaxContracts
  BY Plans, BoundsAssumption DEF Unset
<1> QED BY <1>1 DEF NewContract, ContractRow

(* A contract with another status, boundary, end, lineage or freezes. *)
LEMMA Changed ==
    ASSUME NEW x \in ContractRow, NEW st \in {"active", "withdrawn", "completed"},
           NEW e \in Day \cup {Unset}, NEW b \in Unset .. Planned[x.class] + 1,
           NEW m \in Unset .. MaxContracts,
           NEW fr \in SUBSET [from : Number(x.class), to : {Unset} \cup Number(x.class)]
    PROVE  LET y == [student |-> x.student, class |-> x.class, from |-> x.from, until |-> x.until,
                     status |-> st, end |-> e, wd |-> b, into |-> m, freezes |-> fr]
           IN  y \in ContractRow
BY ContractFields DEF ContractRow

(* A contract is the record of its fields. *)
LEMMA Fields ==
    ASSUME NEW x \in ContractRow
    PROVE  x = [student |-> x.student, class |-> x.class, from |-> x.from, until |-> x.until,
                status |-> x.status, end |-> x.end, wd |-> x.wd, into |-> x.into,
                freezes |-> x.freezes]
BY DEF ContractRow

LEMMA CloseSound ==
    ASSUME NEW x \in ContractRow, day \in Day, NEW st \in {"withdrawn", "completed"},
           NEW b \in Unset .. Planned[x.class] + 1
    PROVE  /\ Close(x, st, b) \in ContractRow
           /\ Close(x, st, b) = [student |-> x.student, class |-> x.class, from |-> x.from,
                                 until |-> x.until, status |-> st, end |-> day, wd |-> b,
                                 into |-> x.into, freezes |-> x.freezes]
<1> DEFINE y == [student |-> x.student, class |-> x.class, from |-> x.from, until |-> x.until,
                 status |-> st, end |-> day, wd |-> b, into |-> x.into, freezes |-> x.freezes]
<1>1. y \in ContractRow
  BY Changed, ContractFields
<1> DEFINE x1 == [x EXCEPT !.status = st]
           x2 == [x1 EXCEPT !.end = day]
<1>2. x1 = [student |-> x.student, class |-> x.class, from |-> x.from, until |-> x.until,
            status |-> st, end |-> x.end, wd |-> x.wd, into |-> x.into, freezes |-> x.freezes]
  BY Fields
<1> HIDE DEF x1
<1>3. x2 = [student |-> x.student, class |-> x.class, from |-> x.from, until |-> x.until,
            status |-> st, end |-> day, wd |-> x.wd, into |-> x.into, freezes |-> x.freezes]
  BY <1>2
<1> HIDE DEF x2
<1>4. [x2 EXCEPT !.wd = b] = y
  BY <1>3
<1>5. Close(x, st, b) = [x2 EXCEPT !.wd = b]
  BY DEF Close, x1, x2
<1> QED BY <1>1, <1>4, <1>5

(* One contract changes, for the same student and class. *)
LEMMA OneChanges ==
    ASSUME NEW f, NEW closed, Sound(f, closed), NEW k \in DOMAIN f, NEW y \in ContractRow,
           y.student = f[k].student, y.class = f[k].class, y.from <= y.until,
           y.into # Unset => y.status = "withdrawn",
           y.status = "active" =>
               /\ OpenEnded(y) /\ y.class \notin closed
               /\ \A j \in DOMAIN f \ {k} : ~(/\ f[j].student = y.student /\ f[j].class = y.class
                                              /\ f[j].status = "active")
    PROVE  Sound([f EXCEPT ![k] = y], closed)
BY DEF Sound

LEMMA OneAdded ==
    ASSUME NEW n \in Nat, NEW f, DOMAIN f = 1 .. n, NEW closed, Sound(f, closed),
           NEW y \in ContractRow, y.from <= y.until, y.status = "active", OpenEnded(y),
           y.class \notin closed,
           \A j \in DOMAIN f : ~(/\ f[j].student = y.student /\ f[j].class = y.class
                                 /\ f[j].status = "active")
    PROVE  /\ Sound(Append1(f, y), closed) /\ DOMAIN Append1(f, y) = 1 .. n + 1
           /\ \A j \in DOMAIN f : Append1(f, y)[j] = f[j]
<1>1. Cardinality(DOMAIN f) = n
  <2>1. n \in Int /\ 1 \in Int
    OBVIOUS
  <2>2. Cardinality(1 .. n) = IF 1 > n THEN 0 ELSE n - 1 + 1
    BY <2>1, FS_Interval, ZenonT(30)
  <2> QED BY <2>2
<1> DEFINE g == Append1(f, y)
<1>2. /\ DOMAIN g = 1 .. n + 1 /\ g[n + 1] = y /\ \A j \in 1 .. n : g[j] = f[j]
      /\ \A j \in 1 .. n + 1 : j \in 1 .. n \/ j = n + 1
  BY <1>1 DEF Append1
<1> HIDE DEF g
<1>3. \A j \in DOMAIN g : (g[j] = y /\ j = n + 1) \/ (j \in DOMAIN f /\ g[j] = f[j])
  <2> SUFFICES ASSUME NEW j \in DOMAIN g
               PROVE  (g[j] = y /\ j = n + 1) \/ (j \in DOMAIN f /\ g[j] = f[j])
    OBVIOUS
  <2>1. CASE j \in 1 .. n
    BY <1>2, <2>1
  <2>2. CASE j = n + 1
    BY <1>2, <2>2
  <2> QED BY <1>2, <2>1, <2>2
<1>4. \A k \in DOMAIN g : g[k] \in ContractRow /\ g[k].from <= g[k].until
  BY <1>3 DEF Sound
<1>5. \A k \in DOMAIN g : g[k].status = "active" => OpenEnded(g[k]) /\ g[k].class \notin closed
  BY <1>3 DEF Sound
<1>6. \A k \in DOMAIN g : g[k].into # Unset => g[k].status = "withdrawn"
  BY <1>3 DEF Sound, OpenEnded
<1>7. \A j, k \in DOMAIN g :
          (/\ g[j].student = g[k].student /\ g[j].class = g[k].class
           /\ g[j].status = "active" /\ g[k].status = "active") => j = k
  <2> SUFFICES ASSUME NEW j \in DOMAIN g, NEW k \in DOMAIN g,
                      g[j].student = g[k].student, g[j].class = g[k].class,
                      g[j].status = "active", g[k].status = "active"
               PROVE  j = k
    OBVIOUS
  <2>1. CASE g[j] = y /\ j = n + 1
    BY <1>3, <2>1
  <2>2. CASE j \in DOMAIN f /\ g[j] = f[j]
    BY <1>3, <2>2 DEF Sound
  <2> QED BY <1>3, <2>1, <2>2
<1>8. Sound(g, closed)
  BY <1>4, <1>5, <1>6, <1>7 DEF Sound
<1> QED BY <1>2, <1>8 DEF g

-----------------------------------------------------------------------------
(* The invariant holds at first. *)

LEMMA InitInv == EnrollmentInit => EnrollInv
<1> SUFFICES ASSUME EnrollmentInit PROVE EnrollInv
  OBVIOUS
<1>1. DOMAIN lesson = Class /\ \A c \in Class : lesson[c] \in [Number(c) -> Lesson]
  BY DEF EnrollmentInit, Lesson
<1>2. transfers \subseteq Made \X Made /\ day \in Day
  BY BoundsAssumption DEF EnrollmentInit, Day
<1>3. Others
  BY <1>1, <1>2 DEF EnrollmentInit, Others
<1>4. CASE contract = << >>
  <2>1. Made = 1 .. 0 /\ 0 \in 0 .. MaxContracts
    BY <1>4, BoundsAssumption DEF Made
  <2>2. DOMAIN contract = {}
    BY <1>4
  <2> QED BY <1>3, <2>1, <2>2 DEF EnrollInv, Sound
<1>5. ASSUME NEW s \in Student, NEW c \in Class, Legacy, contract = Duplicate(s, c)
      PROVE  EnrollInv
  <2> DEFINE y == NewContract(s, c, 1, Planned[c])
             x == [y EXCEPT !.status = "withdrawn", !.end = 1]
  <2>1. 1 \in Number(c) /\ Planned[c] \in Number(c) /\ 1 <= Planned[c]
    BY Plans DEF Number
  <2>2. y \in ContractRow
    BY <2>1, NewContractSound
  <2>3. x = [student |-> s, class |-> c, from |-> 1, until |-> Planned[c],
             status |-> "withdrawn", end |-> 1, wd |-> Unset, into |-> Unset, freezes |-> {}]
    <3> DEFINE w == [y EXCEPT !.status = "withdrawn"]
    <3>1. w = [student |-> s, class |-> c, from |-> 1, until |-> Planned[c],
               status |-> "withdrawn", end |-> Unset, wd |-> Unset, into |-> Unset,
               freezes |-> {}]
      BY DEF NewContract
    <3>2. x = [w EXCEPT !.end = 1]
      OBVIOUS
    <3> HIDE DEF w
    <3> QED BY <3>1, <3>2
  <2>4. x \in ContractRow
    <3>1. /\ Unset \in Unset .. Planned[c] + 1 /\ Unset \in Unset .. MaxContracts
          /\ 1 \in Day \cup {Unset}
      BY Plans, BoundsAssumption DEF Unset, Day
    <3> DEFINE t == [student : Student, class : {c}, from : Number(c), until : Number(c),
                     status : {"active", "withdrawn", "completed"}, end : Day \cup {Unset},
                     wd : Unset .. Planned[c] + 1, into : Unset .. MaxContracts,
                     freezes : SUBSET [from : Number(c), to : {Unset} \cup Number(c)]]
    <3> HIDE DEF x
    <3>2. x \in t
      BY <2>1, <2>3, <3>1
    <3> QED BY <3>2 DEF ContractRow
  <2>5. contract = <<x, y>>
    BY <1>5 DEF Duplicate
  <2>6. y.status = "active" /\ OpenEnded(y) /\ y.from = 1 /\ y.until = Planned[c]
    BY DEF NewContract, OpenEnded
  <2>7. x.status = "withdrawn" /\ x.from = 1 /\ x.until = Planned[c] /\ x.into = Unset
    BY <2>3
  <2> HIDE DEF x, y
  <2>8. DOMAIN contract = {1, 2} /\ contract[1] = x /\ contract[2] = y
    BY <2>5
  <2>9. Sound(contract, archived)
    <3>1. archived = {}
      BY DEF EnrollmentInit
    <3> QED BY <2>1, <2>2, <2>4, <2>6, <2>7, <2>8, <3>1 DEF Sound, OpenEnded
  <2>10. Made = 1 .. 2 /\ 2 \in 0 .. MaxContracts
    BY <1>5, <2>8, BoundsAssumption DEF Made
  <2> QED BY <1>3, <2>9, <2>10 DEF EnrollInv
<1> QED BY <1>4, <1>5 DEF EnrollmentInit

-----------------------------------------------------------------------------
(* The invariant is kept, by the kind of the step. *)

(* No contract changes and no class is archived. *)
LEMMA ContractsKept ==
    ASSUME EnrollInv, UNCHANGED <<contract, transfers>>, archived' \subseteq archived,
           deleted' \subseteq Student, day' \in Day,
           DOMAIN lesson' = Class /\ \A c \in Class : lesson'[c] \in [Number(c) -> Lesson]
    PROVE  EnrollInv'
<1>1. Sound(contract', archived')
  BY DEF EnrollInv, Sound
<1>2. Made' = Made
  BY DEF Made
<1>3. Others'
  BY <1>2 DEF EnrollInv, Others
<1> QED BY <1>1, <1>2, <1>3 DEF EnrollInv

(* One session changes. *)
LEMMA LessonsKept ==
    ASSUME EnrollInv, NEW c \in Class, NEW n \in Number(c), NEW l \in Lesson,
           SetLesson(c, n, l)
    PROVE  EnrollInv'
<1>1. lesson' = [lesson EXCEPT ![c] = [@ EXCEPT ![n] = l]]
  BY DEF SetLesson
<1>2. [lesson[c] EXCEPT ![n] = l] \in [Number(c) -> Lesson]
  BY DEF EnrollInv, Others
<1>3. DOMAIN lesson' = Class /\ \A d \in Class : lesson'[d] \in [Number(d) -> Lesson]
  BY <1>1, <1>2 DEF EnrollInv, Others
<1> QED BY <1>3, ContractsKept DEF SetLesson, EnrollInv, Others

(* One contract changes. *)
LEMMA OneKept ==
    ASSUME EnrollInv, NEW k \in Made, NEW y \in ContractRow,
           y.student = contract[k].student, y.class = contract[k].class, y.from <= y.until,
           y.into # Unset => y.status = "withdrawn",
           y.status = "active" =>
               /\ OpenEnded(y) /\ y.class \notin archived
               /\ \A j \in Made \ {k} : ~(/\ contract[j].student = y.student
                                          /\ contract[j].class = y.class
                                          /\ contract[j].status = "active"),
           contract' = [contract EXCEPT ![k] = y],
           UNCHANGED <<day, deleted, archived, lesson, excused, transfers>>
    PROVE  EnrollInv'
<1>1. Sound([contract EXCEPT ![k] = y], archived)
  <2>1. Sound(contract, archived) /\ k \in DOMAIN contract /\ Made = DOMAIN contract
    BY DEF EnrollInv, Made
  <2>2. y.status = "active" =>
               /\ OpenEnded(y) /\ y.class \notin archived
               /\ \A j \in DOMAIN contract \ {k} : ~(/\ contract[j].student = y.student
                                          /\ contract[j].class = y.class
                                          /\ contract[j].status = "active")
    BY <2>1
  <2> QED BY <2>1, <2>2, OneChanges
<1>2. Made' = Made
  BY DEF Made
<1>3. Others'
  BY <1>2 DEF EnrollInv, Others
<1> QED BY <1>1, <1>2, <1>3 DEF EnrollInv

(* A contract is closed. *)
LEMMA ClosedKept ==
    ASSUME EnrollInv, NEW k \in Made, NEW st \in {"withdrawn", "completed"},
           contract[k].status = "active",
           NEW b \in Unset .. Planned[contract[k].class] + 1
    PROVE  LET y == Close(contract[k], st, b)
           IN  /\ y \in ContractRow /\ y.student = contract[k].student
               /\ y.class = contract[k].class /\ y.from = contract[k].from
               /\ y.until = contract[k].until /\ y.into = Unset /\ y.status = st
               /\ y.end = day /\ y.wd = b /\ y.freezes = contract[k].freezes
               /\ y.from <= y.until
<1>1. contract[k] \in ContractRow /\ contract[k].from <= contract[k].until /\ day \in Day
      /\ contract[k].into = Unset
  BY DEF EnrollInv, Sound, Made, OpenEnded, Others
<1>2. Close(contract[k], st, b) \in ContractRow
      /\ Close(contract[k], st, b)
           = [student |-> contract[k].student, class |-> contract[k].class,
              from |-> contract[k].from, until |-> contract[k].until, status |-> st,
              end |-> day, wd |-> b, into |-> contract[k].into,
              freezes |-> contract[k].freezes]
  BY <1>1, CloseSound
<1> QED BY <1>1, <1>2

(* A contract is added. *)
LEMMA OneMore ==
    ASSUME EnrollInv, CanMake, NEW f, DOMAIN f = Made, Sound(f, archived), NEW y \in ContractRow,
           y.from <= y.until, y.status = "active", OpenEnded(y), y.class \notin archived,
           \A j \in Made : ~(/\ f[j].student = y.student /\ f[j].class = y.class
                             /\ f[j].status = "active"),
           contract' = Append1(f, y), archived' = archived, deleted' = deleted,
           lesson' = lesson, day' = day,
           transfers' \subseteq transfers \cup (Made \X {Cardinality(Made) + 1})
    PROVE  EnrollInv'
<1>1. PICK n \in 0 .. MaxContracts : Made = 1 .. n
  BY DEF EnrollInv
<1>2. n \in Nat /\ Cardinality(Made) = n
  <2>1. n \in Nat /\ Cardinality(1 .. n) = IF 1 > n THEN 0 ELSE n - 1 + 1
    BY FS_Interval, BoundsAssumption
  <2> QED BY <1>1, <2>1
<1>3. n + 1 \in 0 .. MaxContracts
  BY <1>1, <1>2, BoundsAssumption DEF CanMake
<1>4. Sound(contract', archived') /\ DOMAIN contract' = 1 .. n + 1
  BY <1>1, <1>2, OneAdded
<1>5. Made' = 1 .. n + 1
  BY <1>4 DEF Made
<1>6. Made \subseteq Made' /\ n + 1 \in Made'
  BY <1>1, <1>2, <1>5
<1>7. transfers' \subseteq Made' \X Made'
  BY <1>2, <1>6 DEF EnrollInv, Others
<1>8. Others'
  BY <1>7 DEF EnrollInv, Others
<1> QED BY <1>3, <1>4, <1>5, <1>8 DEF EnrollInv

-----------------------------------------------------------------------------
(* The invariant is kept by each operation. *)

LEMMA CloseKept ==
    ASSUME EnrollInv, NEW k \in Made, NEW st \in {"withdrawn", "completed"},
           contract[k].status = "active",
           NEW b \in Unset .. Planned[contract[k].class] + 1,
           contract' = [contract EXCEPT ![k] = Close(contract[k], st, b)],
           UNCHANGED <<day, deleted, archived, lesson, excused, transfers>>
    PROVE  EnrollInv'
<1> DEFINE y == Close(contract[k], st, b)
<1>1. /\ y \in ContractRow /\ y.student = contract[k].student /\ y.class = contract[k].class
      /\ y.into = Unset /\ y.status = st /\ y.from <= y.until
  BY ClosedKept
<1>2. contract' = [contract EXCEPT ![k] = y]
  OBVIOUS
<1> HIDE DEF y
<1>3. y.status # "active"
  BY <1>1
<1> QED BY <1>1, <1>2, <1>3, OneKept

LEMMA WithdrawKept ==
    ASSUME EnrollInv, NEW k \in Made, Withdraw(k) \/ Complete(k)
    PROVE  EnrollInv'
<1>1. contract[k] \in ContractRow
  BY DEF EnrollInv, Sound, Made
<1>2. CASE Withdraw(k)
  <2>1. Boundary(contract[k]) \in Unset .. Planned[contract[k].class] + 1
    BY <1>1, BoundaryBehind
  <2>2. contract' = [contract EXCEPT ![k] = Close(contract[k], "withdrawn", Boundary(contract[k]))]
    BY <1>2 DEF Withdraw, Made
  <2> QED BY <1>2, <2>1, <2>2, CloseKept DEF Withdraw, CanClose
<1>3. CASE Complete(k)
  <2>1. contract[k].wd \in Unset .. Planned[contract[k].class] + 1
    BY <1>1, ContractFields
  <2>2. contract' = [contract EXCEPT ![k] = Close(contract[k], "completed", contract[k].wd)]
    BY <1>3 DEF Complete, Made
  <2> QED BY <1>3, <2>1, <2>2, CloseKept DEF Complete, CanClose
<1> QED BY <1>2, <1>3

LEMMA EnrollKept ==
    ASSUME EnrollInv, NEW s \in Student, NEW c \in Class, NEW a \in Number(c),
           NEW b \in Number(c), Enroll(s, c, a, b)
    PROVE  EnrollInv'
<1> DEFINE y == NewContract(s, c, a, b)
<1>1. y \in ContractRow
  BY NewContractSound
<1>2. /\ y.status = "active" /\ OpenEnded(y) /\ y.class = c /\ y.student = s
      /\ y.from = a /\ y.until = b
  BY DEF NewContract, OpenEnded
<1>3. contract' = Append1(contract, y)
  BY DEF Enroll
<1> HIDE DEF y
<1>4. Sound(contract, archived) /\ DOMAIN contract = Made
  BY DEF EnrollInv, Made
<1>5. \A j \in Made : ~(/\ contract[j].student = y.student /\ contract[j].class = y.class
                        /\ contract[j].status = "active")
  BY <1>2 DEF Enroll, IsActive
<1>6. a <= b /\ c \notin archived /\ CanMake
      /\ UNCHANGED <<day, deleted, archived, lesson, excused, transfers>>
  BY DEF Enroll
<1> QED BY <1>1, <1>2, <1>3, <1>4, <1>5, <1>6, OneMore

LEMMA RestoreKept ==
    ASSUME EnrollInv, NEW k \in Made, Restore(k)
    PROVE  EnrollInv'
<1> DEFINE x == contract[k]
           y == [student |-> x.student, class |-> x.class, from |-> x.from, until |-> x.until,
                 status |-> "active", end |-> Unset, wd |-> Unset, into |-> x.into,
                 freezes |-> x.freezes]
<1>1. x \in ContractRow /\ x.from <= x.until
  BY DEF EnrollInv, Sound, Made
<1>2. y \in ContractRow
  <2>1. Unset \in Unset .. Planned[x.class] + 1 /\ Unset \in Day \cup {Unset}
    BY <1>1, ContractFields, Plans DEF Unset
  <2> QED BY <1>1, <2>1, Changed, ContractFields
<1>3. contract' = [contract EXCEPT ![k] = y]
  <2> DEFINE x1 == [x EXCEPT !.status = "active"]
             x2 == [x1 EXCEPT !.end = Unset]
             x3 == [x2 EXCEPT !.wd = Unset]
  <2>1. contract' = [contract EXCEPT ![k] = x3]
    BY DEF Restore, Made
  <2>2. x1 = [student |-> x.student, class |-> x.class, from |-> x.from, until |-> x.until,
              status |-> "active", end |-> x.end, wd |-> x.wd, into |-> x.into,
              freezes |-> x.freezes]
    BY <1>1, Fields
  <2> HIDE DEF x1
  <2>3. x2 = [student |-> x.student, class |-> x.class, from |-> x.from, until |-> x.until,
              status |-> "active", end |-> Unset, wd |-> x.wd, into |-> x.into,
              freezes |-> x.freezes]
    BY <2>2
  <2> HIDE DEF x2
  <2>4. x3 = y
    BY <2>3
  <2> QED BY <2>1, <2>4
<1>4. /\ x.class \notin archived /\ x.into = Unset
      /\ \A j \in Made \ {k} : ~(/\ contract[j].student = y.student
                                 /\ contract[j].class = y.class
                                 /\ contract[j].status = "active")
      /\ UNCHANGED <<day, deleted, archived, lesson, excused, transfers>>
  BY DEF Restore, Of, IsActive
<1>5. OpenEnded(y) /\ y.class = x.class /\ y.student = x.student /\ y.from <= y.until
      /\ y.into = Unset
  BY <1>1, <1>4 DEF OpenEnded
<1> HIDE DEF y
<1> QED BY <1>2, <1>3, <1>4, <1>5, OneKept

LEMMA FreezeKept ==
    ASSUME EnrollInv, NEW k \in Made, NEW fr, contract[k].status = "active",
           fr \subseteq [from : Number(contract[k].class),
                         to : {Unset} \cup Number(contract[k].class)],
           contract' = [contract EXCEPT ![k] = [contract[k] EXCEPT !.freezes = fr]],
           UNCHANGED <<day, deleted, archived, lesson, excused, transfers>>
    PROVE  EnrollInv'
<1> DEFINE x == contract[k]
           y == [student |-> x.student, class |-> x.class, from |-> x.from, until |-> x.until,
                 status |-> x.status, end |-> x.end, wd |-> x.wd, into |-> x.into,
                 freezes |-> fr]
<1>1. x \in ContractRow /\ x.from <= x.until
  BY DEF EnrollInv, Sound, Made
<1>2. y \in ContractRow
  BY <1>1, Changed, ContractFields
<1>3. [x EXCEPT !.freezes = fr] = y
  BY <1>1, Fields
<1>4. /\ OpenEnded(x) /\ x.class \notin archived
      /\ \A j \in Made \ {k} : ~(/\ contract[j].student = x.student
                                 /\ contract[j].class = x.class
                                 /\ contract[j].status = "active")
  BY DEF EnrollInv, Sound, Made
<1>5. /\ y.student = x.student /\ y.class = x.class /\ y.from <= y.until
      /\ OpenEnded(y) /\ y.into = Unset
  BY <1>1, <1>4 DEF OpenEnded
<1> HIDE DEF y
<1> QED BY <1>2, <1>3, <1>4, <1>5, OneKept

LEMMA FreezesKept ==
    ASSUME EnrollInv, NEW k \in Made,
           (\E a \in Span(contract[k]), b \in {Unset} \cup Span(contract[k]) : Freeze(k, a, b))
             \/ (\E b \in Span(contract[k]) : Resume(k, b))
    PROVE  EnrollInv'
<1> DEFINE x == contract[k]
<1>1. x \in ContractRow
  BY DEF EnrollInv, Sound, Made
<1>2. /\ x.freezes \subseteq [from : Number(x.class), to : {Unset} \cup Number(x.class)]
      /\ x.from \in Number(x.class) /\ x.until \in Number(x.class)
      /\ Planned[x.class] \in Nat
  BY <1>1, ContractFields, Plans
<1>3. Span(x) \subseteq Number(x.class)
  BY <1>2 DEF Span, Number
<1>4. ASSUME NEW a \in Span(x), NEW b \in {Unset} \cup Span(x), Freeze(k, a, b)
      PROVE  EnrollInv'
  <2> DEFINE fr == x.freezes \cup {[from |-> a, to |-> b]}
  <2>1. fr \subseteq [from : Number(x.class), to : {Unset} \cup Number(x.class)]
    BY <1>2, <1>3
  <2>2. contract' = [contract EXCEPT ![k] = [contract[k] EXCEPT !.freezes = fr]]
    BY <1>4 DEF Freeze, Made
  <2>3. x.status = "active" /\ UNCHANGED <<day, deleted, archived, lesson, excused, transfers>>
    BY <1>4 DEF Freeze
  <2> HIDE DEF fr
  <2> QED BY <2>1, <2>2, <2>3, FreezeKept
<1>5. ASSUME NEW b \in Span(x), Resume(k, b)
      PROVE  EnrollInv'
  <2>1. PICK f \in OpenFreeze(x) :
            contract' = [contract EXCEPT ![k] = [contract[k] EXCEPT
                            !.freezes = (x.freezes \ {f}) \cup {[f EXCEPT !.to = b]}]]
    BY <1>5 DEF Resume, Made
  <2> DEFINE fr == (x.freezes \ {f}) \cup {[f EXCEPT !.to = b]}
  <2>2. f \in [from : Number(x.class), to : {Unset} \cup Number(x.class)]
    BY <1>2 DEF OpenFreeze
  <2>3. [f EXCEPT !.to = b] \in [from : Number(x.class), to : {Unset} \cup Number(x.class)]
    BY <1>3, <2>2
  <2>4. fr \subseteq [from : Number(x.class), to : {Unset} \cup Number(x.class)]
    BY <1>2, <2>3
  <2>5. x.status = "active" /\ UNCHANGED <<day, deleted, archived, lesson, excused, transfers>>
    BY <1>5 DEF Resume
  <2>6. contract' = [contract EXCEPT ![k] = [contract[k] EXCEPT !.freezes = fr]]
    BY <2>1
  <2> HIDE DEF fr
  <2> QED BY <2>4, <2>5, <2>6, FreezeKept
<1> QED BY <1>4, <1>5

LEMMA ReconcileKept ==
    ASSUME EnrollInv, NEW k \in Made, NEW m \in Made, ReconcileDuplicates(k, m)
    PROVE  EnrollInv'
<1> DEFINE x == contract[k]
           y == [student |-> x.student, class |-> x.class, from |-> x.from, until |-> x.until,
                 status |-> x.status, end |-> x.end, wd |-> x.wd, into |-> m,
                 freezes |-> x.freezes]
<1>1. x \in ContractRow /\ x.from <= x.until
  BY DEF EnrollInv, Sound, Made
<1>2. m \in Unset .. MaxContracts
  <2>1. PICK n \in 0 .. MaxContracts : Made = 1 .. n
    BY DEF EnrollInv
  <2> QED BY <2>1, BoundsAssumption DEF Unset
<1>3. y \in ContractRow
  BY <1>1, <1>2, Changed, ContractFields
<1>4. [x EXCEPT !.into = m] = y
  BY <1>1, Fields
<1>5. contract' = [contract EXCEPT ![k] = y]
  BY <1>4 DEF ReconcileDuplicates, Made
<1>6. x.status = "withdrawn" /\ UNCHANGED <<day, deleted, archived, lesson, excused, transfers>>
  BY DEF ReconcileDuplicates
<1>7. y.student = x.student /\ y.class = x.class /\ y.from <= y.until /\ y.status = "withdrawn"
  BY <1>1, <1>6
<1> HIDE DEF y
<1> QED BY <1>3, <1>5, <1>6, <1>7, OneKept

LEMMA TransferKept ==
    ASSUME EnrollInv, NEW k \in Made, NEW c \in Class, Transfer(k, c)
    PROVE  EnrollInv'
<1> DEFINE x == contract[k]
           z == Close(x, "withdrawn", Boundary(x))
           f == [contract EXCEPT ![k] = z]
           y == NewContract(x.student, c, NextSession(c), Planned[c])
<1>1. x \in ContractRow /\ x.student \in Student /\ Planned[c] \in Number(c)
  BY ContractFields, Plans DEF EnrollInv, Sound, Made, Number
<1>2. /\ CanMake /\ x.status = "active" /\ x.class # c /\ ~IsActive(x.student, c)
      /\ c \notin archived /\ NextSession(c) <= Planned[c]
      /\ contract' = Append1(f, y)
      /\ transfers' = transfers \cup {<<k, Cardinality(Made) + 1>>}
      /\ UNCHANGED <<day, deleted, archived, lesson, excused>>
  BY DEF Transfer, Made
<1>3. /\ z \in ContractRow /\ z.student = x.student /\ z.class = x.class /\ z.into = Unset
      /\ z.status = "withdrawn" /\ z.from <= z.until
  <2>1. Boundary(x) \in Unset .. Planned[x.class] + 1
    BY <1>1, BoundaryBehind
  <2> QED BY <1>2, <2>1, ClosedKept
<1> HIDE DEF z
<1>4. Sound(f, archived)
  <2>1. Sound(contract, archived) /\ k \in DOMAIN contract /\ z.status # "active"
    BY <1>3 DEF EnrollInv, Made
  <2> QED BY <1>3, <2>1, OneChanges
<1>5. NextSession(c) \in Number(c)
  BY <1>2, NextSessionTyped
<1>6. /\ y \in ContractRow /\ y.status = "active" /\ OpenEnded(y) /\ y.class = c
      /\ y.student = x.student /\ y.from <= y.until
  BY <1>1, <1>2, <1>5, NewContractSound DEF NewContract, OpenEnded
<1> HIDE DEF y
<1>7. DOMAIN f = Made
  BY DEF Made
<1>8. \A j \in Made : f[j] = IF j = k THEN z ELSE contract[j]
  BY DEF Made
<1> HIDE DEF f
<1>9. \A j \in Made : ~(/\ f[j].student = y.student /\ f[j].class = y.class
                        /\ f[j].status = "active")
  BY <1>2, <1>3, <1>6, <1>8 DEF IsActive
<1>10. transfers' \subseteq transfers \cup (Made \X {Cardinality(Made) + 1})
  BY <1>2
<1>11. archived' = archived /\ deleted' = deleted /\ lesson' = lesson /\ day' = day
  BY <1>2
<1>12. y.class \notin archived
  BY <1>2, <1>6
<1> QED BY <1>2, <1>4, <1>6, <1>7, <1>9, <1>10, <1>11, <1>12, OneMore

LEMMA ArchiveKept ==
    ASSUME EnrollInv, NEW c \in Class, ArchiveClass(c)
    PROVE  EnrollInv'
<1> DEFINE z(k) == Close(contract[k], "withdrawn", Boundary(contract[k]))
<1>1. ASSUME NEW k \in Seats(c)
      PROVE  /\ k \in Made /\ z(k) \in ContractRow /\ z(k).from <= z(k).until
             /\ z(k).status = "withdrawn"
  <2>1. k \in Made /\ contract[k].status = "active" /\ contract[k] \in ContractRow
    BY DEF Seats, EnrollInv, Sound, Made
  <2>2. Boundary(contract[k]) \in Unset .. Planned[contract[k].class] + 1
    BY <2>1, BoundaryBehind
  <2> QED BY <2>1, <2>2, ClosedKept
<1>2. /\ contract' = [k \in Made |-> IF k \in Seats(c) THEN z(k) ELSE contract[k]]
      /\ archived' = archived \cup {c} /\ UNCHANGED <<day, deleted, lesson, excused, transfers>>
  BY DEF ArchiveClass
<1> HIDE DEF z
<1>3. DOMAIN contract' = Made /\ \A k \in Made :
          contract'[k] = IF k \in Seats(c) THEN z(k) ELSE contract[k]
  BY <1>2
<1>4. \A k \in Made : contract'[k].status = "active" =>
          k \notin Seats(c) /\ contract'[k] = contract[k] /\ contract[k].class # c
  BY <1>1, <1>3 DEF Seats, EnrollInv, Sound, OpenEnded, Made
<1>5. Sound(contract', archived')
  <2>1. \A k \in Made : contract'[k] \in ContractRow /\ contract'[k].from <= contract'[k].until
    BY <1>1, <1>3 DEF EnrollInv, Sound, Made
  <2>2. \A k \in Made : contract'[k].status = "active" =>
            OpenEnded(contract'[k]) /\ contract'[k].class \notin archived'
    BY <1>2, <1>4 DEF EnrollInv, Sound, Made
  <2>3. \A k \in Made : contract'[k].into # Unset => contract'[k].status = "withdrawn"
    BY <1>1, <1>3 DEF EnrollInv, Sound, Made
  <2>4. \A j, k \in Made :
            (/\ contract'[j].student = contract'[k].student
             /\ contract'[j].class = contract'[k].class
             /\ contract'[j].status = "active" /\ contract'[k].status = "active") => j = k
    BY <1>4 DEF EnrollInv, Sound, Made
  <2> QED BY <1>3, <2>1, <2>2, <2>3, <2>4 DEF Sound
<1>6. Made' = Made
  BY <1>3 DEF Made
<1>7. Others'
  BY <1>2, <1>6 DEF EnrollInv, Others
<1> QED BY <1>5, <1>6, <1>7 DEF EnrollInv

(* Sessions, attendance, students and the clock leave the contracts alone. *)
LEMMA OthersKept ==
    ASSUME EnrollInv,
           \/ \E c \in Class : RestoreClass(c)
           \/ \E c \in Class, d \in Day, st \in LessonStatus :
                 CreateSession(c, st, d) \/ \E n \in Held(c) : UpdateSession(c, n, st, d)
           \/ \E c \in Class : \E n \in Held(c) : CancelSession(c, n) \/ DeleteSession(c, n)
           \/ \E s \in Student, c \in Class, e \in BOOLEAN : \E n \in Held(c) : Mark(s, c, n, e)
           \/ \E s \in Student : DeleteStudent(s) \/ RestoreStudent(s)
           \/ DayPasses
    PROVE  EnrollInv'
<1>1. /\ day \in Day /\ deleted \subseteq Student
      /\ DOMAIN lesson = Class /\ \A c \in Class : lesson[c] \in [Number(c) -> Lesson]
  BY DEF EnrollInv, Others
<1>2. \A c \in Class : Held(c) \subseteq Number(c)
  BY DEF Held
<1>3. CASE \E c \in Class : RestoreClass(c)
  BY <1>1, <1>3, ContractsKept DEF RestoreClass
<1>4. ASSUME NEW c \in Class, NEW d \in Day, NEW st \in LessonStatus,
             CreateSession(c, st, d) \/ \E n \in Held(c) : UpdateSession(c, n, st, d)
      PROVE  EnrollInv'
  <2>1. [status |-> st, date |-> d] \in Lesson
    BY DEF Lesson
  <2>2. PICK n \in Number(c) : SetLesson(c, n, [status |-> st, date |-> d])
    <3>1. CASE CreateSession(c, st, d)
      BY <3>1 DEF CreateSession
    <3>2. CASE \E n \in Held(c) : UpdateSession(c, n, st, d)
      BY <1>2, <3>2 DEF UpdateSession
    <3> QED BY <1>4, <3>1, <3>2
  <2> QED BY <2>1, <2>2, LessonsKept
<1>5. ASSUME NEW c \in Class, NEW n \in Held(c), CancelSession(c, n) \/ DeleteSession(c, n)
      PROVE  EnrollInv'
  <2>1. n \in Number(c) /\ lesson[c][n] \in Lesson /\ lesson[c][n] # NoLesson
    BY <1>1, <1>2 DEF Held
  <2>2. [lesson[c][n] EXCEPT !.status = "cancelled"] \in Lesson /\ NoLesson \in Lesson
    BY <2>1 DEF Lesson, LessonStatus
  <2>3. \E l \in Lesson : SetLesson(c, n, l)
    BY <1>5, <2>2 DEF CancelSession, DeleteSession
  <2> QED BY <2>1, <2>3, LessonsKept
<1>6. CASE \E s \in Student, c \in Class, e \in BOOLEAN : \E n \in Held(c) : Mark(s, c, n, e)
  BY <1>1, <1>6, ContractsKept DEF Mark
<1>7. CASE \E s \in Student : DeleteStudent(s) \/ RestoreStudent(s)
  BY <1>1, <1>7, ContractsKept DEF DeleteStudent, RestoreStudent
<1>8. CASE DayPasses
  <2>1. day + 1 \in Day
    BY <1>1, <1>8, BoundsAssumption DEF DayPasses, Day
  <2> QED BY <1>1, <1>8, <2>1, ContractsKept DEF DayPasses
<1> QED BY <1>3, <1>4, <1>5, <1>6, <1>7, <1>8

LEMMA StepInv == EnrollInv /\ [EnrollmentNext]_enrollmentVars => EnrollInv'
<1> SUFFICES ASSUME EnrollInv, [EnrollmentNext]_enrollmentVars PROVE EnrollInv'
  OBVIOUS
<1>1. CASE UNCHANGED enrollmentVars
  BY <1>1, ContractsKept DEF enrollmentVars, EnrollInv, Others
<1>2. CASE \E s \in Student, c \in Class : \E a, b \in Number(c) : Enroll(s, c, a, b)
  BY <1>2, EnrollKept
<1>3. CASE \E k \in Made : Withdraw(k) \/ Complete(k) \/ Restore(k)
  BY <1>3, WithdrawKept, RestoreKept
<1>4. CASE \E k \in Made : \E a \in Span(contract[k]), b \in {Unset} \cup Span(contract[k]) :
              Freeze(k, a, b)
  BY <1>4, FreezesKept
<1>5. CASE \E k \in Made : \E b \in Span(contract[k]) : Resume(k, b)
  BY <1>5, FreezesKept
<1>6. CASE \E k \in Made, c \in Class : Transfer(k, c)
  BY <1>6, TransferKept
<1>7. CASE \E k, m \in Made : ReconcileDuplicates(k, m)
  BY <1>7, ReconcileKept
<1>8. CASE \E c \in Class : ArchiveClass(c)
  BY <1>8, ArchiveKept
<1> QED BY <1>1, <1>2, <1>3, <1>4, <1>5, <1>6, <1>7, <1>8, OthersKept DEF EnrollmentNext

(* The parts of the invariant hold in every state of every run. *)
THEOREM EnrollCorrect == EnrollmentSpec => []EnrollInv
<1>1. EnrollmentInit => EnrollInv
  BY InitInv
<1>2. EnrollInv /\ [EnrollmentNext]_enrollmentVars => EnrollInv'
  BY StepInv
<1> QED BY <1>1, <1>2, PTL DEF EnrollmentSpec

(* A student has at most one active contract in a class. *)
THEOREM AtMostOneActive == EnrollmentSpec => []OneActive
<1>1. EnrollInv => OneActive
  BY DEF EnrollInv, Sound, OneActive, Made
<1> QED BY <1>1, EnrollCorrect, PTL

(* No contract in an archived class is active. *)
THEOREM ArchivedKeepsNobody == EnrollmentSpec => []ArchivedIsEmpty
<1>1. EnrollInv => ArchivedIsEmpty
  BY DEF EnrollInv, Sound, ArchivedIsEmpty, Seats, Made
<1> QED BY <1>1, EnrollCorrect, PTL

-----------------------------------------------------------------------------
(* What was owed for the past. *)

(* A contract that is closed after every completed session, or completed     *)
(* without a boundary, owes what it owed.                                    *)
LEMMA CloseKeepsAccrued ==
    ASSUME EnrollInv, NEW k \in Made, contract[k].status = "active",
           NEW st \in {"withdrawn", "completed"},
           NEW b \in {contract[k].wd, Boundary(contract[k])}
    PROVE  Accrued(Close(contract[k], st, b)) = Accrued(contract[k])
<1> DEFINE x == contract[k]
           y == Close(x, st, b)
<1>1. x \in ContractRow /\ x.wd = Unset /\ x.end = Unset
  BY DEF EnrollInv, Sound, Made, OpenEnded
<1>2. /\ Boundary(x) \in Unset .. Planned[x.class] + 1 /\ Boundary(x) # Unset
      /\ \A n \in CompletedIn(x.class) \cap Span(x) : n < Boundary(x)
  BY <1>1, BoundaryBehind
<1>3. b \in Unset .. Planned[x.class] + 1
  BY <1>1, <1>2, ContractFields
<1>4. /\ y.student = x.student /\ y.class = x.class /\ y.from = x.from /\ y.until = x.until
      /\ y.end = day /\ y.wd = b /\ y.freezes = x.freezes
  BY <1>3, ClosedKept
<1> HIDE DEF y
<1>5. \A n \in Number(x.class) :
          lesson[x.class][n].status = "completed" /\ lesson[x.class][n].date <= day =>
              (CoversSession(y, n) <=> CoversSession(x, n))
  <2> SUFFICES ASSUME NEW n \in Number(x.class), lesson[x.class][n].status = "completed",
                      lesson[x.class][n].date <= day
               PROVE  CoversSession(y, n) <=> CoversSession(x, n)
    OBVIOUS
  <2>1. Span(y) = Span(x) /\ (n \in Span(x) => n \in CompletedIn(x.class) \cap Span(x))
    BY <1>4 DEF Span, CompletedIn
  <2>2. n \in Span(x) /\ b # Unset => n < b
    BY <1>1, <1>2, <2>1
  <2> QED BY <1>1, <1>4, <2>1, <2>2 DEF CoversSession
<1>6. \A n \in Number(x.class) :
          (IsBillable(y, n) /\ lesson[y.class][n].date <= day)
            <=> (IsBillable(x, n) /\ lesson[x.class][n].date <= day)
  BY <1>4, <1>5 DEF IsBillable
<1>7. Accrued(y) = Accrued(x)
  BY <1>4, <1>6 DEF Accrued
<1> QED BY <1>7 DEF y

(* Freezes that let in the same completed sessions owe the same. *)
LEMMA SameFreezes ==
    ASSUME NEW x \in ContractRow, NEW y, y.student = x.student, y.class = x.class,
           y.from = x.from, y.until = x.until, y.wd = x.wd, y.end = x.end,
           \A n \in CompletedIn(x.class) :
              (\A f \in y.freezes : n \notin Frozen(f)) <=> (\A f \in x.freezes : n \notin Frozen(f))
    PROVE  Accrued(y) = Accrued(x)
<1>1. \A n \in Number(x.class) : CoversSession(y, n) <=> CoversSession(x, n)
  BY DEF CoversSession, Span
<1>2. \A n \in Number(x.class) : IsBillable(y, n) <=> IsBillable(x, n)
  BY <1>1 DEF IsBillable, CompletedIn
<1> QED BY <1>2 DEF Accrued

(* Added contracts leave the earlier ones as they are. *)
LEMMA AddedKeeps ==
    ASSUME EnrollInv, NEW f, DOMAIN f = Made, NEW y, NEW k \in Made
    PROVE  Append1(f, y)[k] = f[k]
<1>1. PICK n \in 0 .. MaxContracts : Made = 1 .. n
  BY DEF EnrollInv
<1>2. n \in Nat /\ Cardinality(Made) = n
  <2>1. n \in Nat /\ Cardinality(1 .. n) = IF 1 > n THEN 0 ELSE n - 1 + 1
    BY FS_Interval, BoundsAssumption
  <2> QED BY <1>1, <2>1
<1>3. k \in 1 .. n + 1 /\ k \in DOMAIN f
  BY <1>1, <1>2
<1> QED BY <1>2, <1>3 DEF Append1

LEMMA FreezeKeepsAccrued ==
    ASSUME EnrollInv, NEW k \in Made, NEW a \in Span(contract[k]),
           NEW b \in {Unset} \cup Span(contract[k]), Freeze(k, a, b)
    PROVE  Accrued(contract'[k]) = Accrued(contract[k])
<1> DEFINE x == contract[k]
           f == [from |-> a, to |-> b]
           y == [x EXCEPT !.freezes = x.freezes \cup {f}]
<1>1. x \in ContractRow
  BY DEF EnrollInv, Sound, Made
<1>2. contract'[k] = y
  BY DEF Freeze, Made
<1> DEFINE fr == x.freezes \cup {f}
<1> HIDE DEF fr
<1>3. [x EXCEPT !.freezes = fr]
        = [student |-> x.student, class |-> x.class, from |-> x.from, until |-> x.until,
           status |-> x.status, end |-> x.end, wd |-> x.wd, into |-> x.into, freezes |-> fr]
  BY <1>1, Fields
<1> HIDE DEF f
<1>a. y = [x EXCEPT !.freezes = fr]
  BY DEF fr
<1> HIDE DEF y
<1>4. a \in Int /\ \A n \in CompletedIn(x.class) : n < a /\ n \in Int
  <2>1. a \in Int
    BY <1>1, ContractFields DEF Span
  <2>2. \A n \in CompletedIn(x.class) : n \in Int
    BY <1>1, ContractFields, Plans DEF CompletedIn, Number
  <2> QED BY <2>1, <2>2 DEF Freeze
<1>5. \A n \in CompletedIn(x.class) : n \notin Frozen(f)
  BY <1>4 DEF Frozen, f
<1>6. y.freezes = x.freezes \cup {f} /\ y.student = x.student /\ y.class = x.class
      /\ y.from = x.from /\ y.until = x.until /\ y.wd = x.wd /\ y.end = x.end
  <2>1. y.freezes = fr /\ y.student = x.student /\ y.class = x.class
        /\ y.from = x.from /\ y.until = x.until /\ y.wd = x.wd /\ y.end = x.end
    BY <1>3, <1>a
  <2> QED BY <2>1 DEF fr
<1> HIDE DEF f
<1>7. \A n \in CompletedIn(x.class) :
          (\A g \in y.freezes : n \notin Frozen(g)) <=> (\A g \in x.freezes : n \notin Frozen(g))
  BY <1>5, <1>6
<1> QED BY <1>1, <1>2, <1>6, <1>7, SameFreezes

(* Every step that changes no session, attendance row or date, restores      *)
(* nothing and closes no freeze leaves each contract what it owed.           *)
LEMMA AccruedKept ==
    ASSUME EnrollInv, EnrollmentNext, UNCHANGED <<lesson, excused, day>>, ~Reopens, NEW j \in Made
    PROVE  Accrued(contract'[j]) = Accrued(contract[j])
<1>0. contract[j] \in ContractRow
  BY DEF EnrollInv, Sound, Made
<1>1. ASSUME NEW s \in Student, NEW c \in Class, NEW a \in Number(c), NEW b \in Number(c),
             Enroll(s, c, a, b)
      PROVE  contract'[j] = contract[j]
  BY <1>1, AddedKeeps DEF Enroll, Made
<1>2. ASSUME NEW k \in Made, Withdraw(k) \/ Complete(k)
      PROVE  Accrued(contract'[j]) = Accrued(contract[j])
  <2>1. PICK st \in {"withdrawn", "completed"}, b \in {contract[k].wd, Boundary(contract[k])} :
            /\ contract' = [contract EXCEPT ![k] = Close(contract[k], st, b)]
            /\ contract[k].status = "active"
    BY <1>2 DEF Withdraw, Complete, CanClose, Made
  <2>2. CASE j = k
    <3>1. contract'[j] = Close(contract[k], st, b)
      BY <2>1, <2>2 DEF Made
    <3> QED BY <2>1, <2>2, <3>1, CloseKeepsAccrued
  <2>3. CASE j # k
    BY <2>1, <2>3 DEF Made
  <2> QED BY <2>2, <2>3
<1>3. ASSUME NEW k \in Made, Restore(k)
      PROVE  FALSE
  <2>1. contract[k].status = "withdrawn"
    BY <1>3 DEF Restore
  <2>2. contract'[k].status = "active"
    BY <1>3, ContractFields DEF Restore, EnrollInv, Sound, Made, ContractRow
  <2> QED BY <2>1, <2>2 DEF Reopens
<1>4. ASSUME NEW k \in Made, NEW a \in Span(contract[k]), NEW b \in {Unset} \cup Span(contract[k]),
             Freeze(k, a, b)
      PROVE  Accrued(contract'[j]) = Accrued(contract[j])
  <2>1. CASE j = k
    BY <1>4, <2>1, FreezeKeepsAccrued
  <2>2. CASE j # k
    BY <1>4, <2>2 DEF Freeze, Made
  <2> QED BY <2>1, <2>2
<1>5. ASSUME NEW k \in Made, NEW b \in Span(contract[k]), Resume(k, b)
      PROVE  FALSE
  <2> DEFINE x == contract[k]
  <2>1. x \in ContractRow
    BY DEF EnrollInv, Sound, Made
  <2>2. PICK f \in OpenFreeze(x) :
            contract' = [contract EXCEPT ![k] = [x EXCEPT
                            !.freezes = (x.freezes \ {f}) \cup {[f EXCEPT !.to = b]}]]
    BY <1>5 DEF Resume, Made
  <2> DEFINE g == [f EXCEPT !.to = b]
             fr == (x.freezes \ {f}) \cup {g}
             y == [x EXCEPT !.freezes = fr]
  <2>3. f \in [from : Number(x.class), to : {Unset} \cup Number(x.class)] /\ f.to = Unset
    BY <2>1, ContractFields DEF OpenFreeze
  <2>4. b # Unset
    BY <2>1, ContractFields DEF Span, Unset
  <2>5. g # f
    BY <2>3, <2>4
  <2> HIDE DEF g
  <2>6. f \notin fr
    BY <2>5
  <2>7. contract'[k] = y
    BY <2>2 DEF Made, g
  <2> HIDE DEF fr
  <2>8. y.freezes = fr
    BY <2>1, Fields
  <2> HIDE DEF y
  <2> QED BY <2>6, <2>7, <2>8 DEF Reopens
<1>6. ASSUME NEW k \in Made, NEW c \in Class, Transfer(k, c)
      PROVE  Accrued(contract'[j]) = Accrued(contract[j])
  <2> DEFINE z == Close(contract[k], "withdrawn", Boundary(contract[k]))
             f == [contract EXCEPT ![k] = z]
  <2>1. PICK y : contract' = Append1(f, y)
    BY <1>6 DEF Transfer, Made
  <2>2. contract[k].status = "active"
    BY <1>6 DEF Transfer
  <2>3. contract'[j] = f[j]
    BY <2>1, AddedKeeps DEF Made
  <2>4. CASE j = k
    <3>1. f[j] = z
      BY <2>4 DEF Made
    <3> QED BY <2>2, <2>3, <2>4, <3>1, CloseKeepsAccrued
  <2>5. CASE j # k
    BY <2>3, <2>5 DEF Made
  <2> QED BY <2>4, <2>5
<1>7. ASSUME NEW k \in Made, NEW m \in Made, ReconcileDuplicates(k, m)
      PROVE  Accrued(contract'[j]) = Accrued(contract[j])
  <2>1. CASE j = k
    <3> DEFINE x == contract[k]
               y == [x EXCEPT !.into = m]
    <3>1. contract'[k] = y /\ x \in ContractRow
      BY <1>7 DEF ReconcileDuplicates, EnrollInv, Sound, Made
    <3>2. y = [student |-> x.student, class |-> x.class, from |-> x.from, until |-> x.until,
               status |-> x.status, end |-> x.end, wd |-> x.wd, into |-> m,
               freezes |-> x.freezes]
      BY <3>1, Fields
    <3> HIDE DEF y
    <3> QED BY <2>1, <3>1, <3>2, SameFreezes
  <2>2. CASE j # k
    BY <1>7, <2>2 DEF ReconcileDuplicates, Made
  <2> QED BY <2>1, <2>2
<1>8. ASSUME NEW c \in Class, ArchiveClass(c)
      PROVE  Accrued(contract'[j]) = Accrued(contract[j])
  <2>1. contract'[j] = IF j \in Seats(c)
                       THEN Close(contract[j], "withdrawn", Boundary(contract[j]))
                       ELSE contract[j]
    BY <1>8 DEF ArchiveClass
  <2>2. j \in Seats(c) => contract[j].status = "active"
    BY DEF Seats
  <2> QED BY <2>1, <2>2, CloseKeepsAccrued
<1>9. CASE UNCHANGED contract
  BY <1>9
<1> QED BY <1>1, <1>2, <1>3, <1>4, <1>5, <1>6, <1>7, <1>8, <1>9
      DEF EnrollmentNext, RestoreClass, SetLesson, CreateSession, UpdateSession, CancelSession,
          DeleteSession, Mark, DeleteStudent, RestoreStudent, DayPasses

(* No transition of a contract rewrites what was owed for the past. *)
THEOREM PastIsKept == EnrollmentSpec => HistoryKept
<1> DEFINE Kept == (UNCHANGED <<lesson, excused, day>> /\ ~Reopens)
                   => \A k \in Made : Accrued(contract'[k]) = Accrued(contract[k])
<1>1. EnrollInv /\ [EnrollmentNext]_enrollmentVars => [Kept]_enrollmentVars
  <2> SUFFICES ASSUME EnrollInv, EnrollmentNext PROVE Kept
    OBVIOUS
  <2> QED BY AccruedKept
<1>2. EnrollmentSpec => [][Kept]_enrollmentVars
  BY <1>1, EnrollCorrect, PTL DEF EnrollmentSpec
<1> QED BY <1>2 DEF HistoryKept

-----------------------------------------------------------------------------
(***************************************************************************)
(* Proofs about FinanceLedger, for any calendar, contracts, amounts and    *)
(* durations, and any number of rows.                                      *)
(*                                                                         *)
(* That no date is covered twice (PeriodsDisjoint) is not kept by itself:  *)
(* a new configuration cuts short only the one that covers its first date. *)
(* What is kept is that each configuration ends before the next one begins *)
(* (Ordered).                                                              *)
(*                                                                         *)
(* A configuration may begin or end over dates that have rows, so a row    *)
(* need not be in the period it was entered in.  What a confirmed          *)
(* settlement sums (ClosedPeriodKept) is kept for the income because each  *)
(* change of an income asks for the period stored with it, and for the     *)
(* expense as long as the dates of the period still have that period.      *)
(* That nothing is counted in two periods (CountedOnce) needs that an      *)
(* income was posted to the start some configuration gives its date        *)
(* (Posted), and one fact about the calendar: every date of a period is    *)
(* given that same period (SamePeriod).                                    *)
(***************************************************************************)

-----------------------------------------------------------------------------
(* The calendar. *)

LEMMA SampleDates == Sample \subseteq Nat /\ \A x \in Sample : x >= 31
BY LedgerAssumption DEF IsDate

LEMMA SampleInt == Sample \subseteq Int
BY SampleDates

LEMMA MonthLengths == \A m \in Int : DaysIn(m) \in 28 .. 31
<1> TAKE m \in Int
<1>1. Len(MonthDays) \in Nat \ {0} /\ \A i \in 1 .. Len(MonthDays) : MonthDays[i] \in 28 .. 31
  BY MonthDaysAssumption
<1>2. \A n \in Nat \ {0} : (m % n) + 1 \in 1 .. n
  OBVIOUS
<1> QED BY <1>1, <1>2 DEF DaysIn

LEMMA DateTypes == \A x \in Int : MonthOf(x) \in Int /\ DayOf(x) \in 1 .. 31
BY DEF MonthOf, DayOf

LEMMA PrevInt == \A x \in Int : Prev(x) \in Int
BY MonthLengths, DateTypes DEF Prev, DateOf

(* The day before a date that is not in the first month. *)
LEMMA PrevIsBefore == \A x \in Sample : Prev(x) \in Nat /\ Prev(x) < x
<1> TAKE x \in Sample
<1>1. x \in Nat /\ x >= 31
  BY SampleDates
<1>2. CASE DayOf(x) > 1
  BY <1>1, <1>2 DEF Prev
<1>3. CASE ~(DayOf(x) > 1)
  <2>1. x = 31 * MonthOf(x) /\ MonthOf(x) \in Nat \ {0}
    BY <1>1, <1>3 DEF DayOf, MonthOf
  <2>2. PICK d \in 28 .. 31 : Prev(x) = 31 * (MonthOf(x) - 1) + d - 1
    BY <1>3, <2>1, MonthLengths DEF Prev, DateOf
  <2> QED BY <2>1, <2>2
<1> QED BY <1>2, <1>3

LEMMA AddMonthsInt == \A x, n \in Int : AddMonths(x, n) \in Int
<1> TAKE x, n \in Int
<1>1. MonthOf(x) + n \in Int
  BY DateTypes
<1>2. DaysIn(MonthOf(x) + n) \in 28 .. 31 /\ DayOf(x) \in 1 .. 31
  BY <1>1, MonthLengths, DateTypes
<1> QED BY <1>1, <1>2 DEF AddMonths, DateOf, Earlier

LEMMA PeriodInt == \A c \in Config, x \in Sample : StartIn(c, x) \in Int /\ EndIn(c, x) \in Int
<1> TAKE c \in Config, x \in Sample
<1>1. /\ c.from \in Int /\ c.to \in Int /\ c.months \in 1 .. 24 /\ x \in Int
  <2>1. c.from \in Sample /\ c.to \in Int /\ c.months \in Months
    BY DEF Config
  <2>2. c.months \in 1 .. 24
    BY <2>1, LedgerAssumption
  <2> QED BY <2>1, <2>2, SampleInt
<1>2. MonthsTo(c, x) \in Int
  <2>1. MonthOf(x) - MonthOf(c.from) \in Int
    BY <1>1, DateTypes
  <2> QED BY <2>1 DEF MonthsTo
<1>3. (MonthsTo(c, x) \div c.months) * c.months \in Int
  <2>1. \A m \in Int, n \in 1 .. 24 : (m \div n) \in Int
    OBVIOUS
  <2>2. \A m \in Int, n \in 1 .. 24 : m * n \in Int
    OBVIOUS
  <2> QED BY <1>1, <1>2, <2>1, <2>2
<1>4. StartIn(c, x) \in Int
  BY <1>1, <1>3, AddMonthsInt DEF StartIn
<1>5. Prev(AddMonths(StartIn(c, x), c.months)) \in Int
  <2>1. c.months \in Int
    BY <1>1
  <2>2. AddMonths(StartIn(c, x), c.months) \in Int
    BY <1>4, <2>1, AddMonthsInt
  <2> QED BY <2>2, PrevInt
<1> QED BY <1>1, <1>4, <1>5 DEF EndIn, Earlier

LEMMA MinNat ==
    ASSUME NEW S, S \subseteq Nat, S # {}
    PROVE  Min(S) \in S /\ \A y \in S : Min(S) <= y
<1>1. PICK x \in S : \A y \in S : <<y, x>> \notin OpToRel(<, Nat)
  BY WFMin, NatLessThanWellFounded, Zenon
<1>2. \A y \in S : ~(y < x)
  BY <1>1, Zenon DEF OpToRel
<1>3. \A y \in S : x <= y
  BY <1>2
<1> QED BY <1>3 DEF Min

LEMMA PeriodOf ==
    ASSUME configs \subseteq Config, NEW x \in Sample, HasPeriod(x)
    PROVE  TheConfig(x) \in configs /\ StartOf(x) \in Int /\ EndOf(x) \in Int
<1>1. TheConfig(x) \in configs
  BY DEF HasPeriod, TheConfig
<1> QED BY <1>1, PeriodInt DEF StartOf, EndOf

-----------------------------------------------------------------------------
(* The inductive invariant. *)

Ordered == \A c, d \in configs : c.from < d.from => c.to # NoEnd /\ c.to < d.from

(* A credit that names a payment names one that is there. *)
Credits ==
    \A a \in adjustments : a.of > 0 =>
        /\ a.of \in DOMAIN incomes
        /\ incomes[a.of].state = "active" /\ incomes[a.of].amount > 0
        /\ incomes[a.of].contract = a.contract /\ incomes[a.of].date = a.date

LedgerInv == TypeOK /\ Ordered /\ Credits

-----------------------------------------------------------------------------
(* Configurations. *)

ConfigsTyped == configs \subseteq Config /\ \A a, b \in configs : a.from = b.from => a = b

LEMMA ConfigNumbers ==
    ASSUME NEW c \in Config
    PROVE  c.from \in Int /\ c.to \in Int
<1>1. c.from \in Sample /\ c.to \in Int
  BY DEF Config
<1> QED BY <1>1, SampleInt

(* What Configure leaves: what it cuts ends before the new configuration,    *)
(* which ends before the later ones.                                         *)
Configured(x, months, cut, end) ==
    /\ cut \subseteq Covering(x) /\ end \in Int
    /\ \A c \in Covering(x) : (\A d \in Covering(x) : d.from <= c.from) => c \in cut
    /\ configs' = (configs \ cut) \cup {[c EXCEPT !.to = Prev(x)] : c \in cut}
                      \cup {[from |-> x, months |-> months, to |-> end]}
    /\ \A d \in configs : d.from # x /\ (x < d.from => end # NoEnd /\ end < d.from)

LEMMA ConfigureEnds ==
    ASSUME ConfigsTyped, NEW x \in Sample, NEW months \in Months, Configure(x, months)
    PROVE  \E cut, end : Configured(x, months, cut, end)
<1> DEFINE later == {c.from : c \in {d \in configs : d.from > x}}
           cut == {c \in Covering(x) : \A d \in Covering(x) : d.from <= c.from}
           end == IF later = {} THEN NoEnd ELSE Prev(Min(later))
<1>1. later \subseteq Sample
  BY DEF ConfigsTyped, Config
<1>2. later # {} => Min(later) \in later /\ \A y \in later : Min(later) <= y
  <2>1. later \subseteq Nat
    BY <1>1, SampleDates
  <2> HIDE DEF later
  <2> QED BY <2>1, MinNat
<1>3. end \in Int /\ \A y \in later : end # NoEnd /\ end < y
  <2> HIDE DEF later
  <2>1. CASE later = {}
    BY <2>1 DEF NoEnd
  <2>2. CASE later # {}
    <3>1. Min(later) \in Sample /\ end = Prev(Min(later)) /\ \A y \in later : Min(later) <= y
      BY <1>1, <1>2, <2>2
    <3>2. end \in Nat /\ end < Min(later)
      BY <3>1, PrevIsBefore
    <3>3. Min(later) \in Int /\ later \subseteq Int
      BY <1>1, <3>1, SampleInt
    <3> QED BY <3>1, <3>2, <3>3 DEF NoEnd
  <2> QED BY <2>1, <2>2
<1>4. \A d \in configs : x < d.from => d.from \in later
  <2>1. \A d \in configs : d.from \in Int
    BY ConfigNumbers DEF ConfigsTyped
  <2>2. x \in Int
    BY SampleDates
  <2> QED BY <2>1, <2>2
<1>5. \A d \in configs : d.from # x
  BY DEF Configure
<1>6. configs' = (configs \ cut) \cup {[c EXCEPT !.to = Prev(x)] : c \in cut}
                    \cup {[from |-> x, months |-> months, to |-> end]}
  BY DEF Configure
<1> HIDE DEF end
<1>7. Configured(x, months, cut, end)
  BY <1>3, <1>4, <1>5, <1>6 DEF Configured
<1> QED BY <1>7

(* A configuration after a change is an old one, an old one with another     *)
(* end, or the new one.                                                      *)
LEMMA ConfiguredOrigin ==
    ASSUME ConfigsTyped, NEW x \in Sample, NEW months \in Months, NEW cut, NEW end,
           Configured(x, months, cut, end), NEW p \in configs'
    PROVE  /\ p \in Config
           /\ \/ p \in configs \ cut
              \/ \E c \in cut : p = [c EXCEPT !.to = Prev(x)] /\ p.from = c.from /\ p.to = Prev(x)
              \/ p = [from |-> x, months |-> months, to |-> end]
<1>1. CASE p \in configs \ cut
  BY <1>1 DEF ConfigsTyped
<1>2. CASE \E c \in cut : p = [c EXCEPT !.to = Prev(x)]
  <2>1. PICK c \in cut : p = [c EXCEPT !.to = Prev(x)]
    BY <1>2
  <2>2. c \in Config
    BY DEF Configured, Covering, ConfigsTyped
  <2>3. Prev(x) \in Int
    BY PrevIsBefore
  <2> QED BY <2>1, <2>2, <2>3 DEF Config
<1>3. CASE p = [from |-> x, months |-> months, to |-> end]
  BY <1>3 DEF Config, Configured
<1> QED BY <1>1, <1>2, <1>3 DEF Configured

LEMMA ConfigureKeeps ==
    ASSUME ConfigsTyped, Ordered, NEW x \in Sample, NEW months \in Months, Configure(x, months)
    PROVE  ConfigsTyped' /\ Ordered'
<1>1. PICK cut, end : Configured(x, months, cut, end)
  BY ConfigureEnds
<1>2. /\ x \in Int /\ Prev(x) \in Int /\ Prev(x) # NoEnd /\ Prev(x) < x /\ end \in Int
      /\ \A c \in configs : c.from \in Int /\ c.to \in Int
  BY <1>1, SampleDates, PrevIsBefore, ConfigNumbers DEF ConfigsTyped, Configured, NoEnd
<1>3. \A c \in cut : /\ c \in configs /\ c.from < x
                     /\ \A d \in configs : c.from < d.from => x < d.from
  BY <1>1, <1>2 DEF Configured, Covering, Covers, Ordered
<1>4. \A c \in configs \ cut : c.from < x => c.to # NoEnd /\ c.to < x
  <2> TAKE c \in configs \ cut
  <2>1. ASSUME c.from < x, Covers(c, x) PROVE FALSE
    <3>1. \A d \in Covering(x) : d.from <= c.from
      BY <1>2, <2>1 DEF Covering, Covers, Ordered
    <3> QED BY <1>1, <2>1, <3>1 DEF Configured, Covering
  <2> QED BY <1>2, <2>1 DEF Covers
<1>5. \A d \in configs : d.from # x /\ (x < d.from => end # NoEnd /\ end < d.from)
  BY <1>1 DEF Configured
<1>6. \A p \in configs' :
        \/ p \in configs \ cut
        \/ \E c \in cut : p = [c EXCEPT !.to = Prev(x)] /\ p.from = c.from /\ p.to = Prev(x)
        \/ p = [from |-> x, months |-> months, to |-> end] /\ p.from = x /\ p.to = end
  BY <1>1, ConfiguredOrigin
<1>7. ConfigsTyped'
  <2>1. configs' \subseteq Config
    BY <1>1, ConfiguredOrigin
  <2>2. ASSUME NEW p \in configs', NEW q \in configs', p.from = q.from PROVE p = q
    BY <1>3, <1>5, <1>6, <2>2 DEF ConfigsTyped
  <2> QED BY <2>1, <2>2 DEF ConfigsTyped
<1>8. ASSUME NEW p \in configs', NEW q \in configs', p.from < q.from
      PROVE  p.to # NoEnd /\ p.to < q.from
  <2>1. CASE p \in configs \ cut
    <3>1. CASE \E d \in configs : q.from = d.from
      BY <1>8, <2>1, <3>1 DEF Ordered
    <3>2. CASE q.from = x
      BY <1>4, <1>8, <2>1, <3>2
    <3> QED BY <1>3, <1>6, <3>1, <3>2
  <2>2. CASE \E c \in cut : p.from = c.from /\ p.to = Prev(x)
    <3>1. x <= q.from
      BY <1>2, <1>3, <1>6, <1>8, <2>2
    <3> QED BY <1>2, <1>3, <1>6, <2>2, <3>1
  <2>3. CASE p.from = x /\ p.to = end
    BY <1>2, <1>3, <1>5, <1>6, <1>8, <2>3
  <2> QED BY <1>6, <2>1, <2>2, <2>3
<1> QED BY <1>7, <1>8 DEF Ordered

LEMMA DeactivateKeeps ==
    ASSUME ConfigsTyped, Ordered, NEW c \in configs, NEW x \in Sample, Deactivate(c, x)
    PROVE  ConfigsTyped' /\ Ordered'
<1> DEFINE e == [c EXCEPT !.to = x]
<1>1. /\ x \in Int /\ x # NoEnd
      /\ \A d \in configs : d.from \in Int /\ d.to \in Int
  BY SampleDates, ConfigNumbers DEF ConfigsTyped, NoEnd
<1>2. e \in Config /\ e.from = c.from /\ e.to = x
  <2>1. c \in Config /\ x \in Int
    BY SampleInt DEF ConfigsTyped
  <2> QED BY <2>1 DEF Config
<1>3. configs' = (configs \ {c}) \cup {e}
  BY DEF Deactivate
<1>4. \A d \in configs : d.from > c.from => x < d.from
  BY DEF Deactivate
<1> HIDE DEF e
<1>5. ConfigsTyped'
  BY <1>2, <1>3 DEF ConfigsTyped
<1> QED BY <1>1, <1>2, <1>3, <1>4, <1>5 DEF Ordered

-----------------------------------------------------------------------------
(* Rows.  What is entered and what the steps make of it is typed. *)

LEMMA Numbers ==
    /\ MaxRows \in Nat /\ MaxAdjust \in Nat
    /\ \A a \in Amount : a \in Int /\ a > 0 /\ -a \in Int
    /\ 0 \in 0 .. MaxRows /\ 0 \in OldKey .. MaxRows /\ OldKey \in OldKey .. MaxRows
BY LedgerAssumption DEF OldKey

LEMMA NewIncomeTyped ==
    ASSUME TypeOK, NEW k \in Contract \cup {Other}, NEW a \in Int, NEW x \in Sample, HasPeriod(x)
    PROVE  NewIncome(k, a, x) \in Income
<1>1. StartOf(x) \in Int
  BY PeriodOf DEF TypeOK
<1> QED BY <1>1 DEF NewIncome, Income

LEMMA AppendTyped ==
    ASSUME NEW S, NEW s \in Seq(S), NEW e \in S
    PROVE  /\ Append(s, e) \in Seq(S) /\ DOMAIN Append(s, e) = 1 .. Len(s) + 1
           /\ \A i \in DOMAIN s : Append(s, e)[i] = s[i]
           /\ Append(s, e)[Len(s) + 1] = e
           /\ DOMAIN s = 1 .. Len(s) /\ Len(s) \in Nat
OBVIOUS

LEMMA CreditTyped ==
    ASSUME NEW k \in Contract, NEW a \in Amount, NEW x \in Sample, NEW of \in OldKey .. MaxRows
    PROVE  Credit(k, a, x, of) \in Adjustment
<1>1. a \in Int /\ 0 \in 0 .. MaxRows
  BY Numbers
<1> QED BY <1>1 DEF Credit, Adjustment

(* The rows after each kind of step. *)

LEMMA RowEdited ==
    ASSUME TypeOK, NEW i \in DOMAIN incomes, NEW r \in Income, incomes' = [incomes EXCEPT ![i] = r]
    PROVE  /\ incomes' \in Seq(Income) /\ DOMAIN incomes' = DOMAIN incomes
           /\ \A j \in DOMAIN incomes \ {i} : incomes'[j] = incomes[j]
BY DEF TypeOK

IncomeStep(i) ==
    \/ \E a \in Amount \cup {incomes[i].amount}, x \in Sample : UpdateIncome(i, a, x)
    \/ VoidIncome(i) \/ DeleteIncome(i)

(* An income that is edited, voided or deleted stays typed and has no credit *)
(* that depends on it.                                                       *)
LEMMA IncomeStepRow ==
    ASSUME TypeOK, NEW i \in DOMAIN incomes, IncomeStep(i)
    PROVE  /\ \E r \in Income : incomes' = [incomes EXCEPT ![i] = r]
           /\ KeepsCredit(i)
           /\ UNCHANGED <<today, configs, settlements, expenses, adjustments, merged>>
<1>1. incomes[i] \in Income
  BY DEF TypeOK
<1>2. ASSUME NEW a \in Amount \cup {incomes[i].amount}, NEW x \in Sample, UpdateIncome(i, a, x)
      PROVE  \E r \in Income : incomes' = [incomes EXCEPT ![i] = r]
  <2>1. a \in Int /\ StartOf(x) \in Int
    BY <1>1, <1>2, Numbers, PeriodOf DEF TypeOK, Income, UpdateIncome, Mutable
  <2>2. [incomes[i] EXCEPT !.amount = a, !.date = x, !.start = StartOf(x)] \in Income
    BY <1>1, <2>1 DEF Income
  <2> QED BY <1>2, <2>2 DEF UpdateIncome
<1>3. ASSUME VoidIncome(i) \/ DeleteIncome(i)
      PROVE  \E r \in Income : incomes' = [incomes EXCEPT ![i] = r]
  <2>1. PICK st \in {"voided", "deleted"} : incomes' = [incomes EXCEPT ![i] = [@ EXCEPT !.state = st]]
    BY <1>3 DEF VoidIncome, DeleteIncome
  <2>2. [incomes[i] EXCEPT !.state = st] \in Income
    BY <1>1 DEF Income
  <2> QED BY <2>1, <2>2
<1> QED BY <1>2, <1>3 DEF IncomeStep, UpdateIncome, VoidIncome, DeleteIncome, CanChange

(* A row of income that is added at the end, perhaps with its credit. *)
LEMMA IncomeAdded ==
    ASSUME TypeOK, Credits, NEW r \in Income, incomes' = Append(incomes, r),
           \A a \in adjustments' \ adjustments : a.of > 0 =>
               /\ a.of = Len(incomes) + 1 /\ r.state = "active" /\ r.amount > 0
               /\ r.contract = a.contract /\ r.date = a.date
    PROVE  incomes' \in Seq(Income) /\ Credits'
<1>1. incomes \in Seq(Income)
  BY DEF TypeOK
<1>2. /\ incomes' \in Seq(Income) /\ DOMAIN incomes' = 1 .. Len(incomes) + 1
      /\ \A i \in DOMAIN incomes : i \in DOMAIN incomes' /\ incomes'[i] = incomes[i]
      /\ incomes'[Len(incomes) + 1] = r /\ Len(incomes) + 1 \in DOMAIN incomes'
  BY <1>1, AppendTyped
<1> QED BY <1>2 DEF Credits

LEMMA SettlementsTyped ==
    ASSUME TypeOK, NEW x \in Sample,
           Reopen(x) \/ \E confirm \in BOOLEAN : SaveSettlement(x, confirm)
    PROVE  /\ \A r \in settlements' :
                /\ DOMAIN r = {"start", "end", "confirmed", "income", "expense"}
                /\ r.start \in Int /\ r.end \in Int /\ r.confirmed \in BOOLEAN
           /\ \A a, b \in settlements' : a.start = b.start => a = b
<1>1. CASE Reopen(x)
  <2>1. ASSUME NEW r \in settlements', r \notin settlements
        PROVE  \E q \in settlements : /\ r = [q EXCEPT !.confirmed = FALSE]
                                     /\ r.start = q.start /\ q.start = StartOf(x)
                                     /\ r.end = q.end /\ r.confirmed = FALSE
                                     /\ DOMAIN r = DOMAIN q
    BY <1>1, <2>1 DEF Reopen, TypeOK
  <2>2. \A r \in settlements' : r \in settlements => r.start # StartOf(x) \/ r.confirmed = FALSE
    BY <1>1 DEF Reopen, TypeOK
  <2>3. ASSUME NEW a \in settlements', NEW b \in settlements', a.start = b.start
        PROVE  a = b
    <3>1. PICK p \in settlements :
                 a = IF p.start = StartOf(x) THEN [p EXCEPT !.confirmed = FALSE] ELSE p
      BY <1>1 DEF Reopen
    <3>2. PICK q \in settlements :
                 b = IF q.start = StartOf(x) THEN [q EXCEPT !.confirmed = FALSE] ELSE q
      BY <1>1 DEF Reopen
    <3>3. a.start = p.start /\ b.start = q.start
      BY <3>1, <3>2 DEF TypeOK
    <3>4. p = q
      BY <2>3, <3>3 DEF TypeOK
    <3> QED BY <3>1, <3>2, <3>4
  <2>4. \A r \in settlements' :
          /\ DOMAIN r = {"start", "end", "confirmed", "income", "expense"}
          /\ r.start \in Int /\ r.end \in Int /\ r.confirmed \in BOOLEAN
    BY <2>1 DEF TypeOK
  <2> QED BY <2>3, <2>4
<1>2. ASSUME NEW confirm \in BOOLEAN, SaveSettlement(x, confirm)
      PROVE  /\ \A r \in settlements' :
                  /\ DOMAIN r = {"start", "end", "confirmed", "income", "expense"}
                  /\ r.start \in Int /\ r.end \in Int /\ r.confirmed \in BOOLEAN
             /\ \A a, b \in settlements' : a.start = b.start => a = b
  <2> DEFINE s == StartOf(x)
             e == EndOf(x)
             new == [start |-> s, end |-> e, confirmed |-> confirm,
                     income |-> IncomeTotal(s, e), expense |-> ExpenseTotal(s, e)]
  <2>1. s \in Int /\ e \in Int
    BY <1>2, PeriodOf DEF SaveSettlement, Mutable, TypeOK
  <2>2. settlements' = {r \in settlements : r.start # s} \cup {new}
    BY <1>2 DEF SaveSettlement
  <2>3. /\ DOMAIN new = {"start", "end", "confirmed", "income", "expense"}
        /\ new.start = s /\ new.end = e /\ new.confirmed = confirm
    OBVIOUS
  <2> HIDE DEF new, s, e
  <2> QED BY <2>1, <2>2, <2>3 DEF TypeOK
<1> QED BY <1>1, <1>2

ExpenseStep ==
    \/ \E p \in BOOLEAN, a \in Amount, x \in Sample : CreateExpense(p, a, x)
    \/ \E j \in DOMAIN expenses, a \in Amount, x \in Sample, st \in {"pending", "completed"} :
          UpdateExpense(j, a, x, st)
    \/ \E j \in DOMAIN expenses, x \in Sample : Reimburse(j, x)
    \/ \E j \in DOMAIN expenses : DeleteExpense(j)

LEMMA ExpensesTyped ==
    ASSUME TypeOK, ExpenseStep
    PROVE  /\ expenses' \in Seq(Expense)
           /\ UNCHANGED <<today, configs, settlements, incomes, adjustments, merged>>
<1>1. expenses \in Seq(Expense) /\ \A j \in DOMAIN expenses : expenses[j] \in Expense
  BY DEF TypeOK
<1>2. ASSUME NEW p \in BOOLEAN, NEW a \in Amount, NEW x \in Sample, CreateExpense(p, a, x)
      PROVE  expenses' \in Seq(Expense)
  <2> DEFINE r == [amount |-> a, date |-> x, incurred |-> IF p THEN x ELSE 0,
                   personal |-> p, state |-> IF p THEN "pending" ELSE "completed"]
  <2>1. r \in Expense
    BY DEF Expense
  <2>2. expenses' = Append(expenses, r)
    BY <1>2 DEF CreateExpense
  <2> HIDE DEF r
  <2> QED BY <1>1, <2>1, <2>2, AppendTyped
<1>3. ASSUME NEW j \in DOMAIN expenses, NEW a \in Amount, NEW x \in Sample,
             NEW st \in {"pending", "completed"}, UpdateExpense(j, a, x, st)
      PROVE  expenses' \in Seq(Expense)
  <2> DEFINE r == [expenses[j] EXCEPT !.amount = a, !.date = x, !.state = st,
                                      !.incurred = IF st = "pending" THEN x
                                                  ELSE expenses[j].incurred]
  <2>1. r \in Expense
    BY <1>1 DEF Expense
  <2>2. expenses' = [expenses EXCEPT ![j] = r]
    BY <1>3 DEF UpdateExpense
  <2> HIDE DEF r
  <2> QED BY <1>1, <2>1, <2>2
<1>4. ASSUME NEW j \in DOMAIN expenses, NEW x \in Sample, Reimburse(j, x)
      PROVE  expenses' \in Seq(Expense)
  <2> DEFINE r == [expenses[j] EXCEPT !.date = x, !.state = "completed"]
  <2>1. r \in Expense
    BY <1>1 DEF Expense
  <2>2. expenses' = [expenses EXCEPT ![j] = r]
    BY <1>4 DEF Reimburse
  <2> HIDE DEF r
  <2> QED BY <1>1, <2>1, <2>2
<1>5. ASSUME NEW j \in DOMAIN expenses, DeleteExpense(j)
      PROVE  expenses' \in Seq(Expense)
  <2>1. [expenses[j] EXCEPT !.state = "deleted"] \in Expense
    BY <1>1 DEF Expense
  <2> QED BY <1>1, <1>5, <2>1 DEF DeleteExpense
<1> QED BY <1>2, <1>3, <1>4, <1>5
        DEF ExpenseStep, CreateExpense, UpdateExpense, Reimburse, DeleteExpense

-----------------------------------------------------------------------------
(* Every step. *)

LEMMA LedgerInit == Init => LedgerInv
<1> SUFFICES ASSUME Init PROVE LedgerInv
  OBVIOUS
<1>1. today \in Sample /\ settlements = {} /\ expenses = << >> /\ merged = {}
  <2>1. Min(Sample) \in Sample
    BY SampleDates, LedgerAssumption, MinNat
  <2> QED BY <2>1 DEF Init
<1>2. CASE configs = {} /\ incomes = << >> /\ adjustments = {}
  <2>1. incomes \in Seq(Income) /\ expenses \in Seq(Expense)
    BY <1>1, <1>2
  <2> QED BY <1>1, <1>2, <2>1 DEF LedgerInv, TypeOK, Ordered, Credits
<1>3. ASSUME NEW months \in Months, NEW k \in Contract, NEW a \in Amount,
             configs = {[from |-> today, to |-> NoEnd, months |-> months]},
             incomes = <<[contract |-> Unlinked, amount |-> a, date |-> today,
                          start |-> today, state |-> "active"]>>,
             adjustments = {Credit(k, a, today, OldKey)}
      PROVE  LedgerInv
  <2>1. today \in Int /\ a \in Int
    BY <1>1, SampleInt, Numbers
  <2>2. [contract |-> Unlinked, amount |-> a, date |-> today, start |-> today, state |-> "active"]
          \in Income
    BY <1>1, <2>1 DEF Income
  <2>3. [from |-> today, to |-> NoEnd, months |-> months] \in Config
    BY <1>1 DEF Config, NoEnd
  <2>4. Credit(k, a, today, OldKey) \in Adjustment
    BY <1>1, CreditTyped, Numbers
  <2>5. incomes \in Seq(Income) /\ expenses \in Seq(Expense)
    BY <1>1, <1>3, <2>2
  <2>6. TypeOK
    BY <1>1, <1>3, <2>3, <2>4, <2>5 DEF TypeOK
  <2>7. Ordered
    BY <1>3, <2>1 DEF Ordered
  <2>8. Credits
    BY <1>3 DEF Credits, Credit, OldKey
  <2> QED BY <2>6, <2>7, <2>8 DEF LedgerInv
<1> QED BY <1>2, <1>3 DEF Init

LEMMA LedgerStep == LedgerInv /\ [Next]_vars => LedgerInv'
<1> SUFFICES ASSUME TypeOK, Ordered, Credits, [Next]_vars PROVE TypeOK' /\ Ordered' /\ Credits'
  BY DEF LedgerInv
<1>1. ConfigsTyped
  BY DEF TypeOK, ConfigsTyped
<1>2. ASSUME NEW x \in Sample, NEW months \in Months, Configure(x, months)
      PROVE  TypeOK' /\ Ordered' /\ Credits'
  BY <1>1, <1>2, ConfigureKeeps DEF Configure, TypeOK, ConfigsTyped, Credits, rows
<1>3. ASSUME NEW c \in configs, NEW x \in Sample, Deactivate(c, x)
      PROVE  TypeOK' /\ Ordered' /\ Credits'
  BY <1>1, <1>3, DeactivateKeeps DEF Deactivate, TypeOK, ConfigsTyped, Credits, rows
<1>4. ASSUME NEW x \in Sample, Reopen(x) \/ \E confirm \in BOOLEAN : SaveSettlement(x, confirm)
      PROVE  TypeOK' /\ Ordered' /\ Credits'
  <2>1. UNCHANGED <<today, configs, rows, adjustments, merged>>
    BY <1>4 DEF Reopen, SaveSettlement
  <2> QED BY <1>4, <2>1, SettlementsTyped DEF TypeOK, Ordered, Credits, rows
<1>5. ASSUME NEW k \in Contract \cup {Other}, NEW a \in Amount, NEW x \in Sample,
             CreateIncome(k, a, x)
      PROVE  TypeOK' /\ Ordered' /\ Credits'
  <2>1. NewIncome(k, a, x) \in Income /\ incomes' = Append(incomes, NewIncome(k, a, x))
    BY <1>5, NewIncomeTyped, Numbers DEF CreateIncome, Mutable
  <2>2. UNCHANGED <<today, configs, settlements, expenses, adjustments, merged>>
    BY <1>5 DEF CreateIncome
  <2>3. incomes' \in Seq(Income) /\ Credits'
    BY <2>1, <2>2, IncomeAdded
  <2> QED BY <2>2, <2>3 DEF TypeOK, Ordered
<1>6. ASSUME NEW k \in Contract, NEW a \in Amount, NEW b \in Amount, NEW x \in Sample,
             PaymentWithCredit(k, a, x, b)
      PROVE  TypeOK' /\ Ordered' /\ Credits'
  <2> DEFINE r == NewIncome(k, a, x)
             d == Credit(k, b, x, Len(incomes) + 1)
  <2>1. r \in Income /\ incomes' = Append(incomes, r) /\ adjustments' = adjustments \cup {d}
    BY <1>6, NewIncomeTyped, Numbers DEF PaymentWithCredit, Mutable
  <2>2. Len(incomes) + 1 \in OldKey .. MaxRows
    <3>1. incomes \in Seq(Income) /\ expenses \in Seq(Expense)
      BY DEF TypeOK
    <3> QED BY <1>6, <3>1, Numbers DEF PaymentWithCredit, HasRoom, OldKey
  <2>3. d \in Adjustment
    BY <2>2, CreditTyped
  <2>4. /\ d.of = Len(incomes) + 1 /\ r.state = "active" /\ r.amount > 0
        /\ r.contract = d.contract /\ r.date = d.date
    BY Numbers DEF Credit, NewIncome
  <2>5. UNCHANGED <<today, configs, settlements, expenses, merged>>
    BY <1>6 DEF PaymentWithCredit
  <2> HIDE DEF r, d
  <2>6. incomes' \in Seq(Income) /\ Credits'
    BY <2>1, <2>4, IncomeAdded
  <2> QED BY <2>1, <2>3, <2>5, <2>6 DEF TypeOK, Ordered
<1>7. ASSUME NEW i \in DOMAIN incomes, IncomeStep(i)
      PROVE  TypeOK' /\ Ordered' /\ Credits'
  <2>1. PICK r \in Income : incomes' = [incomes EXCEPT ![i] = r]
    BY <1>7, IncomeStepRow
  <2>2. UNCHANGED <<today, configs, settlements, expenses, adjustments, merged>> /\ KeepsCredit(i)
    BY <1>7, IncomeStepRow
  <2>3. /\ incomes' \in Seq(Income) /\ DOMAIN incomes' = DOMAIN incomes
        /\ \A j \in DOMAIN incomes \ {i} : incomes'[j] = incomes[j]
    BY <2>1, RowEdited
  <2>4. \A a \in adjustments : a.of > 0 => a.of # i
    BY <2>2 DEF Credits, KeepsCredit
  <2>5. Credits'
    BY <2>2, <2>3, <2>4 DEF Credits
  <2> QED BY <2>2, <2>3, <2>5 DEF TypeOK, Ordered
<1>8. ASSUME NEW i \in DOMAIN incomes, NEW k \in Contract, LinkIncome(i, k)
      PROVE  TypeOK' /\ Ordered' /\ Credits'
  <2> DEFINE r == [incomes[i] EXCEPT !.contract = k]
  <2>1. r \in Income
    <3>1. incomes[i] \in Income
      BY DEF TypeOK
    <3> QED BY <3>1 DEF Income
  <2>2. /\ incomes' = [incomes EXCEPT ![i] = r]
        /\ UNCHANGED <<today, configs, settlements, expenses, adjustments, merged>>
    BY <1>8 DEF LinkIncome
  <2> HIDE DEF r
  <2>3. /\ incomes' \in Seq(Income) /\ DOMAIN incomes' = DOMAIN incomes
        /\ \A j \in DOMAIN incomes \ {i} : incomes'[j] = incomes[j]
    BY <2>1, <2>2, RowEdited
  <2>4. \A a \in adjustments : a.contract # Unlinked
    BY LedgerAssumption DEF TypeOK, Adjustment
  <2>5. \A a \in adjustments : a.of > 0 => a.of # i
    BY <1>8, <2>4 DEF Credits, LinkIncome
  <2>6. Credits'
    BY <2>2, <2>3, <2>5 DEF Credits
  <2> QED BY <2>2, <2>3, <2>6 DEF TypeOK, Ordered
<1>9. ASSUME NEW k \in Contract, NEW m \in Contract, Reconcile(k, m)
      PROVE  TypeOK' /\ Ordered' /\ Credits'
  <2>1. incomes \in Seq(Income) /\ \A i \in DOMAIN incomes : incomes[i] \in Income
    BY DEF TypeOK
  <2>2. \A i \in DOMAIN incomes : [incomes[i] EXCEPT !.contract = m] \in Income
    BY <2>1 DEF Income
  <2>3. /\ incomes' = [i \in DOMAIN incomes |->
                          IF incomes[i].contract = k THEN [incomes[i] EXCEPT !.contract = m]
                          ELSE incomes[i]]
        /\ \A a \in adjustments : a.contract # k
        /\ UNCHANGED <<today, configs, settlements, expenses, adjustments>>
        /\ merged' = merged \cup {k}
    BY <1>9 DEF Reconcile
  <2>4. \A i \in DOMAIN incomes : incomes'[i] \in Income
    BY <2>1, <2>2, <2>3
  <2>5. incomes' \in Seq(Income) /\ DOMAIN incomes' = DOMAIN incomes
    BY <2>1, <2>3, <2>4
  <2>6. \A a \in adjustments : a.of > 0 => incomes'[a.of] = incomes[a.of]
    BY <2>3 DEF Credits
  <2>7. Credits'
    BY <2>3, <2>5, <2>6 DEF Credits
  <2> QED BY <2>3, <2>5, <2>7 DEF TypeOK, Ordered
<1>10. ASSUME NEW k \in Contract, NEW a \in Amount, NEW i \in {0} \cup DOMAIN incomes,
              Refund(k, a, i)
       PROVE  TypeOK' /\ Ordered' /\ Credits'
  <2> DEFINE r == NewIncome(k, -a, today)
             d == [kind |-> "refund", contract |-> k, amount |-> a, date |-> today,
                   origin |-> i, of |-> NotPayment, linked |-> Len(incomes) + 1]
  <2>1. r \in Income
    <3>1. today \in Sample
      BY DEF TypeOK
    <3>2. HasPeriod(today)
      BY <1>10 DEF Refund, Mutable
    <3> QED BY <3>1, <3>2, NewIncomeTyped, Numbers
  <2>2. incomes' = Append(incomes, r) /\ adjustments' = adjustments \cup {d}
    BY <1>10 DEF Refund
  <2>3. i \in 0 .. MaxRows /\ Len(incomes) + 1 \in 0 .. MaxRows
    <3>1. incomes \in Seq(Income) /\ expenses \in Seq(Expense)
      BY DEF TypeOK
    <3> QED BY <1>10, <3>1, Numbers DEF Refund, HasRoom
  <2>4. d \in Adjustment
    <3>1. today \in Sample /\ a \in Int /\ NotPayment \in OldKey .. MaxRows
      BY Numbers DEF TypeOK, NotPayment
    <3> QED BY <2>3, <3>1 DEF Adjustment
  <2>5. ~(d.of > 0)
    BY DEF NotPayment
  <2>6. UNCHANGED <<today, configs, settlements, expenses, merged>>
    BY <1>10 DEF Refund
  <2> HIDE DEF r, d
  <2>7. incomes' \in Seq(Income) /\ Credits'
    BY <2>1, <2>2, <2>5, IncomeAdded
  <2> QED BY <2>2, <2>4, <2>6, <2>7 DEF TypeOK, Ordered
<1>11. ASSUME NEW k \in Contract, NEW a \in Amount, NEW x \in Sample, NEW waiver \in BOOLEAN,
              CreditAdjustment(k, a, x, waiver)
       PROVE  TypeOK' /\ Ordered' /\ Credits'
  <2>1. /\ adjustments' = adjustments \cup {Credit(k, a, x, NotPayment)}
        /\ UNCHANGED <<today, configs, settlements, rows, merged>>
    BY <1>11 DEF CreditAdjustment
  <2>2. Credit(k, a, x, NotPayment) \in Adjustment
    BY CreditTyped, Numbers DEF NotPayment
  <2>3. ~(Credit(k, a, x, NotPayment).of > 0)
    BY DEF Credit, NotPayment
  <2>4. Credits'
    BY <2>1, <2>3 DEF Credits, rows
  <2> QED BY <2>1, <2>2, <2>4 DEF TypeOK, Ordered, rows
<1>12. CASE ExpenseStep
  BY <1>12, ExpensesTyped DEF TypeOK, Ordered, Credits
<1>13. CASE NextDay
  <2>1. PICK x \in Sample : x > today /\ today' = Min({y \in Sample : y > today})
    BY <1>13 DEF NextDay
  <2>2. {y \in Sample : y > today} \subseteq Nat
    BY SampleDates
  <2>3. today' \in Sample
    BY <2>1, <2>2, MinNat
  <2> QED BY <1>13, <2>3 DEF NextDay, TypeOK, Ordered, Credits, rows
<1>14. CASE UNCHANGED vars
  BY <1>14 DEF vars, TypeOK, Ordered, Credits
<1> QED BY <1>2, <1>3, <1>4, <1>5, <1>6, <1>7, <1>8, <1>9, <1>10, <1>11, <1>12, <1>13, <1>14
        DEF Next, IncomeStep, ExpenseStep

-----------------------------------------------------------------------------
(* LedgerInv holds in every reachable state. *)
THEOREM LedgerCorrect == Spec => []LedgerInv
BY LedgerInit, LedgerStep, PTL DEF Spec

(* Rows, configurations and settlements stay well formed; a settlement is    *)
(* found by the start of its period and there is never a second one.         *)
THEOREM TypeCorrect == Spec => []TypeOK
<1>1. LedgerInv => TypeOK
  BY DEF LedgerInv
<1> QED BY <1>1, LedgerCorrect, PTL

(* However configurations were added, cut short and ended, no date is        *)
(* covered by two of them (configure, deactivate).                           *)
THEOREM NoAmbiguousDate == Spec => []PeriodsDisjoint
<1>1. ASSUME LedgerInv PROVE PeriodsDisjoint
  <2>1. SUFFICES ASSUME NEW c \in configs, NEW d \in configs, NEW x \in Sample,
                        Covers(c, x), Covers(d, x)
                 PROVE  c = d
    BY DEF PeriodsDisjoint
  <2>2. /\ c.from \in Int /\ c.to \in Int /\ d.from \in Int /\ d.to \in Int /\ x \in Int
    BY <1>1, ConfigNumbers, SampleInt DEF LedgerInv, TypeOK
  <2>3. c.from = d.from
    BY <1>1, <2>1, <2>2 DEF LedgerInv, Ordered, Covers
  <2> QED BY <1>1, <2>3 DEF LedgerInv, TypeOK
<1> QED BY <1>1, LedgerCorrect, PTL

(* A discount given with a payment never loses that payment: it is neither   *)
(* edited, voided, deleted, moved to another contract nor linked away        *)
(* (update_income, void_income, delete_income, reconcile).                   *)
THEOREM CreditKeepsItsPayment == Spec => []CreditKeepsPayment
<1>1. LedgerInv => CreditKeepsPayment
  BY DEF LedgerInv, Credits, CreditKeepsPayment
<1> QED BY <1>1, LedgerCorrect, PTL

-----------------------------------------------------------------------------
(* Months and periods. *)

LEMMA Calendar ==
    ASSUME NEW x \in Int
    PROVE  /\ x = 31 * MonthOf(x) + DayOf(x) - 1 /\ Prev(x) \in Int /\ Prev(x) < x
           /\ MonthOf(x) \in Int /\ DayOf(x) \in 1 .. 31
<1>1. x = 31 * MonthOf(x) + DayOf(x) - 1 /\ MonthOf(x) \in Int /\ DayOf(x) \in 1 .. 31
  BY DEF MonthOf, DayOf
<1>2. CASE DayOf(x) > 1
  BY <1>1, <1>2 DEF Prev
<1>3. CASE ~(DayOf(x) > 1)
  <2>1. PICK d \in 28 .. 31 : Prev(x) = 31 * (MonthOf(x) - 1) + d - 1
    BY <1>1, <1>3, MonthLengths DEF Prev, DateOf
  <2> QED BY <1>1, <1>3, <2>1
<1> QED BY <1>1, <1>2, <1>3

(* The month after n months, and the day in it. *)
LEMMA AddMonthsDay ==
    ASSUME NEW x \in Int, NEW n \in Int
    PROVE  /\ AddMonths(x, n) \in Int
           /\ MonthOf(AddMonths(x, n)) = MonthOf(x) + n
           /\ DayOf(AddMonths(x, n)) = Earlier(DayOf(x), DaysIn(MonthOf(x) + n))
<1> DEFINE m == MonthOf(x) + n
           d == Earlier(DayOf(x), DaysIn(m))
<1>1. m \in Int /\ d \in 1 .. 31
  <2>1. MonthOf(x) \in Int /\ DayOf(x) \in 1 .. 31
    BY Calendar
  <2>2. DaysIn(m) \in 28 .. 31
    BY <2>1, MonthLengths
  <2> QED BY <2>1, <2>2 DEF Earlier
<1>2. AddMonths(x, n) = 31 * m + d - 1
  BY DEF AddMonths, DateOf
<1> HIDE DEF m, d
<1>3. AddMonths(x, n) \in Int /\ MonthOf(AddMonths(x, n)) = m /\ DayOf(AddMonths(x, n)) = d
  BY <1>1, <1>2 DEF MonthOf, DayOf
<1> QED BY <1>3 DEF m, d

(* Dates order as their months do. *)
LEMMA MonthOrder ==
    ASSUME NEW x \in Int, NEW y \in Int, MonthOf(x) < MonthOf(y)
    PROVE  x < y
<1>1. x = 31 * MonthOf(x) + DayOf(x) - 1 /\ MonthOf(x) \in Int /\ DayOf(x) \in 1 .. 31
  BY Calendar
<1>2. y = 31 * MonthOf(y) + DayOf(y) - 1 /\ MonthOf(y) \in Int /\ DayOf(y) \in 1 .. 31
  BY Calendar
<1> QED BY <1>1, <1>2

LEMMA AddMonthsOrder ==
    ASSUME NEW x \in Int, NEW a \in Int, NEW b \in Int, a <= b
    PROVE  AddMonths(x, a) <= AddMonths(x, b)
<1>1. CASE a = b
  BY <1>1, AddMonthsDay
<1>2. CASE a < b
  <2>1. MonthOf(AddMonths(x, a)) < MonthOf(AddMonths(x, b))
    BY <1>2, AddMonthsDay, Calendar
  <2>2. AddMonths(x, a) \in Int /\ AddMonths(x, b) \in Int
    BY AddMonthsDay
  <2>3. AddMonths(x, a) < AddMonths(x, b)
    BY <2>1, <2>2, MonthOrder
  <2> QED BY <2>2, <2>3
<1> QED BY <1>1, <1>2

(* Months in two steps end no later than in one: a day that was clamped on   *)
(* the way stays so.                                                         *)
LEMMA AddMonthsTwice ==
    ASSUME NEW x \in Int, NEW a \in Int, NEW b \in Int
    PROVE  AddMonths(AddMonths(x, a), b) <= AddMonths(x, a + b)
<1> DEFINE y == AddMonths(x, a)
           u == AddMonths(y, b)
           v == AddMonths(x, a + b)
<1>1. y \in Int /\ MonthOf(y) = MonthOf(x) + a /\ DayOf(y) <= DayOf(x)
  <2>1. DayOf(x) \in Int /\ MonthOf(x) + a \in Int
    BY Calendar
  <2>2. DaysIn(MonthOf(x) + a) \in Int
    BY <2>1, MonthLengths
  <2>3. Earlier(DayOf(x), DaysIn(MonthOf(x) + a)) <= DayOf(x)
    BY <2>1, <2>2 DEF Earlier
  <2> QED BY <2>3, AddMonthsDay
<1>2. u \in Int /\ MonthOf(u) = MonthOf(y) + b /\ DayOf(u) = Earlier(DayOf(y), DaysIn(MonthOf(y) + b))
  BY <1>1, AddMonthsDay
<1>3. v \in Int /\ MonthOf(v) = MonthOf(x) + (a + b)
      /\ DayOf(v) = Earlier(DayOf(x), DaysIn(MonthOf(x) + (a + b)))
  BY AddMonthsDay
<1> HIDE DEF y, u, v
<1>4. MonthOf(x) \in Int
  BY Calendar
<1>5. MonthOf(u) = MonthOf(v) /\ MonthOf(y) + b = MonthOf(x) + (a + b)
  BY <1>1, <1>2, <1>3, <1>4
<1>6. DayOf(u) <= DayOf(v)
  <2>1. DayOf(x) \in Int /\ DayOf(y) \in Int /\ MonthOf(y) + b \in Int
    BY <1>1, <1>4, Calendar
  <2>2. DaysIn(MonthOf(y) + b) \in Int
    BY <2>1, MonthLengths
  <2> QED BY <1>1, <1>2, <1>3, <1>5, <2>1, <2>2 DEF Earlier
<1>7. u <= v
  <2>1. u = 31 * MonthOf(u) + DayOf(u) - 1 /\ MonthOf(u) \in Int /\ DayOf(u) \in Int
    BY <1>2, Calendar
  <2>2. v = 31 * MonthOf(v) + DayOf(v) - 1 /\ MonthOf(v) \in Int /\ DayOf(v) \in Int
    BY <1>3, Calendar
  <2> QED BY <1>2, <1>3, <1>5, <1>6, <2>1, <2>2
<1> QED BY <1>7 DEF y, u, v

(* The whole months between two dates. *)
LEMMA MonthsToBounds ==
    ASSUME NEW c, c.from \in Int, NEW y \in Int
    PROVE  /\ MonthsTo(c, y) \in Int
           /\ AddMonths(c.from, MonthsTo(c, y)) <= y
           /\ y < AddMonths(c.from, MonthsTo(c, y) + 1)
<1> DEFINE f == c.from
           n == MonthOf(y) - MonthOf(f)
<1>1. n \in Int /\ MonthOf(f) \in Int /\ MonthOf(y) \in Int
  BY Calendar
<1>2. ASSUME NEW k \in Int
      PROVE  AddMonths(f, k) \in Int /\ MonthOf(AddMonths(f, k)) = MonthOf(f) + k
  BY <1>2, AddMonthsDay
<1>3. CASE AddMonths(f, n) > y
  <2>1. MonthsTo(c, y) = n - 1
    BY <1>3 DEF MonthsTo
  <2>2. MonthOf(AddMonths(f, n - 1)) < MonthOf(y)
    BY <1>1, <1>2
  <2>3. AddMonths(f, n - 1) < y
    BY <1>1, <1>2, <2>2, MonthOrder
  <2>4. (n - 1) + 1 = n
    BY <1>1
  <2> QED BY <1>1, <1>2, <1>3, <2>1, <2>3, <2>4
<1>4. CASE ~(AddMonths(f, n) > y)
  <2>1. MonthsTo(c, y) = n
    BY <1>4 DEF MonthsTo
  <2>2. MonthOf(y) < MonthOf(AddMonths(f, n + 1))
    BY <1>1, <1>2
  <2>3. y < AddMonths(f, n + 1)
    BY <1>1, <1>2, <2>2, MonthOrder
  <2> QED BY <1>1, <1>2, <1>4, <2>1, <2>3
<1> QED BY <1>3, <1>4

LEMMA NoMonths ==
    ASSUME NEW x \in Sample
    PROVE  AddMonths(x, 0) = x
<1>1. x \in Int /\ DayOf(x) <= DaysIn(MonthOf(x))
  BY LedgerAssumption, SampleInt DEF IsDate
<1>2. MonthOf(x) + 0 = MonthOf(x)
  BY <1>1, Calendar
<1> QED BY <1>1, <1>2, Calendar DEF AddMonths, DateOf, Earlier

LEMMA MonthsToNat ==
    ASSUME NEW c, c.from \in Sample, NEW y \in Int, c.from <= y
    PROVE  MonthsTo(c, y) \in Nat
<1> DEFINE k == MonthsTo(c, y)
<1>1. c.from \in Int /\ k \in Int /\ y < AddMonths(c.from, k + 1)
  BY SampleInt, MonthsToBounds
<1> HIDE DEF k
<1>2. ASSUME k + 1 <= 0 PROVE FALSE
  <2>1. k + 1 \in Int /\ AddMonths(c.from, k + 1) \in Int
    <3>1. k + 1 \in Int
      BY <1>1
    <3> QED BY <1>1, <3>1, AddMonthsDay
  <2>2. AddMonths(c.from, k + 1) <= AddMonths(c.from, 0)
    BY <1>1, <1>2, <2>1, AddMonthsOrder
  <2>3. y < c.from
    BY <1>1, <2>1, <2>2, NoMonths
  <2> QED BY <1>1, <2>3
<1>3. k \in Nat
  BY <1>1, <1>2
<1> QED BY <1>3 DEF k

(* Whole multiples of a duration. *)
LEMMA Multiples ==
    ASSUME NEW k \in Int, NEW m \in 1 .. 24
    PROVE  /\ (k \div m) \in Int /\ (k \div m) * m \in Int
           /\ (k \div m) * m <= k /\ k < (k \div m) * m + m
           /\ k >= 0 => (k \div m) * m >= 0
OBVIOUS

LEMMA SameMultiple ==
    ASSUME NEW j \in Int, NEW k \in Int, NEW m \in 1 .. 24,
           (j \div m) * m <= k, k < (j \div m) * m + m
    PROVE  k \div m = j \div m
OBVIOUS

LEMMA ConfigTypes ==
    ASSUME NEW c \in Config
    PROVE  c.from \in Sample /\ c.from \in Int /\ c.to \in Int /\ c.months \in 1 .. 24
<1>1. c.from \in Sample /\ c.to \in Int /\ c.months \in Months
  BY DEF Config
<1> QED BY <1>1, LedgerAssumption, SampleInt

(* The period of a date begins at or after the configuration and at or before *)
(* the date; every date in it has the same period.                            *)
LEMMA SamePeriod ==
    ASSUME NEW c \in Config, NEW x \in Sample, c.from <= x
    PROVE  /\ StartIn(c, x) \in Int /\ EndIn(c, x) \in Int
           /\ c.from <= StartIn(c, x) /\ StartIn(c, x) <= x
           /\ c.to # NoEnd => EndIn(c, x) <= c.to
           /\ \A y \in Sample : StartIn(c, x) <= y /\ y <= EndIn(c, x)
                                => StartIn(c, y) = StartIn(c, x) /\ EndIn(c, y) = EndIn(c, x)
<1> DEFINE f == c.from
           m == c.months
           j == MonthsTo(c, x)
           b == (j \div m) * m
           s == AddMonths(f, b)
           t == AddMonths(s, m)
<1>1. f \in Sample /\ f \in Int /\ m \in 1 .. 24 /\ m \in Int /\ x \in Int /\ c.to \in Int
  BY ConfigTypes, SampleInt
<1>2. j \in Nat /\ j \in Int /\ AddMonths(f, j) <= x
  BY <1>1, MonthsToNat, MonthsToBounds
<1>3. b \in Int /\ 0 <= b /\ b <= j
  BY <1>1, <1>2, Multiples
<1>4. s = StartIn(c, x)
  BY DEF StartIn
<1>5. EndIn(c, x) = IF c.to = NoEnd THEN Prev(t) ELSE Earlier(Prev(t), c.to)
  BY <1>4 DEF EndIn
<1>6. \A y \in Sample : MonthsTo(c, y) \div m = j \div m
                        => StartIn(c, y) = s /\ EndIn(c, y) = EndIn(c, x)
  BY DEF StartIn, EndIn
<1> HIDE DEF j, b, s, t
<1>7. s \in Int /\ t \in Int /\ Prev(t) \in Int /\ Prev(t) < t
  <2>1. s \in Int
    BY <1>1, <1>3, AddMonthsDay DEF s
  <2>2. t \in Int
    BY <1>1, <2>1, AddMonthsDay DEF t
  <2>3. Prev(t) \in Int /\ Prev(t) < t
    BY <2>2, Calendar
  <2> QED BY <2>1, <2>2, <2>3
<1>8. f <= s
  <2>1. AddMonths(f, 0) <= s
    BY <1>1, <1>3, AddMonthsOrder DEF s
  <2> QED BY <1>1, <2>1, NoMonths
<1>9. s <= x
  <2>1. s <= AddMonths(f, j)
    BY <1>1, <1>2, <1>3, AddMonthsOrder DEF s
  <2>2. AddMonths(f, j) \in Int
    BY <1>1, <1>2, AddMonthsDay
  <2> QED BY <1>1, <1>2, <1>7, <2>1, <2>2
<1>10. EndIn(c, x) \in Int /\ EndIn(c, x) < t /\ (c.to # NoEnd => EndIn(c, x) <= c.to)
  BY <1>1, <1>5, <1>7 DEF Earlier
<1>11. ASSUME NEW y \in Sample, s <= y, y <= EndIn(c, x)
       PROVE  MonthsTo(c, y) \div m = j \div m
  <2> DEFINE k == MonthsTo(c, y)
  <2>1. y \in Int /\ y < t
    BY <1>7, <1>10, <1>11, SampleInt
  <2>2. k \in Int /\ AddMonths(f, k) <= y /\ y < AddMonths(f, k + 1)
    BY <1>1, <2>1, MonthsToBounds
  <2> HIDE DEF k
  <2>3. k + 1 \in Int /\ b + m \in Int
    BY <1>1, <1>3, <2>2
  <2>4. AddMonths(f, k) \in Int /\ AddMonths(f, k + 1) \in Int /\ AddMonths(f, b + m) \in Int
    BY <1>1, <2>2, <2>3, AddMonthsDay
  <2>5. b <= k
    <3>1. SUFFICES ASSUME k + 1 <= b PROVE FALSE
      BY <1>3, <2>2
    <3>2. AddMonths(f, k + 1) <= s
      BY <1>1, <1>3, <2>3, <3>1, AddMonthsOrder DEF s
    <3> QED BY <1>7, <1>11, <2>1, <2>2, <2>4, <3>2
  <2>6. k < b + m
    <3>1. SUFFICES ASSUME b + m <= k PROVE FALSE
      BY <2>2, <2>3
    <3>2. t <= AddMonths(f, b + m)
      BY <1>1, <1>3, AddMonthsTwice DEF s, t
    <3>3. AddMonths(f, b + m) <= AddMonths(f, k)
      BY <1>1, <2>2, <2>3, <3>1, AddMonthsOrder
    <3> QED BY <1>7, <2>1, <2>2, <2>4, <3>2, <3>3
  <2>7. k \div m = j \div m
    <3>1. j \in Int /\ (j \div m) * m <= k /\ k < (j \div m) * m + m
      BY <1>2, <2>5, <2>6 DEF b
    <3> QED BY <1>1, <2>2, <3>1, SameMultiple
  <2> QED BY <2>7 DEF k
<1> QED BY <1>1, <1>4, <1>6, <1>7, <1>8, <1>9, <1>10, <1>11

-----------------------------------------------------------------------------
(* Totals.  A step that leaves the rows of a period as they were, or moves   *)
(* rows that are in it neither before nor after, keeps its totals.           *)

InIncome(w, s, e) == w.state = "active" /\ w.start = s /\ s <= w.date /\ w.date <= e
InExpense(w, s, e) == w.state = "completed" /\ s <= w.date /\ w.date <= e

LEMMA IncomeKept ==
    ASSUME NEW s, NEW e,
           \A i \in DOMAIN incomes \cup DOMAIN incomes' :
               /\ i \in DOMAIN incomes /\ InIncome(incomes[i], s, e)
                    => /\ i \in DOMAIN incomes' /\ InIncome(incomes'[i], s, e)
                       /\ incomes'[i].amount = incomes[i].amount
               /\ i \in DOMAIN incomes' /\ InIncome(incomes'[i], s, e)
                    => i \in DOMAIN incomes /\ InIncome(incomes[i], s, e)
    PROVE  IncomeTotal(s, e)' = IncomeTotal(s, e)
<1>1. IncomeIn(s, e)' = IncomeIn(s, e)
  BY DEF IncomeIn, InIncome
<1>2. \A i \in IncomeIn(s, e) : incomes'[i].amount = incomes[i].amount
  BY DEF IncomeIn, InIncome
<1> QED BY <1>1, <1>2 DEF IncomeTotal

LEMMA ExpenseKept ==
    ASSUME NEW s, NEW e,
           \A i \in DOMAIN expenses \cup DOMAIN expenses' :
               /\ i \in DOMAIN expenses /\ InExpense(expenses[i], s, e)
                    => /\ i \in DOMAIN expenses' /\ InExpense(expenses'[i], s, e)
                       /\ expenses'[i].amount = expenses[i].amount
               /\ i \in DOMAIN expenses' /\ InExpense(expenses'[i], s, e)
                    => i \in DOMAIN expenses /\ InExpense(expenses[i], s, e)
    PROVE  ExpenseTotal(s, e)' = ExpenseTotal(s, e)
<1>1. ExpenseIn(s, e)' = ExpenseIn(s, e)
  BY DEF ExpenseIn, InExpense
<1>2. \A i \in ExpenseIn(s, e) : expenses'[i].amount = expenses[i].amount
  BY DEF ExpenseIn, InExpense
<1> QED BY <1>1, <1>2 DEF ExpenseTotal

(* One row is edited, and neither it nor what it becomes is in the period. *)
LEMMA IncomeEdited ==
    ASSUME TypeOK, NEW s, NEW e, NEW i \in DOMAIN incomes, NEW w,
           incomes' = [incomes EXCEPT ![i] = w],
           ~InIncome(incomes[i], s, e), ~InIncome(w, s, e)
    PROVE  IncomeTotal(s, e)' = IncomeTotal(s, e)
<1>1. /\ DOMAIN incomes' = DOMAIN incomes /\ incomes'[i] = w
      /\ \A j \in DOMAIN incomes \ {i} : incomes'[j] = incomes[j]
  BY DEF TypeOK
<1> QED BY <1>1, IncomeKept

LEMMA ExpenseEdited ==
    ASSUME TypeOK, NEW s, NEW e, NEW i \in DOMAIN expenses, NEW w,
           expenses' = [expenses EXCEPT ![i] = w],
           ~InExpense(expenses[i], s, e), ~InExpense(w, s, e)
    PROVE  ExpenseTotal(s, e)' = ExpenseTotal(s, e)
<1>1. /\ DOMAIN expenses' = DOMAIN expenses /\ expenses'[i] = w
      /\ \A j \in DOMAIN expenses \ {i} : expenses'[j] = expenses[j]
  BY DEF TypeOK
<1> QED BY <1>1, ExpenseKept

LEMMA IncomeAppended ==
    ASSUME TypeOK, NEW s, NEW e, NEW w, incomes' = Append(incomes, w), ~InIncome(w, s, e)
    PROVE  IncomeTotal(s, e)' = IncomeTotal(s, e)
<1>1. incomes \in Seq(Income)
  BY DEF TypeOK
<1>2. /\ DOMAIN incomes' = 1 .. Len(incomes) + 1 /\ DOMAIN incomes = 1 .. Len(incomes)
      /\ \A j \in DOMAIN incomes : incomes'[j] = incomes[j]
      /\ incomes'[Len(incomes) + 1] = w /\ Len(incomes) \in Nat
  BY <1>1
<1> QED BY <1>2, IncomeKept

LEMMA ExpenseAppended ==
    ASSUME TypeOK, NEW s, NEW e, NEW w, expenses' = Append(expenses, w), ~InExpense(w, s, e)
    PROVE  ExpenseTotal(s, e)' = ExpenseTotal(s, e)
<1>1. expenses \in Seq(Expense)
  BY DEF TypeOK
<1>2. /\ DOMAIN expenses' = 1 .. Len(expenses) + 1 /\ DOMAIN expenses = 1 .. Len(expenses)
      /\ \A j \in DOMAIN expenses : expenses'[j] = expenses[j]
      /\ expenses'[Len(expenses) + 1] = w /\ Len(expenses) \in Nat
  BY <1>1
<1> QED BY <1>2, ExpenseKept

(* No step changes what a closed period sums. *)
Keeps(r) == /\ IncomeTotal(r.start, r.end)' = IncomeTotal(r.start, r.end)
            /\ Standing(r) => ExpenseTotal(r.start, r.end)' = ExpenseTotal(r.start, r.end)

LEMMA SameIncomes ==
    ASSUME NEW s, NEW e, UNCHANGED incomes
    PROVE  IncomeTotal(s, e)' = IncomeTotal(s, e)
BY IncomeKept

LEMMA SameExpenses ==
    ASSUME NEW s, NEW e, UNCHANGED expenses
    PROVE  ExpenseTotal(s, e)' = ExpenseTotal(s, e)
BY ExpenseKept

(* A new row is posted to a period that is open. *)
LEMMA NewRowOutside ==
    ASSUME NEW r \in settlements, r.confirmed, NEW k, NEW a, NEW x \in Sample, Mutable(x)
    PROVE  ~InIncome(NewIncome(k, a, x), r.start, r.end)
BY DEF Mutable, Closed, InIncome, NewIncome

LEMMA IncomeStepKeeps ==
    ASSUME TypeOK, NEW r \in settlements, r.confirmed,
           NEW i \in DOMAIN incomes, IncomeStep(i)
    PROVE  Keeps(r)
<1>1. incomes[i] \in Income /\ UNCHANGED expenses
  <2>1. incomes[i] \in Income
    BY DEF TypeOK
  <2> QED BY <2>1 DEF IncomeStep, UpdateIncome, VoidIncome, DeleteIncome
<1>2. ~InIncome(incomes[i], r.start, r.end)
  BY DEF IncomeStep, UpdateIncome, VoidIncome, DeleteIncome, CanChange, IncomeMutable, Closed,
         InIncome
<1>3. ASSUME NEW a \in Amount \cup {incomes[i].amount}, NEW x \in Sample, UpdateIncome(i, a, x)
      PROVE  IncomeTotal(r.start, r.end)' = IncomeTotal(r.start, r.end)
  <2> DEFINE w == [incomes[i] EXCEPT !.amount = a, !.date = x, !.start = StartOf(x)]
  <2>1. incomes' = [incomes EXCEPT ![i] = w]
    BY <1>3 DEF UpdateIncome
  <2>2. w.start = StartOf(x)
    BY <1>1 DEF Income
  <2>3. ~InIncome(w, r.start, r.end)
    BY <1>3, <2>2 DEF UpdateIncome, Mutable, Closed, InIncome
  <2> HIDE DEF w
  <2> QED BY <1>2, <2>1, <2>3, IncomeEdited
<1>4. ASSUME VoidIncome(i) \/ DeleteIncome(i)
      PROVE  IncomeTotal(r.start, r.end)' = IncomeTotal(r.start, r.end)
  <2>1. PICK st \in {"voided", "deleted"} : incomes' = [incomes EXCEPT ![i] = [@ EXCEPT !.state = st]]
    BY <1>4 DEF VoidIncome, DeleteIncome
  <2> DEFINE w == [incomes[i] EXCEPT !.state = st]
  <2>2. w.state = st
    BY <1>1 DEF Income
  <2>3. ~InIncome(w, r.start, r.end)
    BY <2>2 DEF InIncome
  <2>4. incomes' = [incomes EXCEPT ![i] = w]
    BY <2>1
  <2> HIDE DEF w
  <2> QED BY <1>2, <2>3, <2>4, IncomeEdited
<1>5. IncomeTotal(r.start, r.end)' = IncomeTotal(r.start, r.end)
  BY <1>3, <1>4 DEF IncomeStep
<1> QED BY <1>1, <1>5, SameExpenses DEF Keeps

(* A payment that gets another contract keeps its amount and its date. *)
LEMMA ContractStepRows ==
    ASSUME TypeOK,
           \/ \E i \in DOMAIN incomes, k \in Contract : LinkIncome(i, k)
           \/ \E k, m \in Contract : Reconcile(k, m)
    PROVE  /\ DOMAIN incomes' = DOMAIN incomes
           /\ \A i \in DOMAIN incomes :
                 /\ incomes'[i].amount = incomes[i].amount /\ incomes'[i].state = incomes[i].state
                 /\ incomes'[i].start = incomes[i].start /\ incomes'[i].date = incomes[i].date
<1>1. \A i \in DOMAIN incomes : incomes[i] \in Income
  BY DEF TypeOK
<1>2. \A i \in DOMAIN incomes, k \in Contract :
         LET w == [incomes[i] EXCEPT !.contract = k]
         IN  /\ w.amount = incomes[i].amount /\ w.state = incomes[i].state
             /\ w.start = incomes[i].start /\ w.date = incomes[i].date
  BY <1>1 DEF Income
<1>3. ASSUME NEW i \in DOMAIN incomes, NEW k \in Contract, LinkIncome(i, k)
      PROVE  /\ DOMAIN incomes' = DOMAIN incomes
             /\ \A j \in DOMAIN incomes :
                   incomes'[j] = incomes[j] \/ incomes'[j] = [incomes[j] EXCEPT !.contract = k]
  BY <1>3 DEF LinkIncome, TypeOK
<1>4. ASSUME NEW k \in Contract, NEW m \in Contract, Reconcile(k, m)
      PROVE  /\ DOMAIN incomes' = DOMAIN incomes
             /\ \A j \in DOMAIN incomes :
                   incomes'[j] = incomes[j] \/ incomes'[j] = [incomes[j] EXCEPT !.contract = m]
  BY <1>4 DEF Reconcile
<1>5. PICK k \in Contract :
            /\ DOMAIN incomes' = DOMAIN incomes
            /\ \A j \in DOMAIN incomes :
                  incomes'[j] = incomes[j] \/ incomes'[j] = [incomes[j] EXCEPT !.contract = k]
  BY <1>3, <1>4
<1> QED BY <1>2, <1>5

LEMMA ContractStepKeeps ==
    ASSUME TypeOK, NEW r,
           \/ \E i \in DOMAIN incomes, k \in Contract : LinkIncome(i, k)
           \/ \E k, m \in Contract : Reconcile(k, m)
    PROVE  Keeps(r)
<1>1. IncomeTotal(r.start, r.end)' = IncomeTotal(r.start, r.end)
  BY ContractStepRows, IncomeKept DEF InIncome
<1>2. UNCHANGED expenses
  BY DEF LinkIncome, Reconcile
<1> QED BY <1>1, <1>2, SameExpenses DEF Keeps

(* A completed expense changes only on dates that are in no closed period,   *)
(* which leaves a closed period alone whose dates are still in it.           *)
LEMMA ExpenseStepKeeps ==
    ASSUME TypeOK, NEW r \in settlements, r.confirmed, ExpenseStep
    PROVE  Keeps(r)
<1> SUFFICES ASSUME Standing(r)
             PROVE  ExpenseTotal(r.start, r.end)' = ExpenseTotal(r.start, r.end)
  BY ExpensesTyped, SameIncomes DEF Keeps
<1>1. UNCHANGED incomes /\ \A j \in DOMAIN expenses : expenses[j] \in Expense
  BY ExpensesTyped DEF TypeOK
<1>2. \A x \in Sample : Mutable(x) => ~(r.start <= x /\ x <= r.end)
  BY DEF Standing, Mutable, Closed
<1>3. \A j \in DOMAIN expenses : expenses[j].date \in Sample
  BY <1>1 DEF Expense
<1>4. ASSUME NEW p \in BOOLEAN, NEW a \in Amount, NEW x \in Sample, CreateExpense(p, a, x)
      PROVE  ExpenseTotal(r.start, r.end)' = ExpenseTotal(r.start, r.end)
  <2> DEFINE w == [amount |-> a, date |-> x, incurred |-> IF p THEN x ELSE 0,
                   personal |-> p, state |-> IF p THEN "pending" ELSE "completed"]
  <2>1. expenses' = Append(expenses, w)
    BY <1>4 DEF CreateExpense
  <2>2. ~InExpense(w, r.start, r.end)
    BY <1>2, <1>4 DEF CreateExpense, InExpense
  <2> HIDE DEF w
  <2> QED BY <1>1, <2>1, <2>2, ExpenseAppended
<1>5. ASSUME NEW j \in DOMAIN expenses, NEW a \in Amount, NEW x \in Sample,
             NEW st \in {"pending", "completed"}, UpdateExpense(j, a, x, st)
      PROVE  ExpenseTotal(r.start, r.end)' = ExpenseTotal(r.start, r.end)
  <2> DEFINE w == [expenses[j] EXCEPT !.amount = a, !.date = x, !.state = st,
                                      !.incurred = IF st = "pending" THEN x
                                                  ELSE expenses[j].incurred]
  <2>1. expenses' = [expenses EXCEPT ![j] = w]
    BY <1>5 DEF UpdateExpense
  <2>2. w.state = st /\ w.date = x
    BY <1>1 DEF Expense
  <2> HIDE DEF w
  <2>3. ~InExpense(w, r.start, r.end)
    BY <1>2, <1>5, <2>2 DEF UpdateExpense, InExpense
  <2>4. ~InExpense(expenses[j], r.start, r.end)
    BY <1>2, <1>3, <1>5 DEF UpdateExpense, InExpense
  <2> QED BY <1>1, <2>1, <2>3, <2>4, ExpenseEdited
<1>6. ASSUME NEW j \in DOMAIN expenses, NEW x \in Sample, Reimburse(j, x)
      PROVE  ExpenseTotal(r.start, r.end)' = ExpenseTotal(r.start, r.end)
  <2> DEFINE w == [expenses[j] EXCEPT !.date = x, !.state = "completed"]
  <2>1. expenses' = [expenses EXCEPT ![j] = w]
    BY <1>6 DEF Reimburse
  <2>2. w.date = x
    BY <1>1 DEF Expense
  <2> HIDE DEF w
  <2>3. ~InExpense(w, r.start, r.end)
    BY <1>2, <1>6, <2>2 DEF Reimburse, InExpense
  <2>4. ~InExpense(expenses[j], r.start, r.end)
    BY <1>6 DEF Reimburse, InExpense
  <2> QED BY <1>1, <2>1, <2>3, <2>4, ExpenseEdited
<1>7. ASSUME NEW j \in DOMAIN expenses, DeleteExpense(j)
      PROVE  ExpenseTotal(r.start, r.end)' = ExpenseTotal(r.start, r.end)
  <2> DEFINE w == [expenses[j] EXCEPT !.state = "deleted"]
  <2>1. expenses' = [expenses EXCEPT ![j] = w]
    BY <1>7 DEF DeleteExpense
  <2>2. w.state = "deleted"
    BY <1>1 DEF Expense
  <2> HIDE DEF w
  <2>3. ~InExpense(w, r.start, r.end)
    BY <2>2 DEF InExpense
  <2>4. ~InExpense(expenses[j], r.start, r.end)
    BY <1>2, <1>3, <1>7 DEF DeleteExpense, InExpense
  <2> QED BY <1>1, <2>1, <2>3, <2>4, ExpenseEdited
<1> QED BY <1>4, <1>5, <1>6, <1>7 DEF ExpenseStep

LEMMA StepKeeps ==
    ASSUME TypeOK, [Next]_vars, NEW r \in settlements, r.confirmed
    PROVE  Keeps(r)
<1>1. ASSUME UNCHANGED rows PROVE Keeps(r)
  BY <1>1, SameIncomes, SameExpenses DEF Keeps, rows
<1>2. ASSUME NEW k, NEW a, NEW x \in Sample, Mutable(x),
             incomes' = Append(incomes, NewIncome(k, a, x)), UNCHANGED expenses
      PROVE  Keeps(r)
  BY <1>2, NewRowOutside, IncomeAppended, SameExpenses DEF Keeps
<1>3. CASE \/ \E x \in Sample, months \in Months : Configure(x, months)
           \/ \E c \in configs, x \in Sample : Deactivate(c, x)
           \/ \E x \in Sample, confirm \in BOOLEAN : SaveSettlement(x, confirm)
           \/ \E x \in Sample : Reopen(x)
           \/ \E k \in Contract, a \in Amount, x \in Sample, waiver \in BOOLEAN :
                 CreditAdjustment(k, a, x, waiver)
           \/ NextDay \/ UNCHANGED vars
  BY <1>1, <1>3 DEF Configure, Deactivate, SaveSettlement, Reopen, CreditAdjustment, NextDay,
                    vars, rows
<1>4. ASSUME NEW k \in Contract \cup {Other}, NEW a \in Amount, NEW x \in Sample,
             CreateIncome(k, a, x) \/ \E b \in Amount : PaymentWithCredit(k, a, x, b)
      PROVE  Keeps(r)
  BY <1>2, <1>4 DEF CreateIncome, PaymentWithCredit
<1>5. ASSUME NEW i \in DOMAIN incomes, IncomeStep(i)
      PROVE  Keeps(r)
  BY <1>5, IncomeStepKeeps
<1>6. CASE \/ \E i \in DOMAIN incomes, k \in Contract : LinkIncome(i, k)
           \/ \E k, m \in Contract : Reconcile(k, m)
  BY <1>6, ContractStepKeeps
<1>7. ASSUME NEW k \in Contract, NEW a \in Amount, NEW i \in {0} \cup DOMAIN incomes,
             Refund(k, a, i)
      PROVE  Keeps(r)
  <2>1. today \in Sample
    BY DEF TypeOK
  <2> QED BY <1>2, <1>7, <2>1 DEF Refund
<1>8. CASE ExpenseStep
  BY <1>8, ExpenseStepKeeps
<1> QED BY <1>3, <1>4, <1>5, <1>6, <1>7, <1>8 DEF Next, IncomeStep, ExpenseStep

(* A closed period stays closed to the rows: no operation changes the income *)
(* a confirmed settlement sums, nor, while the dates of its period still     *)
(* have that period, its expense (finance_ledger_guard.py), whatever         *)
(* configurations came before.                                               *)
THEOREM ClosedStaysClosed == Spec => ClosedPeriodKept
<1>1. LedgerInv /\ [Next]_vars => [ClosedStep]_vars
  BY StepKeeps DEF LedgerInv, ClosedStep, Keeps
<1> QED BY <1>1, LedgerCorrect, PTL DEF Spec, ClosedPeriodKept

(* The income saved with a confirmed settlement is the income of its rows.   *)
IncomeStands == \A r \in settlements : r.confirmed => r.income = IncomeTotal(r.start, r.end)

(* A settlement after a step is an old one, reopened perhaps, or the saved   *)
(* one.                                                                      *)
LEMMA ConfirmedStep ==
    ASSUME TypeOK, [Next]_vars, NEW q \in settlements', q.confirmed
    PROVE  q \in settlements \/ q.income = IncomeTotal(q.start, q.end)'
<1> SUFFICES ASSUME q \notin settlements PROVE q.income = IncomeTotal(q.start, q.end)'
  OBVIOUS
<1>1. ASSUME NEW x \in Sample, Reopen(x) PROVE FALSE
  <2>1. PICK p \in settlements : q = [p EXCEPT !.confirmed = FALSE]
    BY <1>1 DEF Reopen
  <2>2. DOMAIN p = {"start", "end", "confirmed", "income", "expense"}
    BY DEF TypeOK
  <2> QED BY <2>1, <2>2
<1>2. ASSUME NEW x \in Sample, NEW confirm \in BOOLEAN, SaveSettlement(x, confirm)
      PROVE  q.income = IncomeTotal(q.start, q.end)'
  <2>1. /\ q.start = StartOf(x) /\ q.end = EndOf(x) /\ q.income = IncomeTotal(StartOf(x), EndOf(x))
        /\ UNCHANGED rows
    BY <1>2 DEF SaveSettlement
  <2> QED BY <2>1, SameIncomes DEF rows
<1>3. UNCHANGED settlements \/ \E x \in Sample : Reopen(x) \/ \E confirm \in BOOLEAN : SaveSettlement(x, confirm)
  BY ExpensesTyped DEF Next, Configure, Deactivate, CreateIncome, PaymentWithCredit, UpdateIncome,
     VoidIncome, DeleteIncome, LinkIncome, Reconcile, Refund, CreditAdjustment, CreateExpense,
     UpdateExpense, Reimburse, DeleteExpense, NextDay, vars
<1> QED BY <1>1, <1>2, <1>3

(* As long as a settlement stays confirmed, its saved income is that of the  *)
(* rows it closed: no configuration, edit or reconciliation takes a row out  *)
(* of it or adds one (income_service.py, _ensure_income_period_mutable).     *)
THEOREM SavedIncomeStands == Spec => []IncomeStands
<1>1. Init => IncomeStands
  BY DEF Init, IncomeStands
<1>2. LedgerInv /\ IncomeStands /\ [Next]_vars => IncomeStands'
  <2> SUFFICES ASSUME LedgerInv, IncomeStands, [Next]_vars, NEW q \in settlements', q.confirmed
               PROVE  q.income = IncomeTotal(q.start, q.end)'
    BY DEF IncomeStands
  <2>1. CASE q \in settlements
    BY <2>1, StepKeeps DEF LedgerInv, IncomeStands, Keeps
  <2> QED BY <2>1, ConfirmedStep DEF LedgerInv
<1> QED BY <1>1, <1>2, LedgerCorrect, PTL DEF Spec

-----------------------------------------------------------------------------
(* Nothing is counted twice.  An income was posted to the start of a period  *)
(* some configuration gives its date; it keeps that start, and so does the   *)
(* configuration, which may get another end.                                 *)

PostedIn(w, c) == c.from <= w.date /\ w.start = StartIn(c, w.date)
Posted == \A i \in DOMAIN incomes :
              incomes[i].state = "active" => \E c \in configs : PostedIn(incomes[i], c)

(* A date that is covered is covered once. *)
LEMMA CoveredOnce ==
    ASSUME LedgerInv, NEW c \in configs, NEW x \in Sample, Covers(c, x)
    PROVE  Covering(x) = {c} /\ TheConfig(x) = c
           /\ StartOf(x) = StartIn(c, x) /\ EndOf(x) = EndIn(c, x)
<1>1. \A d \in configs : d.from \in Int /\ d.to \in Int
  BY ConfigNumbers DEF LedgerInv, TypeOK
<1>2. ASSUME NEW d \in configs, Covers(d, x) PROVE d = c
  <2>1. x \in Int
    BY SampleInt
  <2>2. c.from = d.from
    BY <1>1, <1>2, <2>1 DEF LedgerInv, Ordered, Covers
  <2> QED BY <2>2 DEF LedgerInv, TypeOK
<1>3. Covering(x) = {c}
  BY <1>2 DEF Covering
<1>4. TheConfig(x) = c
  <2>1. \A d \in configs : Covering(x) = {d} <=> d = c
    BY <1>3
  <2> QED BY <2>1 DEF TheConfig
<1> QED BY <1>3, <1>4 DEF StartOf, EndOf

(* A date with a period: its configuration, and the other way round. *)
LEMMA PeriodConfig ==
    ASSUME LedgerInv, NEW x \in Sample
    PROVE  /\ HasPeriod(x) => \E c \in configs : /\ Resolves(c, x)
                                               /\ StartOf(x) = StartIn(c, x)
                                               /\ EndOf(x) = EndIn(c, x)
           /\ \A c \in configs : Resolves(c, x) => HasPeriod(x)
<1>1. \A c \in configs : Resolves(c, x) => Covers(c, x)
  BY DEF Resolves
<1>2. ASSUME HasPeriod(x)
      PROVE  \E c \in configs : /\ Resolves(c, x)
                                /\ StartOf(x) = StartIn(c, x) /\ EndOf(x) = EndIn(c, x)
  <2>1. PICK c \in configs : Resolves(c, x)
    BY <1>2 DEF HasPeriod
  <2> QED BY <1>1, <2>1, CoveredOnce
<1>3. ASSUME NEW c \in configs, Resolves(c, x) PROVE HasPeriod(x)
  BY <1>1, <1>3, CoveredOnce DEF HasPeriod
<1> QED BY <1>2, <1>3

(* Two dates with a period, one of them in the period of the other. *)
LEMMA OnePeriod ==
    ASSUME LedgerInv, NEW x \in Sample, NEW y \in Sample, HasPeriod(y),
           StartOf(y) <= x, x <= EndOf(y)
    PROVE  HasPeriod(x) /\ Period(x) = Period(y)
<1>1. PICK c \in configs : Resolves(c, y) /\ StartOf(y) = StartIn(c, y) /\ EndOf(y) = EndIn(c, y)
  BY PeriodConfig
<1>2. c \in Config /\ c.from <= y /\ c.from \in Int /\ c.to \in Int /\ x \in Int
  BY <1>1, ConfigTypes, SampleInt DEF LedgerInv, TypeOK, Resolves, Covers
<1>3. /\ StartIn(c, y) \in Int /\ EndIn(c, y) \in Int /\ c.from <= StartIn(c, y)
      /\ c.to # NoEnd => EndIn(c, y) <= c.to
  BY <1>2, SamePeriod
<1>4. StartIn(c, x) = StartIn(c, y) /\ EndIn(c, x) = EndIn(c, y)
  BY <1>1, <1>2, SamePeriod
<1>5. Covers(c, x)
  BY <1>1, <1>2, <1>3 DEF Covers
<1>6. StartOf(x) = StartIn(c, x) /\ EndOf(x) = EndIn(c, x)
  BY <1>5, CoveredOnce
<1>7. HasPeriod(x)
  <2>1. Resolves(c, x)
    BY <1>1, <1>4, <1>5 DEF Resolves
  <2> QED BY <2>1, PeriodConfig
<1> QED BY <1>1, <1>4, <1>6, <1>7 DEF Period

(* The periods that hold a date: its own, if it has one. *)
LEMMA PeriodHolds ==
    ASSUME LedgerInv, NEW x \in Sample, NEW p \in Periods
    PROVE  p[1] <= x /\ x <= p[2] <=> HasPeriod(x) /\ p = Period(x)
<1>1. PICK y \in Sample : HasPeriod(y) /\ p = Period(y)
  BY DEF Periods
<1>2. ASSUME p[1] <= x, x <= p[2] PROVE HasPeriod(x) /\ p = Period(x)
  <2>1. p[1] = StartOf(y) /\ p[2] = EndOf(y)
    BY <1>1 DEF Period
  <2>2. HasPeriod(x) /\ Period(x) = Period(y)
    BY <1>1, <1>2, <2>1, OnePeriod
  <2> QED BY <1>1, <2>2
<1>3. ASSUME HasPeriod(x), p = Period(x) PROVE p[1] <= x /\ x <= p[2]
  BY <1>3, PeriodConfig DEF Period, Resolves
<1> QED BY <1>2, <1>3

LEMMA PostedCountsOnce ==
    ASSUME LedgerInv, Posted
    PROVE  CountedOnce
<1>1. /\ \A i \in DOMAIN incomes : incomes[i].date \in Sample
      /\ \A j \in DOMAIN expenses : expenses[j].date \in Sample
  <2>1. /\ \A i \in DOMAIN incomes : incomes[i] \in Income
        /\ \A j \in DOMAIN expenses : expenses[j] \in Expense
    BY DEF LedgerInv, TypeOK
  <2> QED BY <2>1 DEF Income, Expense
<1>2. ASSUME NEW i \in DOMAIN incomes, incomes[i].state = "active", NEW p \in Periods
      PROVE  i \in IncomeIn(p[1], p[2]) <=> /\ HasPeriod(incomes[i].date)
                                            /\ p = Period(incomes[i].date)
                                            /\ incomes[i].start = p[1]
  <2>1. i \in IncomeIn(p[1], p[2]) <=> /\ incomes[i].start = p[1]
                                       /\ p[1] <= incomes[i].date /\ incomes[i].date <= p[2]
    BY <1>2 DEF IncomeIn
  <2> QED BY <1>1, <2>1, PeriodHolds
<1>3. ASSUME NEW j \in DOMAIN expenses, expenses[j].state = "completed", NEW p \in Periods
      PROVE  j \in ExpenseIn(p[1], p[2]) <=> /\ HasPeriod(expenses[j].date)
                                             /\ p = Period(expenses[j].date)
  <2>1. j \in ExpenseIn(p[1], p[2]) <=> p[1] <= expenses[j].date /\ expenses[j].date <= p[2]
    BY <1>3 DEF ExpenseIn
  <2> QED BY <1>1, <2>1, PeriodHolds
<1> QED BY <1>2, <1>3 DEF CountedOnce, Posted, PostedIn

-----------------------------------------------------------------------------
(* Every configuration stays, with another end perhaps, and with it the      *)
(* starts it gives.                                                          *)

LEMMA SameStart ==
    ASSUME NEW c, NEW p, p.from = c.from, p.months = c.months, NEW w
    PROVE  PostedIn(w, c) => PostedIn(w, p)
BY DEF PostedIn, StartIn, MonthsTo

LEMMA ConfigsStay ==
    ASSUME LedgerInv,
           \/ \E x \in Sample, months \in Months : Configure(x, months)
           \/ \E c \in configs, x \in Sample : Deactivate(c, x)
    PROVE  \A c \in configs : \E p \in configs' : p.from = c.from /\ p.months = c.months
<1>1. ConfigsTyped
  BY DEF LedgerInv, TypeOK, ConfigsTyped
<1>2. ASSUME NEW c \in configs, NEW to PROVE LET p == [c EXCEPT !.to = to]
                                             IN  p.from = c.from /\ p.months = c.months
  BY <1>1 DEF ConfigsTyped, Config
<1>3. ASSUME NEW x \in Sample, NEW months \in Months, Configure(x, months), NEW c \in configs
      PROVE  \E p \in configs' : p.from = c.from /\ p.months = c.months
  <2>1. PICK cut, end : Configured(x, months, cut, end)
    BY <1>1, <1>3, ConfigureEnds
  <2>2. CASE c \in cut
    <3>1. [c EXCEPT !.to = Prev(x)] \in configs'
      BY <2>1, <2>2 DEF Configured
    <3> QED BY <1>2, <3>1
  <2>3. CASE c \notin cut
    BY <2>1, <2>3 DEF Configured
  <2> QED BY <2>2, <2>3
<1>4. ASSUME NEW b \in configs, NEW x \in Sample, Deactivate(b, x), NEW c \in configs
      PROVE  \E p \in configs' : p.from = c.from /\ p.months = c.months
  <2>1. configs' = (configs \ {b}) \cup {[b EXCEPT !.to = x]}
    BY <1>4 DEF Deactivate
  <2> QED BY <1>2, <2>1
<1> QED BY <1>3, <1>4

LEMMA ConfigStepPosted ==
    ASSUME LedgerInv, Posted,
           \/ \E x \in Sample, months \in Months : Configure(x, months)
           \/ \E c \in configs, x \in Sample : Deactivate(c, x)
    PROVE  Posted'
<1>1. UNCHANGED rows
  BY DEF Configure, Deactivate
<1> SUFFICES ASSUME NEW i \in DOMAIN incomes, incomes[i].state = "active"
             PROVE  \E p \in configs' : PostedIn(incomes[i], p)
  BY <1>1 DEF Posted, PostedIn, rows
<1>2. PICK c \in configs : PostedIn(incomes[i], c)
  BY DEF Posted
<1>3. PICK p \in configs' : p.from = c.from /\ p.months = c.months
  BY ConfigsStay
<1> QED BY <1>2, <1>3, SameStart

-----------------------------------------------------------------------------
(* An income is entered and moved only on a date that has a period, and is   *)
(* posted to that period.                                                    *)

LEMMA PostedInit == Init => Posted
<1> SUFFICES ASSUME Init PROVE Posted
  OBVIOUS
<1>1. LedgerInv
  BY LedgerInit
<1>2. CASE incomes = << >>
  BY <1>2 DEF Posted
<1>3. ASSUME NEW months \in Months, NEW k \in Contract, NEW a \in Amount,
             configs = {[from |-> today, to |-> NoEnd, months |-> months]},
             incomes = <<[contract |-> Unlinked, amount |-> a, date |-> today,
                          start |-> today, state |-> "active"]>>
      PROVE  Posted
  <2> DEFINE c == [from |-> today, to |-> NoEnd, months |-> months]
  <2>1. today \in Sample /\ today \in Int /\ c \in Config /\ c.from = today
    BY <1>1, <1>3, SampleInt DEF LedgerInv, TypeOK
  <2>2. incomes[1].date = today /\ incomes[1].start = today /\ DOMAIN incomes = {1} /\ c \in configs
    BY <1>3
  <2> HIDE DEF c
  <2>3. StartIn(c, today) = today
    <3>1. StartIn(c, today) \in Int /\ c.from <= StartIn(c, today) /\ StartIn(c, today) <= today
      BY <2>1, SamePeriod
    <3> QED BY <2>1, <3>1
  <2> QED BY <2>1, <2>2, <2>3 DEF Posted, PostedIn
<1> QED BY <1>2, <1>3 DEF Init

LEMMA MutablePosted ==
    ASSUME LedgerInv, NEW x \in Sample, Mutable(x)
    PROVE  \E c \in configs : c.from <= x /\ StartOf(x) = StartIn(c, x)
BY PeriodConfig DEF Mutable, Resolves, Covers

LEMMA NewRowPosted ==
    ASSUME LedgerInv, Posted, NEW k, NEW a, NEW x \in Sample, Mutable(x),
           incomes' = Append(incomes, NewIncome(k, a, x)), UNCHANGED configs
    PROVE  Posted'
<1> DEFINE w == NewIncome(k, a, x)
<1>1. PICK c \in configs : PostedIn(w, c)
  BY MutablePosted DEF PostedIn, NewIncome
<1> HIDE DEF w
<1>2. /\ DOMAIN incomes' = 1 .. Len(incomes) + 1 /\ DOMAIN incomes = 1 .. Len(incomes)
      /\ \A j \in DOMAIN incomes : incomes'[j] = incomes[j]
      /\ incomes'[Len(incomes) + 1] = w /\ Len(incomes) \in Nat
  <2>1. incomes \in Seq(Income) /\ incomes' = Append(incomes, w)
    BY DEF LedgerInv, TypeOK, w
  <2> QED BY <2>1
<1>3. \A i \in DOMAIN incomes' : i \in DOMAIN incomes \/ i = Len(incomes) + 1
  BY <1>2
<1>4. ASSUME NEW i \in DOMAIN incomes', incomes'[i].state = "active"
      PROVE  \E d \in configs : PostedIn(incomes'[i], d)
  BY <1>1, <1>2, <1>3, <1>4 DEF Posted
<1> QED BY <1>4 DEF Posted, PostedIn

LEMMA IncomeStepPosted ==
    ASSUME LedgerInv, Posted, NEW i \in DOMAIN incomes, IncomeStep(i)
    PROVE  Posted'
<1>1. incomes[i] \in Income /\ UNCHANGED configs
  <2>1. incomes[i] \in Income
    BY DEF LedgerInv, TypeOK
  <2> QED BY <2>1 DEF IncomeStep, UpdateIncome, VoidIncome, DeleteIncome
<1>2. ASSUME NEW w, incomes' = [incomes EXCEPT ![i] = w],
             w.state = "active" => \E c \in configs : PostedIn(w, c)
      PROVE  Posted'
  <2>1. /\ DOMAIN incomes' = DOMAIN incomes /\ incomes'[i] = w
        /\ \A j \in DOMAIN incomes \ {i} : incomes'[j] = incomes[j]
    BY <1>2 DEF LedgerInv, TypeOK
  <2>2. ASSUME NEW j \in DOMAIN incomes', incomes'[j].state = "active"
        PROVE  \E d \in configs : PostedIn(incomes'[j], d)
    BY <1>2, <2>1, <2>2 DEF Posted
  <2> QED BY <1>1, <2>2 DEF Posted, PostedIn
<1>3. ASSUME NEW a \in Amount \cup {incomes[i].amount}, NEW x \in Sample, UpdateIncome(i, a, x)
      PROVE  Posted'
  <2> DEFINE w == [incomes[i] EXCEPT !.amount = a, !.date = x, !.start = StartOf(x)]
  <2>1. incomes' = [incomes EXCEPT ![i] = w] /\ Mutable(x)
    BY <1>3 DEF UpdateIncome
  <2>2. w.start = StartOf(x) /\ w.date = x
    BY <1>1 DEF Income
  <2> HIDE DEF w
  <2>3. \E c \in configs : PostedIn(w, c)
    BY <2>1, <2>2, MutablePosted DEF PostedIn
  <2> QED BY <1>2, <2>1, <2>3
<1>4. ASSUME VoidIncome(i) \/ DeleteIncome(i)
      PROVE  Posted'
  <2>1. PICK st \in {"voided", "deleted"} : incomes' = [incomes EXCEPT ![i] = [@ EXCEPT !.state = st]]
    BY <1>4 DEF VoidIncome, DeleteIncome
  <2> DEFINE w == [incomes[i] EXCEPT !.state = st]
  <2>2. w.state # "active" /\ incomes' = [incomes EXCEPT ![i] = w]
    BY <1>1, <2>1 DEF Income
  <2> HIDE DEF w
  <2> QED BY <1>2, <2>2
<1> QED BY <1>3, <1>4 DEF IncomeStep

LEMMA ContractStepPosted ==
    ASSUME LedgerInv, Posted,
           \/ \E i \in DOMAIN incomes, k \in Contract : LinkIncome(i, k)
           \/ \E k, m \in Contract : Reconcile(k, m)
    PROVE  Posted'
<1>1. UNCHANGED configs
  BY DEF LinkIncome, Reconcile
<1>2. ASSUME NEW i \in DOMAIN incomes'
      PROVE  /\ i \in DOMAIN incomes /\ incomes'[i].state = incomes[i].state
             /\ incomes'[i].start = incomes[i].start /\ incomes'[i].date = incomes[i].date
  BY ContractStepRows DEF LedgerInv
<1>3. ASSUME NEW i \in DOMAIN incomes', incomes'[i].state = "active"
      PROVE  \E c \in configs : PostedIn(incomes'[i], c)
  BY <1>2, <1>3 DEF Posted, PostedIn
<1> QED BY <1>1, <1>3 DEF Posted, PostedIn

LEMMA PostedStep ==
    ASSUME LedgerInv, Posted, [Next]_vars
    PROVE  Posted'
<1>1. ASSUME UNCHANGED <<configs, incomes>> PROVE Posted'
  BY <1>1 DEF Posted, PostedIn
<1>2. ASSUME NEW k, NEW a, NEW x \in Sample, Mutable(x),
             incomes' = Append(incomes, NewIncome(k, a, x)), UNCHANGED configs
      PROVE  Posted'
  BY <1>2, NewRowPosted
<1>3. CASE \/ \E x \in Sample, months \in Months : Configure(x, months)
           \/ \E c \in configs, x \in Sample : Deactivate(c, x)
  BY <1>3, ConfigStepPosted
<1>4. CASE \/ \E x \in Sample, confirm \in BOOLEAN : SaveSettlement(x, confirm)
           \/ \E x \in Sample : Reopen(x)
           \/ \E k \in Contract, a \in Amount, x \in Sample, waiver \in BOOLEAN :
                 CreditAdjustment(k, a, x, waiver)
           \/ NextDay \/ UNCHANGED vars
  BY <1>1, <1>4 DEF SaveSettlement, Reopen, CreditAdjustment, NextDay, vars, rows
<1>5. ASSUME NEW k \in Contract \cup {Other}, NEW a \in Amount, NEW x \in Sample,
             CreateIncome(k, a, x) \/ \E b \in Amount : PaymentWithCredit(k, a, x, b)
      PROVE  Posted'
  BY <1>2, <1>5 DEF CreateIncome, PaymentWithCredit
<1>6. ASSUME NEW i \in DOMAIN incomes, IncomeStep(i)
      PROVE  Posted'
  BY <1>6, IncomeStepPosted
<1>7. CASE \/ \E i \in DOMAIN incomes, k \in Contract : LinkIncome(i, k)
           \/ \E k, m \in Contract : Reconcile(k, m)
  BY <1>7, ContractStepPosted
<1>8. ASSUME NEW k \in Contract, NEW a \in Amount, NEW i \in {0} \cup DOMAIN incomes,
             Refund(k, a, i)
      PROVE  Posted'
  <2>1. today \in Sample
    BY DEF LedgerInv, TypeOK
  <2> QED BY <1>2, <1>8, <2>1 DEF Refund
<1>9. CASE ExpenseStep
  BY <1>1, <1>9, ExpensesTyped DEF LedgerInv
<1> QED BY <1>3, <1>4, <1>5, <1>6, <1>7, <1>8, <1>9 DEF Next, IncomeStep, ExpenseStep

(* Nothing counts in two periods or in a period that is not that of its      *)
(* date, and an income stays posted to a period some configuration gives its *)
(* date (posting_period, resolve_date), whatever configurations are added or *)
(* ended, in any calendar.                                                   *)
THEOREM RowsCountOnce == Spec => []CountedOnce
<1>1. LedgerInv /\ Posted /\ [Next]_vars => Posted'
  BY PostedStep
<1>2. LedgerInv /\ Posted => CountedOnce
  BY PostedCountsOnce
<1> QED BY <1>1, <1>2, PostedInit, LedgerCorrect, PTL DEF Spec
=============================================================================
