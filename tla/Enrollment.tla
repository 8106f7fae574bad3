----------------------------- MODULE Enrollment -----------------------------
(***************************************************************************)
(* Students in classes.  A contract is one enrolment of a student in a     *)
(* class over a range of session numbers; it is never deleted, and what it *)
(* owes is derived each time from the sessions of the class: a completed   *)
(* session is billed to a contract whose range, withdrawal boundary, end   *)
(* date and freezes let it in, unless the student was excused from it.     *)
(* So every step on a contract, a session or a class may rewrite what was  *)
(* owed for the past, and two contracts of one student may meet in a       *)
(* session.                                                                *)
(*                                                                         *)
(* Amounts of money are in FinanceLedger; here a session is one unit.  A   *)
(* date is a number, and the date of a session is its actual date or else  *)
(* the scheduled one.  One user works at a time (see LockLease), so each   *)
(* operation is one step.                                                  *)
(***************************************************************************)
EXTENDS Integers, FiniteSets, FiniteSetsExt

CONSTANTS
    Student,
    Class,
    Planned,      \* Planned[c]: the planned sessions of class c
    Capacity,     \* Capacity[c]: its places
    MaxDay,       \* bound: the last date
    MaxContracts, \* bound: contracts ever made
    Legacy        \* duplicates made by earlier releases may exist at first

ASSUME BoundsAssumption ==
    /\ Planned \in [Class -> Nat \ {0}] /\ Capacity \in [Class -> Nat]
    /\ MaxDay \in Nat \ {0} /\ Legacy \in BOOLEAN
    /\ MaxContracts \in Nat /\ (Legacy => MaxContracts >= 2)

VARIABLES
    day,       \* the date of the clock
    deleted,   \* the students that are deleted
    archived,  \* the classes that are archived
    lesson,    \* lesson[c][n]: session number n of class c, or NoLesson
    excused,   \* the attendance rows that say EXCUSED: [student, class, number]
    contract,  \* the contracts, in the order of their identities
    transfers  \* the rows of enrollment_transfers: <<source, target>>

enrollmentVars == <<day, deleted, archived, lesson, excused, contract, transfers>>

Day == 1 .. MaxDay
Number(c) == 1 .. Planned[c]
Unset == 0 \* a date, a boundary, a lineage or an end of a freeze that is null

(* "cancelled" stands for CANCELLED and POSTPONED, which no rule tells apart. *)
LessonStatus == {"scheduled", "completed", "cancelled"}
NoLesson == [status |-> "none", date |-> Unset]
Lesson == [status : LessonStatus, date : Day] \cup {NoLesson}

ContractRow ==
    UNION {[student : Student, class : {c}, from : Number(c), until : Number(c),
            status : {"active", "withdrawn", "completed"}, end : Day \cup {Unset},
            wd : Unset .. Planned[c] + 1, into : Unset .. MaxContracts,
            freezes : SUBSET [from : Number(c), to : {Unset} \cup Number(c)]] : c \in Class}

Made == DOMAIN contract

EnrollmentTypeOK ==
    /\ day \in Day
    /\ deleted \subseteq Student /\ archived \subseteq Class
    /\ DOMAIN lesson = Class /\ \A c \in Class : lesson[c] \in [Number(c) -> Lesson]
    /\ \A r \in excused : lesson[r.class][r.number] # NoLesson
    /\ \E k \in 0 .. MaxContracts : Made = 1 .. k
    /\ \A k \in Made : contract[k] \in ContractRow /\ contract[k].from <= contract[k].until
    /\ transfers \subseteq Made \X Made

-----------------------------------------------------------------------------
(* What the operations read. *)

Held(c) == {n \in Number(c) : lesson[c][n] # NoLesson}
CompletedIn(c) == {n \in Number(c) : lesson[c][n].status = "completed"}
Span(x) == x.from .. x.until
OpenFreeze(x) == {f \in x.freezes : f.to = Unset}
Frozen(f) == {n \in UNION {Number(c) : c \in Class} : n >= f.from /\ (f.to = Unset \/ n <= f.to)}

Of(s, c) == {k \in Made : contract[k].student = s /\ contract[k].class = c
                          /\ contract[k].into = Unset}
IsActive(s, c) == \E k \in Made : /\ contract[k].student = s /\ contract[k].class = c
                                  /\ contract[k].status = "active"
Seats(c) == {k \in Made : contract[k].class = c /\ contract[k].status = "active"
                          /\ contract[k].into = Unset}
HasPlace(c) == Cardinality(Seats(c)) < Capacity[c]

(* The sessions a contract occupies: up to the withdrawal boundary, or, for  *)
(* one that ended without a boundary, to the last session by its end date.   *)
EffectiveRange(x) ==
    IF x.wd # Unset THEN {n \in Span(x) : n < x.wd}
    ELSE IF x.status = "active" \/ x.end = Unset THEN Span(x)
    ELSE {n \in Span(x) : \E m \in Span(x) \cap Held(x.class) :
                              n <= m /\ lesson[x.class][m].date <= x.end}

OverlapsHistory(s, c, range, but) ==
    \E k \in Of(s, c) \ {but} : EffectiveRange(contract[k]) \cap range # {}

(* Mutant: the last completed session is left out of the contract. *)
MutBoundary(x) == LET done == CompletedIn(x.class) \cap Span(x)
                  IN  IF done = {} THEN x.from ELSE Max(done)

(* The first session a withdrawn contract no longer covers. *)
Boundary(x) == LET done == CompletedIn(x.class) \cap Span(x)
               IN  IF done = {} THEN x.from ELSE Max(done) + 1

(* Where a transferred student starts: after the last completed session. *)
NextSession(c) == IF CompletedIn(c) = {} THEN 1 ELSE Max(CompletedIn(c)) + 1

(* The roster of a session, as attendance and billing share it. *)
CoversSession(x, n) ==
    /\ n \in Span(x)
    /\ x.wd # Unset => n < x.wd
    /\ x.end # Unset => lesson[x.class][n].date <= x.end

IsBillable(x, n) ==
    /\ lesson[x.class][n].status = "completed"
    /\ CoversSession(x, n)
    /\ \A f \in x.freezes : n \notin Frozen(f)
    /\ [student |-> x.student, class |-> x.class, number |-> n] \notin excused

(* The accrual of a contract as of today, one unit for each session. *)
Accrued(x) == {n \in Number(x.class) : IsBillable(x, n) /\ lesson[x.class][n].date <= day}

-----------------------------------------------------------------------------
(* Contracts. *)

NewContract(s, c, a, b) ==
    [student |-> s, class |-> c, from |-> a, until |-> b, status |-> "active",
     end |-> Unset, wd |-> Unset, into |-> Unset, freezes |-> {}]

Append1(f, x) == [k \in 1 .. Cardinality(DOMAIN f) + 1 |->
                      IF k \in DOMAIN f THEN f[k] ELSE x]

CanMake == Cardinality(Made) < MaxContracts

(* Mutant: the history alone is looked at. *)
MutEnroll(s, c, a, b) ==
    /\ CanMake /\ c \notin archived /\ s \notin deleted
    /\ HasPlace(c)
    /\ a <= b /\ ~OverlapsHistory(s, c, a .. b, Unset)
    /\ contract' = Append1(contract, NewContract(s, c, a, b))
    /\ UNCHANGED <<day, deleted, archived, lesson, excused, transfers>>

Enroll(s, c, a, b) ==
    /\ CanMake /\ c \notin archived /\ s \notin deleted
    /\ ~IsActive(s, c) /\ HasPlace(c)
    /\ a <= b /\ ~OverlapsHistory(s, c, a .. b, Unset)
    /\ contract' = Append1(contract, NewContract(s, c, a, b))
    /\ UNCHANGED <<day, deleted, archived, lesson, excused, transfers>>

Close(x, status, boundary) ==
    [x EXCEPT !.status = status, !.end = day, !.wd = boundary]

CanClose(k) ==
    /\ contract[k].class \notin archived
    /\ contract[k].status = "active" /\ OpenFreeze(contract[k]) = {}

Withdraw(k) ==
    /\ CanClose(k)
    /\ contract' = [contract EXCEPT ![k] = Close(@, "withdrawn", Boundary(@))]
    /\ UNCHANGED <<day, deleted, archived, lesson, excused, transfers>>

Complete(k) ==
    /\ CanClose(k)
    /\ contract' = [contract EXCEPT ![k] = Close(@, "completed", @.wd)]
    /\ UNCHANGED <<day, deleted, archived, lesson, excused, transfers>>

(* The service asks for no open class and takes any withdrawn contract.  Its *)
(* only caller, the dialog of an open class, offers the latest one.          *)
Restore(k) ==
    LET x == contract[k]
    IN  /\ x.class \notin archived /\ x.status = "withdrawn" /\ k \in Of(x.student, x.class)
        /\ \A j \in Of(x.student, x.class) : contract[j].status = "withdrawn" => j <= k
        /\ ~IsActive(x.student, x.class)
        /\ ~OverlapsHistory(x.student, x.class, Span(x), k)
        /\ contract' = [contract EXCEPT ![k] = [@ EXCEPT !.status = "active", !.end = Unset,
                                                         !.wd = Unset]]
        /\ UNCHANGED <<day, deleted, archived, lesson, excused, transfers>>

(* A freeze starts after every completed session of the class, and may be    *)
(* left open.                                                                *)
Freeze(k, a, b) ==
    LET x == contract[k]
        f == [from |-> a, to |-> b]
    IN  /\ x.status = "active"
        /\ a \in Span(x) /\ (b # Unset => (a <= b /\ b <= x.until))
        /\ \A n \in CompletedIn(x.class) : n < a
        /\ \A g \in x.freezes : Frozen(g) \cap Frozen(f) = {}
        /\ contract' = [contract EXCEPT ![k] = [x EXCEPT !.freezes = x.freezes \cup {f}]]
        /\ UNCHANGED <<day, deleted, archived, lesson, excused, transfers>>

(* The operator names the last frozen session, which may lie in the past. *)
Resume(k, b) ==
    LET x == contract[k]
    IN  /\ x.status = "active"
        /\ \E f \in OpenFreeze(x) :
              /\ f.from <= b /\ b <= x.until
              /\ contract' = [contract EXCEPT ![k] = [x EXCEPT
                                !.freezes = (x.freezes \ {f}) \cup {[f EXCEPT !.to = b]}]]
        /\ UNCHANGED <<day, deleted, archived, lesson, excused, transfers>>

(* The source is withdrawn and a new contract made in the target class.  The *)
(* history of the student in that class is not looked at.                    *)
Transfer(k, c) ==
    LET x == contract[k]
        start == NextSession(c)
    IN  /\ CanMake /\ x.status = "active" /\ x.class # c
        /\ \A t \in transfers : t[1] # k
        /\ OpenFreeze(x) = {} /\ ~IsActive(x.student, c)
        /\ c \notin archived /\ HasPlace(c)
        /\ start <= Planned[c]
        /\ contract' = Append1([contract EXCEPT ![k] = Close(@, "withdrawn", Boundary(@))],
                               NewContract(x.student, c, start, Planned[c]))
        /\ transfers' = transfers \cup {<<k, Cardinality(Made) + 1>>}
        /\ UNCHANGED <<day, deleted, archived, lesson, excused>>

(* A duplicate that an active contract covers is set aside, unless a freeze  *)
(* or a transfer refers to it.                                               *)
ReconcileDuplicates(k, m) ==
    LET x == contract[k]
        y == contract[m]
    IN  /\ x.student = y.student /\ x.class = y.class
        /\ x.status = "withdrawn" /\ y.status = "active" /\ x.into = Unset /\ y.into = Unset
        /\ x.freezes = {} /\ \A t \in transfers : k \notin {t[1], t[2]}
        /\ EffectiveRange(x) # {} /\ EffectiveRange(x) \subseteq Span(y)
        /\ contract' = [contract EXCEPT ![k] = [@ EXCEPT !.into = m]]
        /\ UNCHANGED <<day, deleted, archived, lesson, excused, transfers>>

-----------------------------------------------------------------------------
(* Classes, sessions, attendance, the clock. *)

(* Mutant: the contracts are left to the user. *)
MutArchiveClass(c) ==
    /\ c \notin archived
    /\ \A k \in Seats(c) : OpenFreeze(contract[k]) = {}
    /\ archived' = archived \cup {c}
    /\ UNCHANGED <<day, deleted, lesson, excused, contract, transfers>>

(* Every active contract of the class is withdrawn in the same transaction. *)
ArchiveClass(c) ==
    /\ c \notin archived
    /\ \A k \in Seats(c) : OpenFreeze(contract[k]) = {}
    /\ archived' = archived \cup {c}
    /\ contract' = [k \in Made |-> IF k \in Seats(c)
                                   THEN Close(contract[k], "withdrawn", Boundary(contract[k]))
                                   ELSE contract[k]]
    /\ UNCHANGED <<day, deleted, lesson, excused, transfers>>

RestoreClass(c) ==
    /\ c \in archived /\ archived' = archived \ {c}
    /\ UNCHANGED <<day, deleted, lesson, excused, contract, transfers>>

SetLesson(c, n, l) ==
    /\ lesson' = [lesson EXCEPT ![c][n] = l]
    /\ UNCHANGED <<day, deleted, archived, contract, transfers>>

(* A new session takes the number after the highest one there is. *)
CreateSession(c, status, d) ==
    LET n == IF Held(c) = {} THEN 1 ELSE Max(Held(c)) + 1
    IN  /\ c \notin archived /\ n \in Number(c)
        /\ SetLesson(c, n, [status |-> status, date |-> d])
        /\ UNCHANGED excused

UpdateSession(c, n, status, d) ==
    /\ c \notin archived /\ n \in Held(c)
    /\ SetLesson(c, n, [status |-> status, date |-> d])
    /\ UNCHANGED excused

CancelSession(c, n) ==
    /\ n \in Held(c) /\ lesson[c][n].status # "cancelled"
    /\ SetLesson(c, n, [lesson[c][n] EXCEPT !.status = "cancelled"])
    /\ UNCHANGED excused

(* The attendance rows of the session go with it. *)
DeleteSession(c, n) ==
    /\ c \notin archived /\ n \in Held(c)
    /\ SetLesson(c, n, NoLesson)
    /\ excused' = {r \in excused : ~(r.class = c /\ r.number = n)}

(* An attendance row is saved as EXCUSED, or as anything else. *)
Mark(s, c, n, excuse) ==
    LET r == [student |-> s, class |-> c, number |-> n]
    IN  /\ n \in Held(c) /\ lesson[c][n].status \in {"scheduled", "completed"}
        /\ \E k \in Of(s, c) : CoversSession(contract[k], n)
        /\ excused' = IF excuse THEN excused \cup {r} ELSE excused \ {r}
        /\ UNCHANGED <<day, deleted, archived, lesson, contract, transfers>>

(* A student is deleted and restored whatever contracts there are. *)
DeleteStudent(s) ==
    /\ s \notin deleted /\ deleted' = deleted \cup {s}
    /\ UNCHANGED <<day, archived, lesson, excused, contract, transfers>>

RestoreStudent(s) ==
    /\ s \in deleted /\ deleted' = deleted \ {s}
    /\ UNCHANGED <<day, archived, lesson, excused, contract, transfers>>

DayPasses ==
    /\ day < MaxDay /\ day' = day + 1
    /\ UNCHANGED <<deleted, archived, lesson, excused, contract, transfers>>

-----------------------------------------------------------------------------
(* A student removed and added again by an earlier release. *)
Duplicate(s, c) ==
    << [NewContract(s, c, 1, Planned[c]) EXCEPT !.status = "withdrawn", !.end = 1],
       NewContract(s, c, 1, Planned[c]) >>

EnrollmentInit ==
    /\ day = 1 /\ deleted = {} /\ archived = {} /\ excused = {} /\ transfers = {}
    /\ lesson = [c \in Class |-> [n \in Number(c) |-> NoLesson]]
    /\ \/ contract = << >>
       \/ Legacy /\ \E s \in Student, c \in Class : contract = Duplicate(s, c)

EnrollmentNext ==
    \/ \E s \in Student, c \in Class : \E a, b \in Number(c) : Enroll(s, c, a, b)
    \/ \E k \in Made : Withdraw(k) \/ Complete(k) \/ Restore(k)
    \/ \E k \in Made : \E a \in Span(contract[k]), b \in {Unset} \cup Span(contract[k]) :
          Freeze(k, a, b)
    \/ \E k \in Made : \E b \in Span(contract[k]) : Resume(k, b)
    \/ \E k \in Made, c \in Class : Transfer(k, c)
    \/ \E k, m \in Made : ReconcileDuplicates(k, m)
    \/ \E c \in Class : ArchiveClass(c) \/ RestoreClass(c)
    \/ \E c \in Class, d \in Day, st \in LessonStatus :
          CreateSession(c, st, d) \/ \E n \in Held(c) : UpdateSession(c, n, st, d)
    \/ \E c \in Class : \E n \in Held(c) : CancelSession(c, n) \/ DeleteSession(c, n)
    \/ \E s \in Student, c \in Class, e \in BOOLEAN : \E n \in Held(c) : Mark(s, c, n, e)
    \/ \E s \in Student : DeleteStudent(s) \/ RestoreStudent(s)
    \/ DayPasses

EnrollmentSpec == EnrollmentInit /\ [][EnrollmentNext]_enrollmentVars

-----------------------------------------------------------------------------
(* A student has at most one active contract in a class, whatever was        *)
(* enrolled, transferred, restored or set aside before; and no contract that *)
(* was set aside is active.                                                  *)
OneActive ==
    /\ \A j, k \in Made :
          (/\ contract[j].student = contract[k].student
           /\ contract[j].class = contract[k].class
           /\ contract[j].status = "active" /\ contract[k].status = "active") => j = k
    /\ \A k \in Made : contract[k].into # Unset => contract[k].status = "withdrawn"

(* An archived class keeps nobody: no contract in it is active, so none of   *)
(* them goes on accruing.                                                    *)
ArchivedIsEmpty == \A c \in archived : Seats(c) = {}

(* No transition of a contract rewrites what was owed for the past: as long  *)
(* as no session, attendance row or date changes, nothing is restored and no *)
(* freeze is closed, each contract keeps exactly its accrued sessions,       *)
(* whether it is withdrawn, completed, frozen, transferred or archived.      *)
Reopens == \E k \in Made :
    \/ contract[k].status # "active" /\ contract'[k].status = "active"
    \/ \E f \in OpenFreeze(contract[k]) : f \notin contract'[k].freezes
HistoryKept ==
    [][(UNCHANGED <<lesson, excused, day>> /\ ~Reopens)
       => \A k \in Made : Accrued(contract'[k]) = Accrued(contract[k])]_enrollmentVars
=============================================================================
