---------------------------- MODULE FinanceLedger ----------------------------
(***************************************************************************)
(* Money: the configurations of the finance periods, the settlement of     *)
(* each period, and the rows of income, expense and tuition adjustment.    *)
(*                                                                         *)
(* A period is not stored.  It is computed from the configuration that     *)
(* covers a date, and a settlement is found by the first date of its       *)
(* period; an income also keeps the first date of the period it was posted *)
(* to.  Confirming a settlement saves the totals of its period and closes  *)
(* it: each operation on a row asks whether the settlement of the periods  *)
(* it touches is confirmed.  So what is closed depends on configurations,  *)
(* which an administrator may add or cut short later, also over dates that *)
(* have rows or are in a confirmed period: such a date is then in another  *)
(* period, or in none.                                                     *)
(*                                                                         *)
(* A total is modelled as the rows it sums, each with its amount.  One     *)
(* user works at a time (see LockLease) and each operation is one database *)
(* transaction, so it is one step.                                         *)
(***************************************************************************)
EXTENDS FinancePeriod, FiniteSetsExt

CONSTANTS
    Contract,   \* enrolments that tuition is paid for
    Due,        \* Due[k]: what contract k has accrued (see Enrollment)
    Amount,     \* amounts of money a user enters
    Months,     \* durations an administrator chooses
    Sample,     \* the dates at which something is done
    MaxRows,    \* bound: rows of income and expense ever made
    MaxAdjust,  \* bound: tuition adjustments ever made
    Other,      \* the contract of an income that is not tuition
    Unlinked    \* the contract of a tuition payment of an earlier release

ASSUME LedgerAssumption ==
    /\ Due \in [Contract -> Nat] /\ Amount \subseteq Nat \ {0} /\ Months \subseteq 1 .. 24
    /\ Sample # {} /\ \A x \in Sample : IsDate(x) /\ x >= 31
    /\ MaxRows \in Nat /\ MaxAdjust \in Nat
    /\ {Other, Unlinked} \cap Contract = {} /\ Other # Unlinked

VARIABLES
    today,       \* the date of the clock
    configs,     \* the configurations, told apart by their first date
    settlements, \* the settlements, told apart by the start of their period
    incomes,     \* the rows of income, in the order of their identities
    expenses,    \* the rows of expense
    adjustments, \* the tuition adjustments, which never change
    merged       \* the contracts that were reconciled into another

vars == <<today, configs, settlements, incomes, expenses, adjustments, merged>>
rows == <<incomes, expenses>>

Config == [from : Sample, to : Int, months : Months]
Income == [contract : Contract \cup {Other, Unlinked}, amount : Int, date : Sample,
           start : Int, state : {"active", "voided", "deleted"}]
Expense == [amount : Amount, date : Sample, incurred : Sample \cup {0},
            personal : BOOLEAN, state : {"pending", "completed", "deleted"}]

(* "of" is the payment a credit was given with: its key names the income; an *)
(* earlier release gave such a credit a key that names none.                 *)
NotPayment == 0
OldKey == -1
Adjustment == [kind : {"refund", "credit"}, contract : Contract, amount : Amount, date : Sample,
               origin : 0 .. MaxRows, of : OldKey .. MaxRows, linked : 0 .. MaxRows]

TypeOK ==
    /\ today \in Sample
    /\ configs \subseteq Config /\ \A a, b \in configs : a.from = b.from => a = b
    /\ \A r \in settlements : /\ DOMAIN r = {"start", "end", "confirmed", "income", "expense"}
                              /\ r.start \in Int /\ r.end \in Int /\ r.confirmed \in BOOLEAN
    /\ \A a, b \in settlements : a.start = b.start => a = b
    /\ incomes \in Seq(Income) /\ expenses \in Seq(Expense)
    /\ adjustments \subseteq Adjustment
    /\ merged \subseteq Contract

-----------------------------------------------------------------------------
(* Which period a date is in, and what that period counts. *)

Covering(x) == {c \in configs : Covers(c, x)}
HasPeriod(x) == \E c \in configs : Covering(x) = {c} /\ Resolves(c, x)
TheConfig(x) == CHOOSE c \in configs : Covering(x) = {c}
StartOf(x) == StartIn(TheConfig(x), x)
EndOf(x) == EndIn(TheConfig(x), x)

Closed(s) == \E r \in settlements : r.start = s /\ r.confirmed
Mutable(x) == HasPeriod(x) /\ ~Closed(StartOf(x))

IncomeIn(s, e) ==
    {i \in DOMAIN incomes : /\ incomes[i].state = "active" /\ incomes[i].start = s
                            /\ s <= incomes[i].date /\ incomes[i].date <= e}
ExpenseIn(s, e) ==
    {j \in DOMAIN expenses : /\ expenses[j].state = "completed"
                             /\ s <= expenses[j].date /\ expenses[j].date <= e}
IncomeTotal(s, e) == {<<i, incomes[i].amount>> : i \in IncomeIn(s, e)}
ExpenseTotal(s, e) == {<<j, expenses[j].amount>> : j \in ExpenseIn(s, e)}

(* What has been settled of a contract by a date. *)
Settled(k, x) ==
    MapThenSumSet(LAMBDA i : incomes[i].amount,
                  {i \in DOMAIN incomes : /\ incomes[i].contract = k
                                          /\ incomes[i].state = "active"
                                          /\ incomes[i].date <= x})
    + MapThenSumSet(LAMBDA a : a.amount,
                    {a \in adjustments : a.kind = "credit" /\ a.contract = k /\ a.date <= x})
Refunded(i) == MapThenSumSet(LAMBDA a : a.amount,
                             {a \in adjustments : a.kind = "refund" /\ a.origin = i})

HasRoom == Len(incomes) + Len(expenses) < MaxRows

-----------------------------------------------------------------------------
(* Configurations.  Neither operation looks at settlements or rows.          *)

(* Mutant: the configuration that covered the date goes on. *)
MutConfigure(x, months) ==
    LET later == {c.from : c \in {d \in configs : d.from > x}}
    IN  /\ \A c \in configs : c.from # x
        /\ configs' = configs \cup
                {[from |-> x, months |-> months,
                  to |-> IF later = {} THEN NoEnd ELSE Prev(Min(later))]}
        /\ UNCHANGED <<today, settlements, rows, adjustments, merged>>

(* The covering configuration ends the day before the new one, which ends    *)
(* the day before the next.                                                  *)
Configure(x, months) ==
    LET later == {c.from : c \in {d \in configs : d.from > x}}
        cut == {c \in Covering(x) : \A d \in Covering(x) : d.from <= c.from}
    IN  /\ \A c \in configs : c.from # x
        /\ configs' = (configs \ cut) \cup {[c EXCEPT !.to = Prev(x)] : c \in cut} \cup
                {[from |-> x, months |-> months,
                  to |-> IF later = {} THEN NoEnd ELSE Prev(Min(later))]}
        /\ UNCHANGED <<today, settlements, rows, adjustments, merged>>

Deactivate(c, x) ==
    /\ c.from <= x /\ \A d \in configs : d.from > c.from => x < d.from
    /\ configs' = (configs \ {c}) \cup {[c EXCEPT !.to = x]}
    /\ UNCHANGED <<today, settlements, rows, adjustments, merged>>

-----------------------------------------------------------------------------
(* Settlements. *)

(* A draft, or the confirmed settlement, of the period of a date. *)
SaveSettlement(x, confirm) ==
    LET s == StartOf(x)
        e == EndOf(x)
    IN  /\ Mutable(x)
        /\ settlements' = {r \in settlements : r.start # s} \cup
                {[start |-> s, end |-> e, confirmed |-> confirm,
                  income |-> IncomeTotal(s, e), expense |-> ExpenseTotal(s, e)]}
        /\ UNCHANGED <<today, configs, rows, adjustments, merged>>

Reopen(x) ==
    /\ HasPeriod(x) /\ Closed(StartOf(x))
    /\ settlements' = {IF r.start = StartOf(x) THEN [r EXCEPT !.confirmed = FALSE] ELSE r
                        : r \in settlements}
    /\ UNCHANGED <<today, configs, rows, adjustments, merged>>

-----------------------------------------------------------------------------
(* Income. *)

NewIncome(k, a, x) ==
    [contract |-> k, amount |-> a, date |-> x, start |-> StartOf(x), state |-> "active"]
Credit(k, a, x, of) ==
    [kind |-> "credit", contract |-> k, amount |-> a, date |-> x, origin |-> 0,
     of |-> of, linked |-> 0]

CanAdjust == Cardinality(adjustments) < MaxAdjust

CreateIncome(k, a, x) ==
    /\ HasRoom /\ k \notin merged /\ x <= today /\ Mutable(x)
    /\ incomes' = Append(incomes, NewIncome(k, a, x))
    /\ UNCHANGED <<today, configs, settlements, expenses, adjustments, merged>>

(* A payment and the discount given with it, in one transaction. *)
PaymentWithCredit(k, a, x, credit) ==
    /\ HasRoom /\ CanAdjust /\ k \notin merged /\ x <= today /\ Mutable(x)
    /\ incomes' = Append(incomes, NewIncome(k, a, x))
    /\ adjustments' = adjustments \cup {Credit(k, credit, x, Len(incomes) + 1)}
    /\ UNCHANGED <<today, configs, settlements, expenses, merged>>

(* Mutant: only the period the date is in today is asked for. *)
MutIncomeMutable(x) == Mutable(x.date)

(* The period the row was posted to and the one its date is in today. *)
IncomeMutable(x) == ~Closed(x.start) /\ Mutable(x.date)

(* Mutant: the keys of earlier releases alone protect a payment. *)
MutKeepsCredit(i) ==
    \A a \in adjustments : a.contract = incomes[i].contract => a.of # OldKey

(* No credit depends on the payment; one that names no payment may depend on *)
(* any payment of its contract.                                              *)
KeepsCredit(i) ==
    \A a \in adjustments : a.contract = incomes[i].contract => a.of \notin {i, OldKey}

CanChange(i) == IncomeMutable(incomes[i]) /\ KeepsCredit(i)

(* Mutant: the row keeps the period it was first posted to. *)
MutUpdateIncome(i, a, x) ==
    /\ incomes[i].state = "active" /\ CanChange(i)
    /\ x <= today /\ Mutable(x)
    /\ incomes' = [incomes EXCEPT ![i] = [@ EXCEPT !.amount = a, !.date = x]]
    /\ UNCHANGED <<today, configs, settlements, expenses, adjustments, merged>>

UpdateIncome(i, a, x) ==
    /\ incomes[i].state = "active" /\ CanChange(i)
    /\ x <= today /\ Mutable(x)
    /\ incomes' = [incomes EXCEPT ![i] =
                    [@ EXCEPT !.amount = a, !.date = x, !.start = StartOf(x)]]
    /\ UNCHANGED <<today, configs, settlements, expenses, adjustments, merged>>

VoidIncome(i) ==
    /\ incomes[i].state = "active" /\ CanChange(i)
    /\ incomes' = [incomes EXCEPT ![i].state = "voided"]
    /\ UNCHANGED <<today, configs, settlements, expenses, adjustments, merged>>

DeleteIncome(i) ==
    /\ incomes[i].state # "deleted" /\ CanChange(i)
    /\ incomes' = [incomes EXCEPT ![i].state = "deleted"]
    /\ UNCHANGED <<today, configs, settlements, expenses, adjustments, merged>>

(* A payment of an earlier release gets its contract, in a closed period too. *)
LinkIncome(i, k) ==
    /\ incomes[i].contract = Unlinked /\ incomes[i].state # "deleted" /\ k \notin merged
    /\ incomes' = [incomes EXCEPT ![i].contract = k]
    /\ UNCHANGED <<today, configs, settlements, expenses, adjustments, merged>>

(* The payments of a contract that is set aside go to the one that stays. *)
Reconcile(k, m) ==
    /\ k # m /\ k \notin merged /\ m \notin merged
    /\ \A a \in adjustments : a.contract # k
    /\ merged' = merged \cup {k}
    /\ incomes' = [i \in DOMAIN incomes |->
                     IF incomes[i].contract = k THEN [incomes[i] EXCEPT !.contract = m]
                     ELSE incomes[i]]
    /\ UNCHANGED <<today, configs, settlements, expenses, adjustments>>

-----------------------------------------------------------------------------
(* Tuition adjustments. *)

(* Paying back: a negative income today, and the row that says why.  With an *)
(* origin, no more than is left of that payment.                             *)
Refund(k, a, origin) ==
    /\ HasRoom /\ CanAdjust /\ k \notin merged
    /\ origin # 0 => (/\ incomes[origin].state = "active" /\ incomes[origin].amount > 0
                      /\ incomes[origin].contract = k
                      /\ a <= incomes[origin].amount - Refunded(origin))
    /\ a <= Settled(k, today) /\ Mutable(today)
    /\ incomes' = Append(incomes, NewIncome(k, -a, today))
    /\ adjustments' = adjustments \cup
            {[kind |-> "refund", contract |-> k, amount |-> a, date |-> today,
              origin |-> origin, of |-> NotPayment, linked |-> Len(incomes) + 1]}
    /\ UNCHANGED <<today, configs, settlements, expenses, merged>>

(* A credit without a payment.  A waiver is at most what is still owed on    *)
(* its date; the credit of the enrolment page is not capped, and of today.   *)
CreditAdjustment(k, a, x, waiver) ==
    /\ CanAdjust /\ k \notin merged
    /\ x <= today /\ (~waiver => x = today)
    /\ waiver => a <= Due[k] - Settled(k, x)
    /\ Mutable(x)
    /\ adjustments' = adjustments \cup {Credit(k, a, x, NotPayment)}
    /\ UNCHANGED <<today, configs, settlements, rows, merged>>

-----------------------------------------------------------------------------
(* Expenses.  What an employee advances is pending until it is paid back.    *)

CreateExpense(personal, a, x) ==
    /\ HasRoom /\ x <= today
    /\ ~personal => Mutable(x)
    /\ expenses' = Append(expenses,
            [amount |-> a, date |-> x, incurred |-> IF personal THEN x ELSE 0,
             personal |-> personal, state |-> IF personal THEN "pending" ELSE "completed"])
    /\ UNCHANGED <<today, configs, settlements, incomes, adjustments, merged>>

UpdateExpense(j, a, x, state) ==
    /\ expenses[j].state # "deleted" /\ x <= today
    /\ expenses[j].state = "completed" => Mutable(expenses[j].date)
    /\ ~expenses[j].personal => state = "completed"
    /\ state = "completed" => Mutable(x)
    /\ expenses' = [expenses EXCEPT ![j] =
            [@ EXCEPT !.amount = a, !.date = x, !.state = state,
                      !.incurred = IF state = "pending" THEN x ELSE expenses[j].incurred]]
    /\ UNCHANGED <<today, configs, settlements, incomes, adjustments, merged>>

Reimburse(j, x) ==
    /\ expenses[j].personal /\ expenses[j].state = "pending"
    /\ expenses[j].incurred <= x /\ x <= today /\ Mutable(x)
    /\ expenses' = [expenses EXCEPT ![j] = [@ EXCEPT !.date = x, !.state = "completed"]]
    /\ UNCHANGED <<today, configs, settlements, incomes, adjustments, merged>>

DeleteExpense(j) ==
    /\ expenses[j].state # "deleted"
    /\ expenses[j].state = "completed" => Mutable(expenses[j].date)
    /\ expenses' = [expenses EXCEPT ![j].state = "deleted"]
    /\ UNCHANGED <<today, configs, settlements, incomes, adjustments, merged>>

-----------------------------------------------------------------------------
NextDay ==
    /\ \E x \in Sample : x > today /\ today' = Min({y \in Sample : y > today})
    /\ UNCHANGED <<configs, settlements, rows, adjustments, merged>>

(* At first there is nothing, or the rows of an earlier release: a payment   *)
(* without a contract and a credit whose key names no payment.               *)
Init ==
    /\ today = Min(Sample) /\ settlements = {} /\ expenses = << >> /\ merged = {}
    /\ \/ configs = {} /\ incomes = << >> /\ adjustments = {}
       \/ \E months \in Months, k \in Contract, a \in Amount :
            /\ configs = {[from |-> today, to |-> NoEnd, months |-> months]}
            /\ incomes = <<[contract |-> Unlinked, amount |-> a, date |-> today,
                            start |-> today, state |-> "active"]>>
            /\ adjustments = {Credit(k, a, today, OldKey)}

Next ==
    \/ \E x \in Sample, months \in Months : Configure(x, months)
    \/ \E c \in configs, x \in Sample : Deactivate(c, x)
    \/ \E x \in Sample, confirm \in BOOLEAN : SaveSettlement(x, confirm)
    \/ \E x \in Sample : Reopen(x)
    \/ \E k \in Contract \cup {Other}, a \in Amount, x \in Sample : CreateIncome(k, a, x)
    \/ \E k \in Contract, a, b \in Amount, x \in Sample : PaymentWithCredit(k, a, x, b)
    \/ \E i \in DOMAIN incomes :
          \E a \in Amount \cup {incomes[i].amount}, x \in Sample : UpdateIncome(i, a, x)
    \/ \E i \in DOMAIN incomes : VoidIncome(i) \/ DeleteIncome(i)
    \/ \E i \in DOMAIN incomes, k \in Contract : LinkIncome(i, k)
    \/ \E k, m \in Contract : Reconcile(k, m)
    \/ \E k \in Contract, a \in Amount, i \in {0} \cup DOMAIN incomes : Refund(k, a, i)
    \/ \E k \in Contract, a \in Amount, x \in Sample, waiver \in BOOLEAN :
          CreditAdjustment(k, a, x, waiver)
    \/ \E p \in BOOLEAN, a \in Amount, x \in Sample : CreateExpense(p, a, x)
    \/ \E j \in DOMAIN expenses, a \in Amount, x \in Sample, st \in {"pending", "completed"} :
          UpdateExpense(j, a, x, st)
    \/ \E j \in DOMAIN expenses, x \in Sample : Reimburse(j, x)
    \/ \E j \in DOMAIN expenses : DeleteExpense(j)
    \/ NextDay

Spec == Init /\ [][Next]_vars

-----------------------------------------------------------------------------
(* However configurations were added, cut short and ended, no date is        *)
(* covered by two of them, so no date is ever refused as ambiguous.          *)
PeriodsDisjoint == \A c, d \in configs : \A x \in Sample : Covers(c, x) /\ Covers(d, x) => c = d

(* A closed period is closed, as its documents have it: a confirmed          *)
(* settlement keeps adding up to the totals that were saved with it.         *)
SnapshotKept == \A r \in settlements : r.confirmed =>
    /\ r.income = IncomeTotal(r.start, r.end)
    /\ r.expense = ExpenseTotal(r.start, r.end)

(* What the guards do give.  While a settlement stays confirmed, nothing     *)
(* that is created, edited, moved, paid back, reimbursed, voided or deleted  *)
(* changes the income its period sums, whatever configurations came later,   *)
(* since an income keeps the start of its period; and it changes the expense *)
(* only where a later configuration has taken dates of the period over.      *)
Standing(r) == \A x \in Sample :
    r.start <= x /\ x <= r.end /\ HasPeriod(x) => StartOf(x) = r.start
ClosedStep == \A r \in settlements \cap settlements' : r.confirmed =>
    /\ IncomeTotal(r.start, r.end)' = IncomeTotal(r.start, r.end)
    /\ Standing(r) => ExpenseTotal(r.start, r.end)' = ExpenseTotal(r.start, r.end)
ClosedPeriodKept == [][ClosedStep]_vars

(* Nothing is counted twice or in the wrong period, whatever configurations  *)
(* were added or ended over recorded rows.  An active income was posted to   *)
(* the period some configuration gives its date.  It counts in the period    *)
(* its date has today if that is the one it was posted to, and in no other;  *)
(* a completed expense counts in the period of its date and in no other.     *)
Period(x) == <<StartOf(x), EndOf(x)>>
Periods == {Period(x) : x \in {y \in Sample : HasPeriod(y)}}
CountedOnce ==
    /\ \A i \in DOMAIN incomes : incomes[i].state = "active" =>
          /\ \E c \in configs : /\ c.from <= incomes[i].date
                                /\ incomes[i].start = StartIn(c, incomes[i].date)
          /\ \A p \in Periods :
                i \in IncomeIn(p[1], p[2]) <=> /\ HasPeriod(incomes[i].date)
                                               /\ p = Period(incomes[i].date)
                                               /\ incomes[i].start = p[1]
    /\ \A j \in DOMAIN expenses : expenses[j].state = "completed" =>
          \A p \in Periods :
             j \in ExpenseIn(p[1], p[2]) <=> /\ HasPeriod(expenses[j].date)
                                             /\ p = Period(expenses[j].date)

(* A discount given with a payment outlives nothing: as long as the credit   *)
(* counts, which is for ever, the payment it came with is active, of the     *)
(* same contract and date.                                                   *)
CreditKeepsPayment == \A a \in adjustments : a.of > 0 =>
    /\ incomes[a.of].state = "active" /\ incomes[a.of].amount > 0
    /\ incomes[a.of].contract = a.contract /\ incomes[a.of].date = a.date
=============================================================================
