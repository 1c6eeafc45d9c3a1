------------------------------- MODULE Rents --------------------------------
(***************************************************************************)
(* Tenants and their receipts: add_tenant, schedule_rents and the replay   *)
(* of create_operation (services/operations.py), and the correction of a   *)
(* tenant (services/structuring.py).                                       *)
(*                                                                         *)
(* A receipt is an operation whose request id names the property, the      *)
(* tenant and the month; a second schedule asks for it again and is served *)
(* the first one only if everything it asks for is the same.  Days are     *)
(* numbers; a month has MonthDays of them.                                 *)
(***************************************************************************)
EXTENDS Integers, Sequences, FiniteSetsExt

CONSTANTS Years,      \* the exercises
          FirstDay,   \* the first day of each
          LastDay,    \* the last day of each
          Days,       \* days a lease may begin or end
          MonthDays,
          Names,
          RentAmounts,
          NoExit,     \* a lease without end, after every day
          MaxTenants  \* bound

VARIABLES today, writable, tenants, receipts

rentVars == <<today, writable, tenants, receipts>>

Tenants == DOMAIN tenants
Leases == {t \in [name : Names, rent : RentAmounts, entry : Days, exit : Days \cup {NoExit}] :
             t.entry <= t.exit}

Month(day) == (day - 1) \div MonthDays
FirstOf(month) == month * MonthDays + 1

\* What the proofs take from the constants: days are numbers, no month belongs
\* to two exercises.
RentsAssumption ==
  /\ MonthDays \in Nat \ {0} /\ NoExit \in Int /\ Days \subseteq Int
  /\ FirstDay \in [Years -> Int] /\ LastDay \in [Years -> Int]
  /\ \A y, z \in Years : \/ y = z
                         \/ Month(LastDay[y]) < Month(FirstDay[z])
                         \/ Month(LastDay[z]) < Month(FirstDay[y])

\* The day of the receipt of a month.
OpDate(t, month, y) == Max({FirstOf(month), FirstDay[y], tenants[t].entry})

\* The months of the loop of schedule_rents.
Months(t, y) ==
  LET end   == Min({tenants[t].exit, LastDay[y]})
      first == Max({tenants[t].entry, FirstDay[y]})
  IN {m \in Month(first)..Month(end) : FirstOf(m) <= end /\ OpDate(t, m, y) <= end}

\* What create_operation is asked for.
Receipt(t, month, y) ==
  [tenant |-> t, month |-> month, year |-> y, date |-> OpDate(t, month, y),
   amount |-> tenants[t].rent, counterparty |-> tenants[t].name]

Due(y) == UNION {{Receipt(t, m, y) : m \in Months(t, y)} : t \in Tenants}

SameRequest(r, s) == r.tenant = s.tenant /\ r.month = s.month
Replays(r) == {o \in receipts : SameRequest(o.receipt, r)}

\* Variant: a cancelled receipt no longer counts.
HasStandingRents(t) == \E o \in receipts : o.receipt.tenant = t /\ ~ o.reversed

\* _tenant_has_rents: cancelled or not.
HasRents(t) == \E o \in receipts : o.receipt.tenant = t

NameFree(name, others) == \A t \in others : tenants[t].name # name

-----------------------------------------------------------------------------
Init ==
  /\ today = 1
  /\ writable = [y \in Years |-> TRUE]
  /\ tenants = <<>>
  /\ receipts = {}

AddTenant(t) ==
  /\ Len(tenants) < MaxTenants
  /\ NameFree(t.name, Tenants)
  /\ tenants' = Append(tenants, t)
  /\ UNCHANGED <<today, writable, receipts>>

\* correct_tenant: the exit may always be corrected, the rest until a receipt.
CorrectTenant(t, lease) ==
  /\ lease # tenants[t]
  /\ HasRents(t) => lease = [tenants[t] EXCEPT !.exit = lease.exit]
  /\ NameFree(lease.name, Tenants \ {t})
  /\ tenants' = [tenants EXCEPT ![t] = lease]
  /\ UNCHANGED <<today, writable, receipts>>

\* A receipt that exists with other contents refuses the whole schedule
\* (IDEMPOTENCY_CONFLICT), and so does a receipt of a day to come.
Scheduled(y) == \A r \in Due(y) :
  IF Replays(r) # {} THEN \A o \in Replays(r) : o.receipt = r ELSE r.date <= today

ScheduleRents(y) ==
  /\ writable[y]
  /\ Scheduled(y)
  /\ receipts' = receipts \cup {[receipt |-> r, reversed |-> FALSE] :
                                  r \in {s \in Due(y) : Replays(s) = {}}}
  /\ UNCHANGED <<today, writable, tenants>>

CancelReceipt(o) ==
  /\ writable[o.receipt.year] /\ ~ o.reversed
  /\ receipts' = (receipts \ {o}) \cup {[o EXCEPT !.reversed = TRUE]}
  /\ UNCHANGED <<today, writable, tenants>>

\* The exercise is prepared or closed, or opened again.
Switch(y) ==
  /\ writable' = [writable EXCEPT ![y] = ~ @]
  /\ UNCHANGED <<today, tenants, receipts>>

Tick ==
  /\ \E y \in Years : today < LastDay[y]
  /\ today' = today + 1
  /\ UNCHANGED <<writable, tenants, receipts>>

Next ==
  \/ \E lease \in Leases : AddTenant(lease) \/ \E t \in Tenants : CorrectTenant(t, lease)
  \/ \E y \in Years : ScheduleRents(y) \/ Switch(y)
  \/ \E o \in receipts : CancelReceipt(o)
  \/ Tick

Spec == Init /\ [][Next]_rentVars

-----------------------------------------------------------------------------
(* Properties *)

\* A tenant is billed once for each month of the lease, for the rent, the name
\* and the day the register still shows; so whatever was corrected, cancelled
\* or scheduled before, scheduling an exercise again is never refused because a
\* receipt is there with other contents.
ReceiptsAsScheduled ==
  /\ \A o, p \in receipts : SameRequest(o.receipt, p.receipt) => o = p
  /\ \A y \in Years : \A r \in Due(y), o \in receipts :
       SameRequest(o.receipt, r) => o.receipt = r
=============================================================================
