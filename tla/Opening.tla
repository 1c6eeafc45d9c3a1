------------------------------ MODULE Opening -------------------------------
(***************************************************************************)
(* Opening entries: the preview of the balances of the previous year       *)
(* (services/opening.py), their posting into the next year and the check   *)
(* of continuity (services/opening_posting.py), while the years receive    *)
(* entries and drafts, are closed, reopened and corrected.                 *)
(*                                                                         *)
(* Amounts are the net of each account, debit positive.  The client keeps  *)
(* the token of a preview and sends its request whenever it likes, several *)
(* times if it wants to.                                                   *)
(***************************************************************************)
EXTENDS Integers, FiniteSets, Functions

CONSTANTS Exercises,   \* the years, 1..n, each starting the day after the last
          Nets,        \* net of an entry: a function of the accounts
          MaxPosted,   \* bound: entries of a year, the opening not counted
          MaxReopened, \* bound: reopenings of a year
          MaxPrepared, \* bound: requests prepared
          NoOpening

VARIABLES yearStatus, \* fiscal_year.status
          reopened,   \* number of reopenings (the last is reopened_at)
          net,        \* balances of the validated entries of each year
          count,      \* validated entries of each year
          hasDraft,   \* whether a draft is left in the year
          inactive,   \* accounts switched off
          opening,    \* the OPENING entry of each year, with its request
          requests    \* requests the client has prepared

openingVars == <<yearStatus, reopened, net, count, hasDraft, inactive, opening,
                 requests>>

PnL == {"706"}
ResultAccounts == {"120", "129"}
BalanceSheet == {"512", "101"} \cup ResultAccounts
Accounts == PnL \cup BalanceSheet

\* What the proofs take from the constants: consecutive exercises from the first
\* on, entries that are amounts by account.
OpeningAssumption ==
  /\ \A y \in Exercises \ {1} : y - 1 \in Exercises
  /\ Nets \subseteq [Accounts -> Int]

\* carryforward_view: what classes 6 and 7 still hold, credit positive.
ResultOf(y) == - net[y]["706"]
LinesOf(y) == [a \in BalanceSheet |-> net[y][a]]

\* opening_preview: the identity its token is computed from.
Preview(y) == [target |-> y, lines |-> LinesOf(y - 1), result |-> ResultOf(y - 1)]

\* expected_balances, of a result with its account.
Expected(preview, account) ==
  [a \in BalanceSheet |->
     preview.lines[a] - (IF a = account THEN preview.result ELSE 0)]

\* INVALID_RESULT_ACCOUNT, UNEXPECTED_RESULT_ACCOUNT
ResultAccountFits(result, account) ==
  \/ result > 0 /\ account = "120" /\ account \notin inactive
  \/ result < 0 /\ account = "129" /\ account \notin inactive
  \/ result = 0 /\ account = "none"

Init ==
  /\ yearStatus = [y \in Exercises |-> "OPEN"]
  /\ reopened = [y \in Exercises |-> 0]
  /\ net = [y \in Exercises |-> [a \in Accounts |-> 0]]
  /\ count = [y \in Exercises |-> 0]
  /\ hasDraft = [y \in Exercises |-> FALSE]
  /\ inactive = {}
  /\ opening = [y \in Exercises |-> NoOpening]
  /\ requests = {}

\* post_entry
Post(y, entry) ==
  /\ yearStatus[y] = "OPEN" /\ count[y] < MaxPosted
  /\ \A a \in inactive : entry[a] = 0
  /\ net' = [net EXCEPT ![y] = [a \in Accounts |-> net[y][a] + entry[a]]]
  /\ count' = [count EXCEPT ![y] = count[y] + 1]
  /\ UNCHANGED <<yearStatus, reopened, hasDraft, inactive, opening, requests>>

\* create_draft, delete
SwitchDraft(y) ==
  /\ yearStatus[y] = "OPEN"
  /\ hasDraft' = [hasDraft EXCEPT ![y] = ~ hasDraft[y]]
  /\ UNCHANGED <<yearStatus, reopened, net, count, inactive, opening, requests>>

\* account_active
SwitchAccount(a) ==
  /\ inactive' = IF a \in inactive THEN inactive \ {a} ELSE inactive \cup {a}
  /\ UNCHANGED <<yearStatus, reopened, net, count, hasDraft, opening, requests>>

\* The part of precheck the opening rests on: YEAR_DRAFTS, CENTRALIZATION_REQUIRED.
PrecheckPasses(y) == ~ hasDraft[y] /\ \A a \in PnL : net[y][a] = 0

SetStatus(y, from, to) ==
  /\ yearStatus[y] = from
  /\ yearStatus' = [yearStatus EXCEPT ![y] = to]
  /\ UNCHANGED <<net, count, hasDraft, inactive, opening, requests>>

MarkReady(y) == PrecheckPasses(y) /\ SetStatus(y, "OPEN", "READY_TO_CLOSE")
                /\ UNCHANGED reopened
CloseYear(y) == PrecheckPasses(y) /\ SetStatus(y, "READY_TO_CLOSE", "CLOSED")
                /\ UNCHANGED reopened
ReopenYear(y) ==
  /\ reopened[y] < MaxReopened
  /\ SetStatus(y, "CLOSED", "OPEN")
  /\ reopened' = [reopened EXCEPT ![y] = reopened[y] + 1]

\* The user previews the opening of a year and fills in the form.
Prepare(y, account) ==
  /\ Cardinality(requests) < MaxPrepared
  /\ requests' = requests \cup {[token |-> Preview(y), account |-> account]}
  /\ UNCHANGED <<yearStatus, reopened, net, count, hasDraft, inactive, opening>>

\* Variant: the token is that of any preview of the year.
CurrentOfYear(m) == m.token.target = Preview(m.token.target).target

\* OPENING_PREVIEW_CHANGED
Current(m) == m.token = Preview(m.token.target)

\* SOURCE_NOT_CLOSED, SOURCE_DRAFTS
SourceReady(y) == yearStatus[y - 1] = "CLOSED" /\ ~ hasDraft[y - 1]

\* generate_opening.  A request already served changes nothing, another one
\* is refused (OPENING_ALREADY_EXISTS).
GenerateOpening(m) ==
  LET y == m.token.target
      balances == Expected(Preview(y), m.account)
  IN  /\ Current(m) /\ SourceReady(y)
      /\ opening[y] = NoOpening
      /\ yearStatus[y] = "OPEN" /\ count[y] = 0 /\ ~ hasDraft[y]
      /\ ResultAccountFits(ResultOf(y - 1), m.account)
      /\ \A a \in inactive \cap BalanceSheet : LinesOf(y - 1)[a] = 0
      /\ \E a \in BalanceSheet : balances[a] # 0
      /\ opening' = [opening EXCEPT ![y] =
           [net |-> balances, request |-> m, after |-> reopened[y - 1]]]
      /\ net' = [net EXCEPT ![y] = [a \in Accounts |->
                   IF a \in BalanceSheet THEN balances[a] ELSE 0]]
      /\ UNCHANGED <<yearStatus, reopened, count, hasDraft, inactive, requests>>

Next ==
  \/ \E y \in Exercises :
       \/ \E entry \in Nets : Post(y, entry)
       \/ SwitchDraft(y) \/ MarkReady(y) \/ CloseYear(y) \/ ReopenYear(y)
  \/ \E a \in {"101"} : SwitchAccount(a)
  \/ \E y \in Exercises \ {1}, account \in ResultAccounts \cup {"none"} :
       Prepare(y, account)
  \/ \E m \in requests : GenerateOpening(m)

Spec == Init /\ [][Next]_openingVars

-----------------------------------------------------------------------------
(* Properties *)

\* An opening posts the balances its user has seen, whatever was posted into
\* the previous year between the preview and the request.  It cannot be
\* generated again, and holds as long as the previous year is not reopened: it
\* differs from the balances of that year only if it was reopened since.
OpeningStands == \A y \in Exercises : opening[y] # NoOpening =>
  LET m == opening[y].request
  IN  /\ opening[y].net = Expected(m.token, m.account)
      /\ \/ opening[y].net = Expected(Preview(y), m.account)
         \/ reopened[y - 1] > opening[y].after
=============================================================================
