--------------------------- MODULE ResultClosing ----------------------------
(***************************************************************************)
(* Centralization and appropriation of the result of one fiscal year       *)
(* (services/result_closing.py), with the statements that present it       *)
(* (services/statements.py) and the total the fiscal computation reads     *)
(* (services/fiscal.py _operating).                                        *)
(*                                                                         *)
(* Amounts are the net of each account, debit positive.  One account of    *)
(* each kind stands for all: a charge, a product, the two result accounts  *)
(* and an equity account to appropriate to.  Cash is left out: it balances *)
(* every operation.  A confirmation is a message built from a preview; it  *)
(* is delivered late, twice or never, and the client keeps its request id  *)
(* when it prepares another one after a lost answer.                       *)
(***************************************************************************)
EXTENDS Integers, Sequences, FiniteSets, Functions

CONSTANTS Requests,    \* request ids
          Operations,  \* net of the operating entries, on the charge and product
          MaxEntries,  \* bound: entries validated
          MaxSent      \* bound: confirmations prepared

PnL == {"615", "706"}
ResultAccounts == {"120", "129"}
Accounts == PnL \cup ResultAccounts \cup {"101"}

ClosingAssumption ==
  /\ "none" \notin Requests
  /\ \A net \in Operations :
       net \in [Accounts -> Int] /\ \A a \in Accounts \ PnL : net[a] = 0

VARIABLES
  status,  \* fiscal_year.status
  drafts,  \* number of drafts in the year
  book,    \* validated entries, in their sequence: [source, net, of, parameters]
  chart,   \* the result accounts: absent, active or inactive
  sent     \* confirmations prepared by the client

vars == <<status, drafts, book, chart, sent>>

Abs(n) == IF n < 0 THEN -n ELSE n
Flat == [a \in Accounts |-> 0]
NoParameters == [id |-> "none", kind |-> "none", amount |-> 0, account |-> "none",
                 create |-> FALSE]

-----------------------------------------------------------------------------
(* Reading the year *)

NetOver(entries, a) ==
  SumFunctionOnSet([n \in DOMAIN book |-> book[n].net[a]], entries)
Net(a) == NetOver(DOMAIN book, a)
ResultOver(entries) == -(NetOver(entries, "615") + NetOver(entries, "706"))

\* ledger_income: classes 6 and 7 as stored.
RawResult == ResultOver(DOMAIN book)
HasClassBalance == \E a \in PnL : Net(a) # 0

Reversals(n) == {k \in DOMAIN book : book[k].of = n}

\* _live
Live(source) == {n \in DOMAIN book : book[n].source = source /\ Reversals(n) = {}}

\* Variant: the reversal of a centralization counts as an operation.
OperatingCountingReversals ==
  {n \in DOMAIN book : book[n].source # "CENTRALIZATION"}

\* statements._load: without the centralizations and their reversals.
Operating ==
  {n \in DOMAIN book :
     /\ book[n].source # "CENTRALIZATION"
     /\ book[n].of # 0 => book[book[n].of].source # "CENTRALIZATION"}

\* statements._held_total with domain still_held: what the result accounts
\* still carry of the result moved out of the classes.
Held ==
  LET closed == ResultOver(Operating) - RawResult
      sitting == {a \in ResultAccounts : -Net(a) * closed > 0}
      total == SumFunctionOnSet([a \in Accounts |-> -Net(a)], sitting)
  IN IF Abs(total) < Abs(closed) THEN total ELSE closed

\* statements: the result of the year shown in the balance sheet.
CurrentResult == RawResult + Held

\* fiscal._operating: centralizations and appropriations are left out.
FiscalResult ==
  ResultOver({n \in DOMAIN book :
                book[n].source \notin {"CENTRALIZATION", "APPROPRIATION"}})

\* Variant: only a standing entry answers its request.
StandingByRequest(m) ==
  {n \in Live(m.kind) : book[n].parameters.id = m.id}

\* _by_request
ByRequest(m) ==
  {n \in DOMAIN book : book[n].source = m.kind /\ book[n].parameters.id = m.id}

-----------------------------------------------------------------------------
(* Checks of the two confirmations *)

\* Account to credit for a profit, to debit for a loss.
ResultAccount(result) == IF result = 0 THEN "none" ELSE IF result > 0 THEN "120" ELSE "129"

\* _create_confirmed_accounts, in the transaction of the entry.
Created(m) == IF m.create THEN [chart EXCEPT ![m.account] = "active"] ELSE chart

\* _create_confirmed_accounts, _check_result_account: only an account still
\* missing is created, and the account credited or debited is active.
CheckResultAccount(m, result) ==
  /\ m.account = ResultAccount(result)
  /\ m.create => result # 0 /\ chart[m.account] = "absent"
  /\ result # 0 => m.create \/ chart[m.account] = "active"

\* Variant: the previewed amount is not compared.
AnyAmount(m, amount) == TRUE

\* RESULT_CHANGED, AMOUNT_CHANGED
SameAmount(m, amount) == m.amount = amount

\* _closing_lines
Closing(account) ==
  [a \in Accounts |-> IF a \in PnL THEN -Net(a)
                      ELSE IF a = account THEN -RawResult ELSE 0]
Appropriated(source) ==
  [Flat EXCEPT ![source] = -Net(source), !["101"] = Net(source)]

\* Post in the year, _post: create_draft then post_entry in one transaction.
Posted(source, net, of, parameters) ==
  /\ status = "OPEN"
  /\ Len(book) < MaxEntries
  /\ book' = Append(book, [source |-> source, net |-> net, of |-> of,
                           parameters |-> parameters])

-----------------------------------------------------------------------------
Init ==
  /\ status = "OPEN"
  /\ drafts = 0
  /\ book = <<>>
  /\ chart = [a \in ResultAccounts |-> "absent"]
  /\ sent = {}

CreateDraft ==
  /\ status = "OPEN" /\ drafts = 0
  /\ drafts' = 1
  /\ UNCHANGED <<status, book, chart, sent>>

DeleteDraft ==
  /\ status = "OPEN" /\ drafts > 0
  /\ drafts' = drafts - 1
  /\ UNCHANGED <<status, book, chart, sent>>

ValidateDraft(net) ==
  /\ drafts > 0
  /\ Posted("MANUAL", net, 0, NoParameters)
  /\ drafts' = drafts - 1
  /\ UNCHANGED <<status, chart, sent>>

\* account_active, and the creation of an account by the user.
SwitchAccount(a) ==
  /\ chart' = [chart EXCEPT ![a] = IF @ = "active" THEN "inactive" ELSE "active"]
  /\ UNCHANGED <<status, drafts, book, sent>>

\* reverse_entry: once, never a reversal, on accounts still active.
Reverse(n) ==
  /\ book[n].of = 0
  /\ Reversals(n) = {}
  /\ \A a \in ResultAccounts : book[n].net[a] # 0 => chart[a] = "active"
  /\ Posted("REVERSAL", [a \in Accounts |-> -book[n].net[a]], n, NoParameters)
  /\ UNCHANGED <<status, drafts, chart, sent>>

Send(m) ==
  /\ Cardinality(sent) < MaxSent
  /\ sent' = sent \cup {m}
  /\ UNCHANGED <<status, drafts, book, chart>>

\* centralization_preview, and the confirmation the client builds from it.
PrepareCentralization(r) ==
  LET account == ResultAccount(RawResult) IN
  /\ Live("CENTRALIZATION") = {}
  /\ RawResult # 0 => chart[account] # "inactive"
  /\ Send([id |-> r, kind |-> "CENTRALIZATION", amount |-> RawResult,
           account |-> account,
           create |-> RawResult # 0 /\ chart[account] = "absent"])

\* appropriation_preview
PrepareAppropriation(r, source) ==
  /\ Live("CENTRALIZATION") # {}
  /\ Net(source) # 0
  /\ Send([id |-> r, kind |-> "APPROPRIATION", amount |-> Abs(Net(source)),
           account |-> source, create |-> FALSE])

\* post_centralization: a request already posted is answered again, or
\* refused if its contents changed; neither writes anything.
PostCentralization(m) ==
  /\ m.kind = "CENTRALIZATION"
  /\ ByRequest(m) = {}
  /\ Live("CENTRALIZATION") = {}
  /\ drafts = 0
  /\ SameAmount(m, RawResult)
  /\ HasClassBalance
  /\ CheckResultAccount(m, RawResult)
  /\ Posted("CENTRALIZATION", Closing(m.account), 0, m)
  /\ chart' = Created(m)
  /\ UNCHANGED <<status, drafts, sent>>

\* post_appropriation
PostAppropriation(m) ==
  /\ m.kind = "APPROPRIATION"
  /\ ByRequest(m) = {}
  /\ Cardinality(Live("CENTRALIZATION")) = 1
  /\ ~ HasClassBalance
  /\ Live("APPROPRIATION") = {}
  /\ chart[m.account] = "active"
  /\ IF m.account = "120" THEN Net("120") < 0 ELSE Net("129") > 0
  /\ SameAmount(m, Abs(Net(m.account)))
  /\ Posted("APPROPRIATION", Appropriated(m.account), 0, m)
  /\ UNCHANGED <<status, drafts, chart, sent>>

\* Variant: that there is a live centralization is enough.
PrecheckPassesOnceCentralized == drafts = 0 /\ Live("CENTRALIZATION") # {}

\* precheck: no draft, every class 6 and 7 balance at zero.  Its other refusals
\* (fiscal computation, FEC, mapping) only make closing rarer.
PrecheckPasses == drafts = 0 /\ ~ HasClassBalance

MarkReady ==
  /\ status # "CLOSED" /\ PrecheckPasses
  /\ status' = "READY_TO_CLOSE"
  /\ UNCHANGED <<drafts, book, chart, sent>>

CloseYear ==
  /\ status = "READY_TO_CLOSE" /\ PrecheckPasses
  /\ status' = "CLOSED"
  /\ UNCHANGED <<drafts, book, chart, sent>>

ReopenYear ==
  /\ status = "CLOSED"
  /\ status' = "OPEN"
  /\ UNCHANGED <<drafts, book, chart, sent>>

Next ==
  \/ CreateDraft \/ DeleteDraft
  \/ \E net \in Operations : ValidateDraft(net)
  \/ \E a \in ResultAccounts : SwitchAccount(a)
  \/ \E n \in DOMAIN book : Reverse(n)
  \/ \E r \in Requests : PrepareCentralization(r)
  \/ \E r \in Requests, a \in ResultAccounts : PrepareAppropriation(r, a)
  \/ \E m \in sent : PostCentralization(m)
  \/ \E m \in sent : PostAppropriation(m)
  \/ MarkReady \/ CloseYear \/ ReopenYear

Spec == Init /\ [][Next]_vars

-----------------------------------------------------------------------------
(* Properties *)

Kinds == {"CENTRALIZATION", "APPROPRIATION"}
\* A confirmation sent again, late, or prepared again under the same id after a
\* lost answer is posted at most once, even when its entry has been reversed
\* since (_by_request, _same_request).
ConfirmationPostedOnce == \A n, k \in DOMAIN book :
  /\ book[n].source \in Kinds
  /\ book[n].source = book[k].source
  /\ book[n].parameters.id = book[k].parameters.id
  => n = k

\* Nothing is posted that the user did not see: the account moves by exactly
\* the amount the confirmation announced, however the year changed between the
\* preview and its delivery.
PostedAsConfirmed == \A n \in DOMAIN book :
  LET m == book[n].parameters IN
  /\ book[n].source = "CENTRALIZATION" /\ m.account # "none" =>
       -book[n].net[m.account] = m.amount
  /\ book[n].source = "APPROPRIATION" => Abs(book[n].net[m.account]) = m.amount

\* The balance sheet shows the result of the year, neither lost nor counted
\* twice, through any order of centralizations, reversals and new operations:
\* all of it while no appropriation stands, and never more than is left of it.
PresentedResult ==
  LET closed == ResultOver(Operating) - RawResult IN
  /\ Live("APPROPRIATION") = {} => CurrentResult = ResultOver(Operating)
  /\ Held * closed >= 0 /\ Abs(Held) <= Abs(closed)

\* A year prepared or closed has no draft, and its whole result sits in equity.
LockedYearCentralized ==
  status # "OPEN" =>
    /\ drafts = 0
    /\ -(Net("120") + Net("129") + Net("101")) = ResultOver(Operating)
    /\ \A a \in PnL : Net(a) = 0

-----------------------------------------------------------------------------
(* A statement of a comment of the repository that the code does not keep *)

\* "Operating totals and the income statement both ignore the centralization
\* entry" (domain/filing/liasse.py): they show the same result.
FiscalAgreesWithStatements == FiscalResult = ResultOver(Operating)
=============================================================================
