------------------------------ MODULE Outputs -------------------------------
(***************************************************************************)
(* What a year hands out: the tax return (liasse) and its PDF, the file of *)
(* accounting entries (FEC) and the control archive, from the precheck and *)
(* the closing that freeze the return to the downloads (services/          *)
(* closing.py, efi.py, export_gate.py, archive.py, domain/filing/mappings  *)
(* .py, fec.py, domain/fiscal/output_status.py).                           *)
(*                                                                         *)
(* One year of a vintage whose boxes are all verified.  Of the return only *)
(* the facts its trust depends on are kept: what it was taken on, and its  *)
(* errors and warnings.  Warnings that are always there (CVAE_NON_EXIGEE)  *)
(* or that repeat another one (FISCAL_RESEARCH, FISCAL_PROVISOIRE) are     *)
(* left out.  A FEC has no error: the ledger posts only balanced entries   *)
(* dated in the year, and every text is cut free of separators.            *)
(***************************************************************************)
EXTENDS Integers, Sequences, FiniteSets, Functions

CONSTANTS Sirens,         \* identities the activity can declare
          NoSiren,        \* no identity declared
          MaxBooked,      \* bound: entries
          MaxAssets,      \* bound: assets of the register
          MaxRules,       \* bound: versions of rules.yaml
          MaxClosings,    \* bound: closings
          MaxHanded       \* bound: final files whose download is remembered

VARIABLES
  status,    \* fiscal_year.status
  book,      \* kinds of the validated entries
  assets,    \* number of assets in the register
  siren,     \* rental_activity.siren
  rules,     \* version of fiscal/<vintage>/rules.yaml
  attested,  \* rules_version of a complete validation.json; 0: research record
  live,      \* the computation not invalidated, or NoFiscal
  snapshots, \* tax_return_snapshot: the generations
  prepared,  \* history: what mark_ready was told, and saw, since the year was open
  handed     \* history: the final files handed out

vars == <<status, book, assets, siren, rules, attested, live, snapshots,
          prepared, handed>>

Entries == {"rent", "payroll", "asset"}
NoFiscal == [entries |-> 0, rules |-> 0]
NoSheet == [produced |-> FALSE]
NotPrepared == [acknowledged |-> {}, siren |-> NoSiren, trust |-> "none"]

-----------------------------------------------------------------------------
(* The return *)

\* BLOCKING_WARNINGS, those the model raises
BlockingWarnings == {"EFFECTIFS", "SIREN_MANQUANT"}
Codes == BlockingWarnings \cup {"RESEARCH_ONLY", "OUTPUT_PROVISOIRE"}

\* _immobilisations, gap_error: the register and the ledger must agree.
SheetErrors ==
  IF Cardinality({n \in DOMAIN book : book[n] = "asset"}) # assets
    THEN {"IMMOBILISATIONS_ECART"} ELSE {}

\* _valeur_ajoutee, extend_package
SheetWarnings ==
  {w \in BlockingWarnings : \/ w = "EFFECTIFS" /\ "payroll" \in Range(book)
                            \/ w = "SIREN_MANQUANT" /\ siren = NoSiren}

\* resolve_trust, on the attestation of the vintage as it is when it is read.
Trust(complete) ==
  IF attested = 0 THEN "recherche"
  ELSE IF attested # rules \/ ~ complete THEN "provisoire"
  ELSE "declarable"

\* _replace_trust_warning
TrustWarnings(trust) ==
  CASE trust = "recherche" -> {"RESEARCH_ONLY"}
    [] trust = "provisoire" -> {"OUTPUT_PROVISOIRE"}
    [] OTHER -> {}

\* apply_output_status: what a return is worth, whenever it is read.
Stamped(package) ==
  LET trust == Trust(package.complete) IN
  [package EXCEPT !.trust = trust,
                  !.warnings = (@ \cap BlockingWarnings) \cup TrustWarnings(trust)]

\* compile_package: the books as they are, with the live computation, which
\* may be older.
Compiled ==
  Stamped([produced |-> TRUE, entries |-> Len(book), fiscal |-> live,
           siren |-> siren, errors |-> SheetErrors, warnings |-> SheetWarnings,
           complete |-> SheetErrors = {} /\ SheetWarnings = {},
           trust |-> "recherche"])

CurrentGenerations == {n \in DOMAIN snapshots : snapshots[n].status = "CURRENT"}
Frozen == CurrentGenerations # {}

\* Variant: the return is always compiled from the tables.
LiveWorksheet == IF live = NoFiscal THEN NoSheet ELSE Compiled

\* efi_worksheet: the current snapshot, else what can be compiled now.
Worksheet ==
  IF Frozen THEN Stamped(snapshots[CHOOSE n \in CurrentGenerations : TRUE].package)
  ELSE IF live = NoFiscal THEN NoSheet
  ELSE Compiled

-----------------------------------------------------------------------------
(* The posture of an output *)

\* artifact_posture, classify: the liasse and its PDF.
LiassePosture ==
  IF ~ Worksheet.produced THEN "bloquee"
  ELSE IF ~ Worksheet.complete THEN "bloquee"
  ELSE IF Worksheet.trust = "declarable" /\ (Frozen \/ status = "CLOSED") THEN "finale"
  ELSE "provisoire"

\* controlled_fec_posture: the FEC and the control archive.
FecPosture ==
  IF status # "CLOSED" \/ siren = NoSiren THEN "bloquee" ELSE LiassePosture

Posture(kind) == IF kind = "pdf" THEN LiassePosture ELSE FecPosture

\* The prerequisites of the liasse: what the return itself was blocked for.
LiassePrerequisites ==
  IF LiassePosture # "bloquee" THEN {}
  ELSE IF ~ Worksheet.produced THEN {"FISCAL_NOT_COMPUTED"}
  ELSE LET blocking == Worksheet.errors \cup (Worksheet.warnings \cap BlockingWarnings)
       IN IF blocking = {} THEN {"EXPORT_BLOCKED"} ELSE blocking

\* Variant: a year not closed is the only obstacle of its own a FEC has.
FecPrerequisitesOfYear ==
  IF FecPosture # "bloquee" THEN {}
  ELSE IF status # "CLOSED" THEN {"YEAR_NOT_CLOSED"}
  ELSE LiassePrerequisites

\* _prerequisites: the first obstacle of the FEC, or those of the liasse.
FecPrerequisites ==
  IF FecPosture # "bloquee" THEN {}
  ELSE IF status # "CLOSED" THEN {"YEAR_NOT_CLOSED"}
  ELSE IF siren = NoSiren THEN {"SIREN_REQUIRED"}
  ELSE LiassePrerequisites

Prerequisites(kind) == IF kind = "pdf" THEN LiassePrerequisites ELSE FecPrerequisites

-----------------------------------------------------------------------------
Init ==
  /\ status = "OPEN"
  /\ book = <<>> /\ assets = 0
  /\ siren = NoSiren
  /\ rules = 1 /\ attested = 0
  /\ live = NoFiscal
  /\ snapshots = <<>>
  /\ prepared = NotPrepared
  /\ handed = {}

\* A rent, a salary, or an asset enters the books.
PostEntry(kind) ==
  /\ status = "OPEN" /\ Len(book) < MaxBooked
  /\ book' = Append(book, kind)
  /\ UNCHANGED <<status, assets, siren, rules, attested, live, snapshots,
                 prepared, handed>>

\* create_asset: whatever the status of the year.
RegisterAsset ==
  /\ assets < MaxAssets
  /\ assets' = assets + 1
  /\ UNCHANGED <<status, book, siren, rules, attested, live, snapshots,
                 prepared, handed>>

\* update_identity: at any time, closed years or not.
UpdateIdentity(s) ==
  /\ s # siren
  /\ siren' = s
  /\ UNCHANGED <<status, book, assets, rules, attested, live, snapshots,
                 prepared, handed>>

\* A release of the program brings new rules, or the attestation of those it has.
ReleaseRules ==
  /\ rules < MaxRules
  /\ rules' = rules + 1
  /\ UNCHANGED <<status, book, assets, siren, attested, live, snapshots,
                 prepared, handed>>

Attest ==
  /\ attested # rules
  /\ attested' = rules
  /\ UNCHANGED <<status, book, assets, siren, rules, live, snapshots,
                 prepared, handed>>

\* compute_fiscal
ComputeFiscal ==
  LET now == [entries |-> Len(book), rules |-> rules] IN
  /\ live # now /\ status = "OPEN"
  /\ live' = now
  /\ UNCHANGED <<status, book, assets, siren, rules, attested, snapshots,
                 prepared, handed>>

\* A correction of the structuring data (invalidate_open_dependencies).
CorrectStructure ==
  /\ status # "CLOSED" /\ live # NoFiscal
  /\ status' = "OPEN" /\ live' = NoFiscal
  /\ prepared' = NotPrepared
  /\ UNCHANGED <<book, assets, siren, rules, attested, snapshots, handed>>

\* The part of the precheck that looks at the return (the other controls are
\* those of FiscalYears and ResultClosing).
Passes == live # NoFiscal /\ live.entries = Len(book) /\ SheetErrors = {}

\* Variant: as many ticks as there are warnings.
AcknowledgedByCount(acknowledged) ==
  Cardinality(acknowledged) = Cardinality(Compiled.warnings)

\* acknowledgements_match
Acknowledged(acknowledged) == acknowledged = Compiled.warnings

\* The user sends what he ticked, on the precheck he saw.
MarkReady(acknowledged) ==
  /\ status # "CLOSED"
  /\ Passes /\ Acknowledged(acknowledged)
  /\ status' = "READY_TO_CLOSE"
  /\ prepared' = [acknowledged |-> acknowledged, siren |-> siren,
                  trust |-> Compiled.trust]
  /\ UNCHANGED <<book, assets, siren, rules, attested, live, snapshots, handed>>

\* close_year: the precheck again, but not the acknowledgements.
CloseYear ==
  /\ status = "READY_TO_CLOSE"
  /\ Passes
  /\ Len(snapshots) < MaxClosings
  /\ status' = "CLOSED"
  /\ snapshots' = Append(snapshots,
       [status |-> "CURRENT", package |-> Compiled])
  /\ UNCHANGED <<book, assets, siren, rules, attested, live, prepared, handed>>

\* _supersede
Superseded == [n \in DOMAIN snapshots |-> [snapshots[n] EXCEPT !.status = "SUPERSEDED"]]

ReopenYear ==
  /\ status = "CLOSED"
  /\ status' = "OPEN" /\ live' = NoFiscal
  /\ snapshots' = Superseded
  /\ prepared' = NotPrepared
  /\ UNCHANGED <<book, assets, siren, rules, attested, handed>>

\* A final file that the gate lets through (require_export); the archive puts
\* the FEC of the books and the worksheet together (control_archive).  Other
\* downloads change nothing and are not remembered.
Download(kind) ==
  /\ Posture(kind) = "finale" /\ Cardinality(handed) < MaxHanded
  /\ handed' = handed \cup {[kind |-> kind, closing |-> Len(snapshots),
                             entries |-> Len(book), sheet |-> Worksheet]}
  /\ UNCHANGED <<status, book, assets, siren, rules, attested, live, snapshots,
                 prepared>>

Kinds == {"pdf", "archive"}

Next ==
  \/ \E kind \in Entries : PostEntry(kind)
  \/ RegisterAsset
  \/ \E s \in Sirens \cup {NoSiren} : UpdateIdentity(s)
  \/ ReleaseRules \/ Attest
  \/ ComputeFiscal \/ CorrectStructure
  \/ \E acknowledged \in SUBSET Codes : MarkReady(acknowledged)
  \/ CloseYear \/ ReopenYear
  \/ \E kind \in Kinds : Download(kind)

Spec == Init /\ [][Next]_vars

-----------------------------------------------------------------------------
(* Properties *)

SameReturn(s, t) == \A f \in {"entries", "fiscal", "siren", "errors"} : s[f] = t[f]

\* A file handed out as final carries the return of a closing, complete, with
\* an identity, and computed on the very books it went out with.  As long as the
\* year is not reopened another one would carry the same return, whatever became
\* of the identity, the register, the rules and their attestation.
FinalCopiesAgree == \A h \in handed :
  /\ h.sheet.complete /\ h.sheet.siren # NoSiren
  /\ h.sheet.entries = h.entries /\ h.sheet.fiscal.entries = h.entries
  /\ status = "CLOSED" /\ h.closing = Len(snapshots) => SameReturn(h.sheet, Worksheet)

\* A return is frozen with the warnings its user ticked.  Only a change of the
\* identity, of the rules or of their attestation after the preparation brings
\* one that was not: closing does not look at the acknowledgements again.
FrozenWarningsAcknowledged == status = "CLOSED" =>
  LET frozen == snapshots[Len(snapshots)].package IN
  frozen.siren = prepared.siren /\ frozen.trust = prepared.trust =>
    frozen.warnings = prepared.acknowledged

\* A refused download names an obstacle, and one that is still there: only the
\* frozen return of a closed year may name one that was removed since.  An
\* archive is never handed out without an identity.
BlockedIsExplained == \A kind \in Kinds :
  LET named == Prerequisites(kind) IN
  /\ named = {} <=> Posture(kind) # "bloquee"
  /\ "EXPORT_BLOCKED" \notin named
  /\ "FISCAL_NOT_COMPUTED" \in named => live = NoFiscal
  /\ named \cap (BlockingWarnings \cup {"IMMOBILISATIONS_ECART"}) \subseteq
       (IF status = "CLOSED" THEN BlockingWarnings ELSE SheetWarnings \cup SheetErrors)
  /\ kind = "archive" /\ siren = NoSiren => named # {}
=============================================================================
