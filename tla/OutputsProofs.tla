---------------------------- MODULE OutputsProofs ----------------------------
(***************************************************************************)
(* The theorems of Outputs, for any identities and any number of entries,  *)
(* assets, releases of the rules, closings and downloads: what leaves as   *)
(* final is the return of a closing, and a return is frozen with the       *)
(* warnings its user ticked.                                               *)
(***************************************************************************)
EXTENDS Outputs, TLAPS

Statuses == {"OPEN", "READY_TO_CLOSE", "CLOSED"}
Computations == [entries : Nat, rules : Nat]
Packages == [produced : {TRUE}, entries : Nat, fiscal : Computations,
             siren : Sirens \cup {NoSiren}, errors : SUBSET {"IMMOBILISATIONS_ECART"},
             warnings : SUBSET Codes, complete : BOOLEAN,
             trust : {"recherche", "provisoire", "declarable"}]
Generations == [status : {"CURRENT", "SUPERSEDED"}, package : Packages]

TypeOK ==
  /\ status \in Statuses /\ book \in Seq(Entries)
  /\ siren \in Sirens \cup {NoSiren}
  /\ rules \in Nat /\ attested \in Nat
  /\ live \in Computations
  /\ snapshots \in Seq(Generations)

\* The generation of the closing, the only current one, is on the books of the
\* year, which nobody can touch since.
Closing ==
  LET last == snapshots[Len(snapshots)].package IN
  IF status = "CLOSED"
    THEN /\ Len(snapshots) > 0 /\ CurrentGenerations = {Len(snapshots)}
         /\ last.entries = Len(book) /\ last.fiscal.entries = Len(book)
         /\ last.complete => last.siren # NoSiren
    ELSE CurrentGenerations = {}

\* What was handed out, and the return of its closing.
HandedOut == \A h \in handed :
  /\ h.closing \in Nat /\ h.closing <= Len(snapshots)
  /\ h.sheet.complete /\ h.sheet.siren # NoSiren
  /\ h.sheet.entries = h.entries /\ h.sheet.fiscal.entries = h.entries
  /\ status = "CLOSED" /\ h.closing = Len(snapshots) =>
       SameReturn(h.sheet, snapshots[Len(snapshots)].package)

\* The warnings of a return on these books, for an identity and a trust.
WarningsFor(identity, trust) ==
  {w \in BlockingWarnings : \/ w = "EFFECTIFS" /\ "payroll" \in Range(book)
                            \/ w = "SIREN_MANQUANT" /\ identity = NoSiren}
    \cup TrustWarnings(trust)

\* What was ticked is still what the books call for, with the identity and the
\* trust of that time; a return frozen under them has the same warnings.
Ticked ==
  /\ status # "OPEN" =>
       prepared.acknowledged = WarningsFor(prepared.siren, prepared.trust)
  /\ status = "CLOSED" =>
       LET last == snapshots[Len(snapshots)].package IN
       last.warnings = WarningsFor(last.siren, last.trust)

IInv == TypeOK /\ Closing /\ HandedOut /\ Ticked

-----------------------------------------------------------------------------
(* Returns *)

LEMMA TrustTyped ==
  ASSUME NEW c
  PROVE  /\ Trust(c) \in {"recherche", "provisoire", "declarable"}
         /\ \A t : TrustWarnings(t) \in SUBSET Codes /\ TrustWarnings(t) \cap BlockingWarnings = {}
  BY DEF Trust, TrustWarnings, Codes, BlockingWarnings

\* Reading a return again changes its trust and what follows from it only.
LEMMA StampedKeeps ==
  ASSUME NEW p \in Packages
  PROVE  /\ Stamped(p) \in Packages
         /\ SameReturn(Stamped(p), p) /\ Stamped(p).complete = p.complete
         /\ Stamped(p).produced
         /\ Stamped(p).trust = Trust(p.complete)
         /\ Stamped(p).warnings =
              (p.warnings \cap BlockingWarnings) \cup TrustWarnings(Stamped(p).trust)
<1> DEFINE t == Trust(p.complete)
           w == (p.warnings \cap BlockingWarnings) \cup TrustWarnings(t)
<1>1. t \in {"recherche", "provisoire", "declarable"} /\ w \in SUBSET Codes
  BY TrustTyped DEF Codes
<1>2. Stamped(p) = [p EXCEPT !.trust = t, !.warnings = w]
  BY DEF Stamped
<1> HIDE DEF t, w
<1>3. /\ Stamped(p) \in Packages /\ Stamped(p).trust = t /\ Stamped(p).warnings = w
      /\ \A f \in {"produced", "entries", "fiscal", "siren", "errors", "complete"} :
           Stamped(p)[f] = p[f]
  BY <1>1, <1>2 DEF Packages
<1> QED  BY <1>3 DEF SameReturn, Packages, t, w

LEMMA CompiledFacts ==
  ASSUME TypeOK
  PROVE  /\ Compiled \in Packages
         /\ Compiled.entries = Len(book) /\ Compiled.fiscal = live
         /\ Compiled.siren = siren
         /\ Compiled.complete => siren # NoSiren
         /\ Compiled.warnings = WarningsFor(Compiled.siren, Compiled.trust)
<1> DEFINE raw == [produced |-> TRUE, entries |-> Len(book), fiscal |-> live,
                   siren |-> siren, errors |-> SheetErrors, warnings |-> SheetWarnings,
                   complete |-> SheetErrors = {} /\ SheetWarnings = {},
                   trust |-> "recherche"]
<1>1. SheetErrors \in SUBSET {"IMMOBILISATIONS_ECART"} /\ SheetWarnings \in SUBSET Codes
      /\ SheetWarnings \subseteq BlockingWarnings /\ Len(book) \in Nat
  BY DEF SheetErrors, SheetWarnings, Codes, TypeOK
<1>2. raw \in Packages
  <2>1. (SheetErrors = {} /\ SheetWarnings = {}) \in BOOLEAN
    OBVIOUS
  <2> QED  BY <1>1, <2>1 DEF Packages, TypeOK
<1>3. Compiled = Stamped(raw)
  BY DEF Compiled
<1>4. raw.complete => siren # NoSiren
  BY DEF SheetWarnings, BlockingWarnings
<1>5. /\ raw.entries = Len(book) /\ raw.fiscal = live /\ raw.siren = siren
      /\ raw.warnings = SheetWarnings
  OBVIOUS
<1> HIDE DEF raw
<1>6. /\ Compiled \in Packages /\ SameReturn(Compiled, raw)
      /\ Compiled.complete = raw.complete
      /\ Compiled.warnings = (raw.warnings \cap BlockingWarnings) \cup TrustWarnings(Compiled.trust)
  BY <1>2, <1>3, StampedKeeps
<1>7. /\ Compiled.entries = raw.entries /\ Compiled.fiscal = raw.fiscal
      /\ Compiled.siren = raw.siren
  BY <1>6 DEF SameReturn
<1>8. SheetWarnings \cap BlockingWarnings = SheetWarnings
  BY <1>1
<1> QED
  BY <1>4, <1>5, <1>6, <1>7, <1>8 DEF WarningsFor, SheetWarnings

\* In a closed year the worksheet is the frozen return.
LEMMA ClosedWorksheet ==
  ASSUME TypeOK, Closing, status = "CLOSED"
  PROVE  LET last == snapshots[Len(snapshots)].package IN
         /\ Frozen /\ last \in Packages /\ Worksheet = Stamped(last)
<1>1. Len(snapshots) \in DOMAIN snapshots
  BY DEF TypeOK, Closing
<1>2. snapshots[Len(snapshots)] \in Generations
  BY <1>1 DEF TypeOK
<1>3. CurrentGenerations = {Len(snapshots)}
  BY DEF Closing
<1>4. (CHOOSE n \in CurrentGenerations : TRUE) = Len(snapshots)
  BY <1>3
<1> QED  BY <1>2, <1>3, <1>4 DEF Frozen, Worksheet, Generations

-----------------------------------------------------------------------------
(* The invariant *)

LEMMA Initial == Init => IInv
<1> SUFFICES ASSUME Init PROVE IInv
  OBVIOUS
<1>1. TypeOK
  BY DEF Init, TypeOK, Statuses, Computations, NoFiscal
<1>2. CurrentGenerations = {}
  BY DEF Init, CurrentGenerations
<1> QED  BY <1>1, <1>2 DEF Init, IInv, Closing, HandedOut, Ticked

\* Steps that leave the year and its returns alone.
LEMMA Unconcerned ==
  ASSUME IInv, TypeOK', UNCHANGED <<status, snapshots, prepared, handed>>,
         status = "OPEN" \/ book' = book
  PROVE  IInv'
<1>1. Closing'
  BY DEF IInv, Closing, CurrentGenerations
<1>2. HandedOut'
  BY DEF IInv, HandedOut, SameReturn
<1>3. Ticked'
  BY DEF IInv, Ticked, WarningsFor, TypeOK
<1> QED  BY <1>1, <1>2, <1>3 DEF IInv

LEMMA Inductive ==
  ASSUME IInv, [Next]_vars
  PROVE  IInv'
<1>0. TypeOK /\ Closing /\ HandedOut /\ Ticked
  BY DEF IInv
<1>1. ASSUME NEW kind \in Entries, PostEntry(kind) PROVE IInv'
  <2>1. TypeOK'
    BY <1>0, <1>1 DEF PostEntry, TypeOK
  <2> QED  BY <1>1, <2>1, Unconcerned DEF PostEntry
<1>2. CASE RegisterAsset
  <2>1. TypeOK'
    BY <1>0, <1>2 DEF RegisterAsset, TypeOK
  <2> QED  BY <1>2, <2>1, Unconcerned DEF RegisterAsset
<1>3. ASSUME NEW s \in Sirens \cup {NoSiren}, UpdateIdentity(s) PROVE IInv'
  <2>1. TypeOK'
    BY <1>0, <1>3 DEF UpdateIdentity, TypeOK
  <2> QED  BY <1>3, <2>1, Unconcerned DEF UpdateIdentity
<1>4. CASE ReleaseRules \/ Attest
  <2>1. TypeOK'
    BY <1>0, <1>4 DEF ReleaseRules, Attest, TypeOK
  <2> QED  BY <1>4, <2>1, Unconcerned DEF ReleaseRules, Attest
<1>5. CASE ComputeFiscal
  <2>1. TypeOK'
    BY <1>0, <1>5 DEF ComputeFiscal, TypeOK, Computations
  <2> QED  BY <1>5, <2>1, Unconcerned DEF ComputeFiscal
<1>6. CASE CorrectStructure
  <2>1. TypeOK'
    BY <1>0, <1>6 DEF CorrectStructure, TypeOK, Statuses, Computations, NoFiscal
  <2>2. Closing' /\ HandedOut' /\ Ticked'
    BY <1>0, <1>6 DEF CorrectStructure, Closing, CurrentGenerations, HandedOut, Ticked
  <2> QED  BY <2>1, <2>2 DEF IInv
<1>7. ASSUME NEW a \in SUBSET Codes, MarkReady(a) PROVE IInv'
  <2>1. TypeOK'
    BY <1>0, <1>7 DEF MarkReady, TypeOK, Statuses
  <2>2. Closing' /\ HandedOut'
    BY <1>0, <1>7 DEF MarkReady, Closing, CurrentGenerations, HandedOut
  <2>3. /\ a = WarningsFor(siren, Compiled.trust)
        /\ prepared'.acknowledged = a /\ prepared'.siren = siren
        /\ prepared'.trust = Compiled.trust
    BY <1>0, <1>7, CompiledFacts DEF MarkReady, Acknowledged
  <2>4. Ticked'
    BY <1>7, <2>3 DEF MarkReady, Ticked, WarningsFor
  <2> QED  BY <2>1, <2>2, <2>4 DEF IInv
<1>8. CASE CloseYear
  <2> DEFINE g == [status |-> "CURRENT", package |-> Compiled]
  <2>1. Compiled \in Packages
    BY <1>0, CompiledFacts
  <2>2. g \in Generations /\ g.package = Compiled /\ g.status = "CURRENT"
    BY <2>1 DEF Generations
  <2>3. snapshots' = Append(snapshots, g)
    BY <1>8 DEF CloseYear
  <2> HIDE DEF g
  <2>4. /\ snapshots' \in Seq(Generations) /\ Len(snapshots') = Len(snapshots) + 1
        /\ Len(snapshots) \in Nat
        /\ \A n \in 1..Len(snapshots) : snapshots'[n] = snapshots[n]
        /\ snapshots'[Len(snapshots')] = g
    BY <1>0, <2>2, <2>3 DEF TypeOK
  <2>5. TypeOK'
    BY <1>0, <1>8, <2>4 DEF CloseYear, TypeOK, Statuses
  <2>6. Closing'
    <3>1. CurrentGenerations' = {Len(snapshots')}
      BY <1>0, <1>8, <2>2, <2>4 DEF CloseYear, Closing, CurrentGenerations, TypeOK
    <3>2. Compiled.entries = Len(book) /\ Compiled.fiscal.entries = Len(book)
          /\ (Compiled.complete => Compiled.siren # NoSiren)
      BY <1>0, <1>8, CompiledFacts DEF CloseYear, Passes
    <3> QED  BY <1>8, <2>2, <2>4, <3>1, <3>2 DEF CloseYear, Closing
  <2>7. HandedOut'
    BY <1>0, <1>8, <2>4 DEF CloseYear, HandedOut
  <2>8. Ticked'
    <3>1. Compiled.warnings = WarningsFor(Compiled.siren, Compiled.trust)
      BY <1>0, CompiledFacts
    <3>2. book' = book /\ prepared' = prepared /\ status = "READY_TO_CLOSE"
      BY <1>8 DEF CloseYear
    <3>3. snapshots'[Len(snapshots')].package = Compiled
      BY <2>2, <2>4
    <3> QED  BY <1>0, <3>1, <3>2, <3>3 DEF Ticked, WarningsFor
  <2> QED  BY <2>5, <2>6, <2>7, <2>8 DEF IInv
<1>9. CASE ReopenYear
  <2>1. snapshots' = [n \in DOMAIN snapshots |-> [snapshots[n] EXCEPT !.status = "SUPERSEDED"]]
    BY <1>9 DEF ReopenYear, Superseded
  <2>2. \A n \in DOMAIN snapshots : /\ snapshots'[n] \in Generations
                                    /\ snapshots'[n].status = "SUPERSEDED"
    <3> SUFFICES ASSUME NEW n \in DOMAIN snapshots
                 PROVE  /\ snapshots'[n] \in Generations
                        /\ snapshots'[n].status = "SUPERSEDED"
      OBVIOUS
    <3>1. snapshots[n] \in Generations
      BY <1>0 DEF TypeOK
    <3>2. snapshots'[n] = [snapshots[n] EXCEPT !.status = "SUPERSEDED"]
      BY <2>1
    <3> QED  BY <3>1, <3>2 DEF Generations
  <2>3. snapshots' \in Seq(Generations) /\ Len(snapshots') = Len(snapshots)
    BY <1>0, <2>1, <2>2 DEF TypeOK
  <2>4. TypeOK'
    BY <1>0, <1>9, <2>3 DEF ReopenYear, TypeOK, Statuses, Computations, NoFiscal
  <2>5. CurrentGenerations' = {}
    BY <1>0, <2>1, <2>2 DEF CurrentGenerations
  <2>6. Closing' /\ HandedOut' /\ Ticked'
    BY <1>0, <1>9, <2>3, <2>5 DEF ReopenYear, Closing, HandedOut, Ticked
  <2> QED  BY <2>4, <2>6 DEF IInv
<1>10. ASSUME NEW kind \in Kinds, Download(kind) PROVE IInv'
  <2>1. TypeOK' /\ Closing' /\ Ticked'
    BY <1>0, <1>10 DEF Download, TypeOK, Closing, CurrentGenerations, Ticked, WarningsFor
  <2>2. LiassePosture = "finale"
    BY <1>10 DEF Download, Posture, FecPosture
  <2>3. status = "CLOSED" /\ Worksheet.complete
    BY <1>0, <2>2 DEF LiassePosture, Frozen, Closing
  <2> DEFINE last == snapshots[Len(snapshots)].package
  <2>4. last \in Packages /\ Worksheet = Stamped(last)
    BY <1>0, <2>3, ClosedWorksheet
  <2>5. SameReturn(Worksheet, last) /\ Worksheet.complete = last.complete
    BY <2>4, StampedKeeps
  <2>6. /\ last.entries = Len(book) /\ last.fiscal.entries = Len(book)
        /\ last.siren # NoSiren
    BY <1>0, <2>3, <2>5 DEF Closing
  <2>7. /\ Worksheet.siren # NoSiren /\ Worksheet.entries = Len(book)
        /\ Worksheet.fiscal.entries = Len(book)
    BY <2>5, <2>6 DEF SameReturn
  <2>8. UNCHANGED <<status, snapshots>> /\ Len(snapshots) \in Nat
    BY <1>0, <1>10 DEF Download, TypeOK
  <2> HIDE DEF last
  <2>9. ASSUME NEW h \in handed'
        PROVE  /\ h.closing \in Nat /\ h.closing <= Len(snapshots)
               /\ h.sheet.complete /\ h.sheet.siren # NoSiren
               /\ h.sheet.entries = h.entries /\ h.sheet.fiscal.entries = h.entries
               /\ h.closing = Len(snapshots) => SameReturn(h.sheet, last)
    <3>1. CASE h \in handed
      BY <1>0, <2>3, <3>1 DEF HandedOut, last
    <3>2. CASE h = [kind |-> kind, closing |-> Len(snapshots), entries |-> Len(book),
                    sheet |-> Worksheet]
      BY <2>3, <2>5, <2>7, <2>8, <3>2
    <3> QED  BY <1>10, <3>1, <3>2 DEF Download
  <2>10. HandedOut'
    BY <2>8, <2>9 DEF HandedOut, SameReturn, last
  <2> QED  BY <2>1, <2>10 DEF IInv
<1>11. CASE UNCHANGED vars
  <2>1. TypeOK'
    BY <1>0, <1>11 DEF vars, TypeOK
  <2> QED  BY <1>11, <2>1, Unconcerned DEF vars
<1> QED
  BY <1>1, <1>2, <1>3, <1>4, <1>5, <1>6, <1>7, <1>8, <1>9, <1>10, <1>11 DEF Next

-----------------------------------------------------------------------------
(* Theorems *)

\* require_export, control_archive: a file handed out as final carries the
\* complete return of a closing, on the books it went out with, and so would
\* any other until the year is reopened.
THEOREM FinalCopiesAgreeHolds == Spec => []FinalCopiesAgree
<1>1. IInv => FinalCopiesAgree
  <2> SUFFICES ASSUME IInv, NEW h \in handed
               PROVE  /\ h.sheet.complete /\ h.sheet.siren # NoSiren
                      /\ h.sheet.entries = h.entries /\ h.sheet.fiscal.entries = h.entries
                      /\ status = "CLOSED" /\ h.closing = Len(snapshots) =>
                           SameReturn(h.sheet, Worksheet)
    BY DEF FinalCopiesAgree
  <2> DEFINE last == snapshots[Len(snapshots)].package
  <2>1. ASSUME status = "CLOSED", h.closing = Len(snapshots)
        PROVE  SameReturn(h.sheet, Worksheet)
    <3>1. last \in Packages /\ Worksheet = Stamped(last)
      BY <2>1, ClosedWorksheet DEF IInv
    <3>2. SameReturn(Worksheet, last)
      BY <3>1, StampedKeeps
    <3>3. SameReturn(h.sheet, last)
      BY <2>1 DEF IInv, HandedOut
    <3> QED  BY <3>2, <3>3 DEF SameReturn
  <2> QED  BY <2>1 DEF IInv, HandedOut
<1> QED  BY <1>1, Initial, Inductive, PTL DEF Spec

\* mark_ready, close_year: the warnings of a frozen return were ticked, unless
\* the identity or the trust changed after the preparation.
THEOREM FrozenWarningsAcknowledgedHolds == Spec => []FrozenWarningsAcknowledged
<1>1. IInv => FrozenWarningsAcknowledged
  BY DEF IInv, Ticked, FrozenWarningsAcknowledged
<1> QED  BY <1>1, Initial, Inductive, PTL DEF Spec

-----------------------------------------------------------------------------
(* Refused outputs *)

\* A frozen return has no error, and is incomplete for its warnings only.
FrozenSound == \A n \in DOMAIN snapshots :
  LET p == snapshots[n].package IN
  p.errors = {} /\ (p.complete <=> p.warnings \cap BlockingWarnings = {})

LEMMA CompiledSound ==
  ASSUME TypeOK
  PROVE  /\ Compiled.produced /\ Compiled.errors = SheetErrors
         /\ Compiled.warnings \cap BlockingWarnings = SheetWarnings
         /\ Compiled.complete <=> SheetErrors = {} /\ SheetWarnings = {}
<1> DEFINE done == SheetErrors = {} /\ SheetWarnings = {}
           raw == [produced |-> TRUE, entries |-> Len(book), fiscal |-> live,
                   siren |-> siren, errors |-> SheetErrors, warnings |-> SheetWarnings,
                   complete |-> done, trust |-> "recherche"]
<1>1. SheetWarnings \subseteq BlockingWarnings
  BY DEF SheetWarnings
<1>2. \A t : TrustWarnings(t) \cap BlockingWarnings = {}
  BY TrustTyped
<1>3. Compiled = Stamped(raw)
  BY DEF Compiled
<1>4. /\ raw.errors = SheetErrors /\ raw.warnings = SheetWarnings /\ raw.produced
      /\ raw.complete = done
  OBVIOUS
<1>5. /\ Stamped(raw).produced /\ Stamped(raw).errors = SheetErrors
      /\ Stamped(raw).complete = done
      /\ Stamped(raw).warnings = (SheetWarnings \cap BlockingWarnings)
                                   \cup TrustWarnings(Trust(done))
  BY DEF Stamped
<1> HIDE DEF raw
<1> QED  BY <1>1, <1>2, <1>3, <1>5

LEMMA FrozenSoundPreserved ==
  ASSUME IInv, FrozenSound, [Next]_vars
  PROVE  FrozenSound'
<1>1. CASE UNCHANGED snapshots
  BY <1>1 DEF FrozenSound
<1>2. CASE CloseYear
  <2>1. Compiled.errors = {} /\
        (Compiled.complete <=> Compiled.warnings \cap BlockingWarnings = {})
    BY <1>2, CompiledSound DEF CloseYear, Passes, IInv
  <2>2. /\ snapshots' = Append(snapshots, [status |-> "CURRENT", package |-> Compiled])
        /\ snapshots \in Seq(Generations)
    BY <1>2 DEF CloseYear, IInv, TypeOK
  <2>3. \A n \in DOMAIN snapshots' :
          \/ n \in DOMAIN snapshots /\ snapshots'[n] = snapshots[n]
          \/ snapshots'[n].package = Compiled
    BY <2>2
  <2> QED  BY <2>1, <2>3 DEF FrozenSound
<1>3. CASE ReopenYear
  <2>1. /\ DOMAIN snapshots' = DOMAIN snapshots
        /\ \A n \in DOMAIN snapshots : snapshots[n] \in Generations
    BY <1>3 DEF ReopenYear, Superseded, IInv, TypeOK
  <2>2. \A n \in DOMAIN snapshots : snapshots'[n].package = snapshots[n].package
    BY <1>3, <2>1 DEF ReopenYear, Superseded, Generations
  <2> QED  BY <2>1, <2>2 DEF FrozenSound
<1> QED
  BY <1>1, <1>2, <1>3
     DEF Next, vars, PostEntry, RegisterAsset, UpdateIdentity, ReleaseRules, Attest,
         ComputeFiscal, CorrectStructure, MarkReady, Download

\* What the gate reads, whether the year is closed or not.
LEMMA WorksheetSound ==
  ASSUME IInv, FrozenSound
  PROVE  \/ ~ Worksheet.produced /\ live = NoFiscal
         \/ LET blocking == Worksheet.errors \cup (Worksheet.warnings \cap BlockingWarnings)
            IN  /\ Worksheet.produced
                /\ Worksheet.complete <=> blocking = {}
                /\ blocking \subseteq BlockingWarnings \cup {"IMMOBILISATIONS_ECART"}
                /\ blocking \subseteq IF status = "CLOSED" THEN BlockingWarnings
                                      ELSE SheetWarnings \cup SheetErrors
<1>1. CASE status = "CLOSED"
  <2> DEFINE last == snapshots[Len(snapshots)].package
  <2>1. last \in Packages /\ Worksheet = Stamped(last)
    BY <1>1, ClosedWorksheet DEF IInv
  <2>2. last.errors = {} /\ (last.complete <=> last.warnings \cap BlockingWarnings = {})
    BY <1>1 DEF IInv, Closing, TypeOK, FrozenSound
  <2>3. \A t : TrustWarnings(t) \cap BlockingWarnings = {}
    BY TrustTyped
  <2> HIDE DEF last
  <2>4. /\ Worksheet.errors = {} /\ Worksheet.complete = last.complete
        /\ Worksheet.produced
        /\ Worksheet.warnings \cap BlockingWarnings = last.warnings \cap BlockingWarnings
    BY <2>1, <2>2, <2>3, StampedKeeps DEF SameReturn
  <2> QED  BY <1>1, <2>2, <2>4
<1>2. CASE status # "CLOSED"
  <2>1. ~ Frozen
    BY <1>2 DEF IInv, Closing, Frozen
  <2>2. CASE live = NoFiscal
    BY <2>1, <2>2 DEF Worksheet, NoSheet
  <2>3. CASE live # NoFiscal
    <3>1. Worksheet = Compiled
      BY <2>1, <2>3 DEF Worksheet
    <3>2. SheetErrors \subseteq {"IMMOBILISATIONS_ECART"} /\ SheetWarnings \subseteq BlockingWarnings
      BY DEF SheetErrors, SheetWarnings
    <3> QED  BY <1>2, <3>1, <3>2, CompiledSound DEF IInv
  <2> QED  BY <2>2, <2>3
<1> QED  BY <1>1, <1>2

\* artifact_posture, _prerequisites: a refused download always names what stands
\* in its way, nothing but the frozen return keeps an obstacle that is gone, and
\* no archive leaves without an identity.
THEOREM BlockedIsExplainedHolds == Spec => []BlockedIsExplained
<1>1. IInv /\ FrozenSound => BlockedIsExplained
  <2> SUFFICES ASSUME IInv, FrozenSound, NEW kind \in Kinds
               PROVE  LET named == Prerequisites(kind) IN
                      /\ named = {} <=> Posture(kind) # "bloquee"
                      /\ "EXPORT_BLOCKED" \notin named
                      /\ "FISCAL_NOT_COMPUTED" \in named => live = NoFiscal
                      /\ named \cap (BlockingWarnings \cup {"IMMOBILISATIONS_ECART"}) \subseteq
                           (IF status = "CLOSED" THEN BlockingWarnings
                            ELSE SheetWarnings \cup SheetErrors)
                      /\ kind = "archive" /\ siren = NoSiren => named # {}
    BY DEF BlockedIsExplained
  <2> DEFINE blocking == Worksheet.errors \cup (Worksheet.warnings \cap BlockingWarnings)
             L == LiassePrerequisites
  <2>1. /\ L = {} <=> LiassePosture # "bloquee"
        /\ \/ L = {}
           \/ L = {"FISCAL_NOT_COMPUTED"} /\ live = NoFiscal
           \/ /\ L \subseteq BlockingWarnings \cup {"IMMOBILISATIONS_ECART"}
              /\ L \subseteq IF status = "CLOSED" THEN BlockingWarnings
                             ELSE SheetWarnings \cup SheetErrors
    <3>1. CASE ~ Worksheet.produced /\ live = NoFiscal
      BY <3>1 DEF LiassePrerequisites, LiassePosture
    <3>2. CASE /\ Worksheet.produced
               /\ Worksheet.complete <=> blocking = {}
               /\ blocking \subseteq BlockingWarnings \cup {"IMMOBILISATIONS_ECART"}
               /\ blocking \subseteq IF status = "CLOSED" THEN BlockingWarnings
                                     ELSE SheetWarnings \cup SheetErrors
      <4>1. Worksheet.complete =>
              LiassePosture \in {"finale", "provisoire"} /\ L = {}
        BY <3>2 DEF LiassePrerequisites, LiassePosture
      <4>2. ~ Worksheet.complete => LiassePosture = "bloquee" /\ L = blocking
        BY <3>2 DEF LiassePrerequisites, LiassePosture
      <4> QED  BY <3>2, <4>1, <4>2
    <3> QED  BY <3>1, <3>2, WorksheetSound
  <2> HIDE DEF L
  <2>2. CASE kind = "pdf"
    <3>1. Prerequisites(kind) = L /\ Posture(kind) = LiassePosture
      BY <2>2 DEF Prerequisites, Posture, L
    <3> QED  BY <2>1, <2>2, <3>1 DEF BlockingWarnings
  <2>3. CASE kind = "archive"
    <3>1. Prerequisites(kind) = FecPrerequisites /\ Posture(kind) = FecPosture
      BY <2>3 DEF Prerequisites, Posture
    <3>2. CASE status # "CLOSED"
      BY <2>3, <3>1, <3>2 DEF FecPrerequisites, FecPosture, BlockingWarnings
    <3>3. CASE status = "CLOSED" /\ siren = NoSiren
      BY <2>3, <3>1, <3>3 DEF FecPrerequisites, FecPosture, BlockingWarnings
    <3>4. CASE status = "CLOSED" /\ siren # NoSiren
      <4>1. FecPosture = LiassePosture
        BY <3>4 DEF FecPosture
      <4>2. FecPrerequisites = L
        BY <2>1, <3>4, <4>1 DEF FecPrerequisites, L
      <4> QED  BY <2>1, <3>1, <3>4, <4>1, <4>2 DEF BlockingWarnings
    <3> QED  BY <3>2, <3>3, <3>4
  <2> QED  BY <2>2, <2>3 DEF Kinds
<1>2. Init => FrozenSound
  BY DEF Init, FrozenSound
<1>3. IInv /\ FrozenSound /\ [Next]_vars => FrozenSound'
  BY FrozenSoundPreserved
<1> QED  BY <1>1, <1>2, <1>3, Initial, Inductive, PTL DEF Spec
=============================================================================
