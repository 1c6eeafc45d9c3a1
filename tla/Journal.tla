------------------------------ MODULE Journal -------------------------------
(***************************************************************************)
(* What the ledger promises, whatever tables and versions it keeps: for    *)
(* each fiscal year one append-only journal of numbered postings, the      *)
(* position being the number.  It grows only while the year is writable,   *)
(* in the order of the validation times; a correction is a mirror posting  *)
(* that names the posting it reverses, at most once.                       *)
(***************************************************************************)
EXTENDS Integers, Sequences

CONSTANTS Years, Contents, Mirror  \* Mirror[c] cancels content c

VARIABLES posted, writable

jvars == <<posted, writable>>

JournalInit ==
  /\ posted = [y \in Years |-> <<>>]
  /\ writable = Years

\* A posting p becomes the next of the journal of y.
Extends(y, p) ==
  /\ y \in writable
  /\ \A n \in DOMAIN posted[y] : posted[y][n].stamp <= p.stamp
  /\ p.date <= p.stamp
  /\ posted' = [posted EXCEPT ![y] = Append(@, p)]
  /\ UNCHANGED writable

\* The posting number of y that step appended, if it appended one.
Last(y) == posted'[y][Len(posted'[y])]

Post(y) ==
  /\ Len(posted'[y]) = Len(posted[y]) + 1
  /\ Last(y).reverses = 0
  /\ Last(y).lines \in Contents
  /\ Extends(y, Last(y))

Reverse(y) ==
  /\ Len(posted'[y]) = Len(posted[y]) + 1
  /\ Last(y).reverses \in DOMAIN posted[y]
  /\ LET n == Last(y).reverses IN
     /\ posted[y][n].reverses = 0
     /\ \A m \in DOMAIN posted[y] : posted[y][m].reverses # n
     /\ Last(y).lines = Mirror[posted[y][n].lines]
  /\ Extends(y, Last(y))

\* Years are locked and unlocked; no posting moves with the lock.
Lock ==
  /\ writable' \subseteq Years
  /\ UNCHANGED posted

JournalNext == Lock \/ \E y \in Years : Post(y) \/ Reverse(y)

Spec == JournalInit /\ [][JournalNext]_jvars
=============================================================================
