---------------------------- MODULE AtomicRestore ----------------------------
(* What a restore promises: the archive as a whole, or what was there before   *)
(* as a whole; anything else is declared (a raised rollback failure, a crash). *)

CONSTANTS Contents  \* what can be stored

VARIABLES content,  \* what is stored
          target,   \* what the restore under way installs
          status    \* idle, restoring, then the outcome of the last restore

Init == content \in Contents /\ target \in Contents /\ status = "idle"

\* Ordinary use of the application, between restores; the next archive to
\* install may be chosen at any time before its restore begins.
Write == /\ status # "restoring"
         /\ content' \in Contents /\ target' \in Contents
         /\ status' = "idle"

Begin == /\ status # "restoring"
         /\ target' \in Contents
         /\ status' = "restoring" /\ UNCHANGED content

Restored == /\ status = "restoring"
            /\ content' = target /\ status' = "restored" /\ UNCHANGED target

Undone == /\ status = "restoring"
          /\ status' = "undone" /\ UNCHANGED <<content, target>>

Broken == /\ status = "restoring"
          /\ content' \in Contents /\ status' = "broken" /\ UNCHANGED target

Next == Write \/ Begin \/ Restored \/ Undone \/ Broken

Spec == Init /\ [][Next]_<<content, target, status>>
=============================================================================
