------------------------------- MODULE Archive -------------------------------
(* Supporting documents and dossier archives: services/documents.py,           *)
(* services/dossier_export.py, over services/object_store.py.                  *)
(*                                                                             *)
(* A document is a row of the database and an object of the store, which no    *)
(* transaction covers together. An object is named by a uuid and never         *)
(* rewritten with other contents, so a name stands for its contents. The rows  *)
(* of an account stand for its whole payload: a dossier replaces them all in   *)
(* one transaction. A request is a process; its local variables are its record.*)
EXTENDS Naturals, FiniteSets

CONSTANTS
  Owners,       \* the accounts
  Slots,        \* requests that may be in progress together
  Restorers,    \* the accounts that export and restore dossiers
  Alone,        \* whether a restore is the only request while it runs
  MaxNames,     \* bound: documents ever uploaded
  MaxRequests,  \* bound: requests ever received
  MaxFaults,    \* bound: refusals of the store or of the database, damaged archives
  MaxCrashes    \* bound: requests whose process dies

\* No request is mistaken for the absence of a transaction.
SlotsAssumption == "nobody" \notin Slots

VARIABLES
  rows,      \* account -> names of its committed documents
  objects,   \* names present in the store
  archives,  \* dossiers remembered: owner, documents (with their rows), sound
  lock,      \* the request that holds the write transaction, or Nobody
  req,       \* slot -> the request it serves
  spent,     \* names handed out so far
  lost,      \* names a crash or a failed rollback left without object
  withdrawn, \* names left without object by a request that named them and was refused
  served, faults, crashes

vars == <<rows, objects, archives, lock, req, spent, lost, withdrawn, served, faults,
          crashes>>

Nobody == "nobody"
FileNames == 1..MaxNames
NoArchive == [owner |-> Nobody, docs |-> {}, sound |-> FALSE]

Idle == [pc |-> "idle", kind |-> "none", owner |-> Nobody, name |-> 0,
         goal |-> NoArchive, payload |-> {}, snapshot |-> {}, managed |-> {},
         before |-> {}, todo |-> {}, result |-> "none"]

Running(r) == req[r].pc # "idle"
Restoring(r) == Running(r) /\ req[r].kind = "restore"
\* The request has written an account's rows and not yet answered.
Replacing(r) == /\ Restoring(r)
                /\ req[r].pc \in {"sync", "put", "list", "prune", "undoPut",
                                  "undoList", "undoPrune", "undoRows"}

Init ==
  /\ rows = [o \in Owners |-> {}]
  /\ objects = {} /\ archives = {} /\ lost = {} /\ withdrawn = {}
  /\ lock = Nobody
  /\ req = [r \in Slots |-> Idle]
  /\ spent = 0 /\ served = 0 /\ faults = 0 /\ crashes = 0

-----------------------------------------------------------------------------
(* Helpers.                                                                    *)

\* Variant: a refusal leaves the transaction open.
ReleasedOnCommit(r) == IF lock = r /\ req[r].pc = "commit" THEN Nobody ELSE lock

\* What the request holds when it ends, whatever the reason: nothing.
Released(r) == IF lock = r THEN Nobody ELSE lock

\* The request answers or fails: its transaction is over.
End(r) == /\ req' = [req EXCEPT ![r] = Idle]
          /\ lock' = Released(r)

Goto(r, pc) == req' = [req EXCEPT ![r].pc = pc]

Refused == faults < MaxFaults /\ faults' = faults + 1
NoFault == UNCHANGED faults

\* Another request holds the write lock: BEGIN IMMEDIATE gives up after 5 s. (On
\* Postgres the request waits for the advisory lock instead.)
Busy(r) == lock \notin {Nobody, r}

\* Names of documents that belong to other accounts.
OtherNames(o) == UNION {rows[p] : p \in Owners \ {o}}

\* A stored name is unique: another account may have registered one of these.
Conflicts(o, names) == names \cap OtherNames(o) # {}

\* The names a restore deletes once its files are in place.
Doomed(files, managed) == objects \ (files \cup managed)

\* _validate_zip, _bind_documents: the members match the manifest, the documents
\* their rows, the counts the payload.
Restorable(a) == a.sound

\* _insert_payload: the account's rows are those of the archive, its links
\* within a table restored last; chart and journals only gain what they lack.
Payload(a) == a.docs

MayStart(r, kind) ==
  /\ req[r].pc = "idle" /\ served < MaxRequests
  /\ Alone => /\ \A q \in Slots : ~Restoring(q)
              /\ kind = "restore" => \A q \in Slots : ~Running(q)

Start(r, kind, o, n, goal, pc) ==
  /\ MayStart(r, kind)
  /\ req' = [req EXCEPT ![r] = [Idle EXCEPT !.pc = pc, !.kind = kind, !.owner = o,
                                            !.name = n, !.goal = goal]]
  /\ served' = served + 1

Fixed == UNCHANGED <<archives, spent, lost, served, crashes>>

\* The store writes or deletes the object n.
Written(n) == /\ objects' = objects \cup {n}
              /\ lost' = lost \ {n} /\ withdrawn' = withdrawn \ {n}
Erased(n) == objects' = objects \ {n}

\* The answer of the store was an error: it may have obeyed all the same.
Unconfirmed(op) == op \/ UNCHANGED objects

\* Registered documents that this step leaves without object.
Withdraws == withdrawn' = withdrawn \cup
               ((objects \ objects') \cap UNION {rows[o] : o \in Owners})

-----------------------------------------------------------------------------
(* Documents. Each request is one write transaction around store calls.        *)

\* store_document, and upload_grant for a direct upload: a fresh name.
Upload(r, o) ==
  /\ spent < MaxNames
  /\ spent' = spent + 1
  /\ Start(r, "upload", o, spent + 1, NoArchive, "begin")
  /\ UNCHANGED <<rows, objects, archives, lock, lost, withdrawn, faults, crashes>>

\* A client sends a granted file straight to the store; complete_upload comes later.
ClientPut ==
  /\ spent < MaxNames
  /\ spent' = spent + 1
  /\ objects' = objects \cup {spent + 1}
  /\ UNCHANGED <<rows, archives, lock, req, lost, withdrawn, served, faults, crashes>>

\* complete_upload: a client announces a file by its name, once or again. Nothing
\* ties the name to the account that was granted it.
CompleteUpload(r, o) ==
  /\ \E n \in 1..spent : Start(r, "complete", o, n, NoArchive, "begin")
  /\ UNCHANGED <<rows, objects, archives, lock, spent, lost, withdrawn, faults, crashes>>

DeleteDocument(r, o) ==
  /\ \E n \in rows[o] : Start(r, "delete", o, n, NoArchive, "begin")
  /\ UNCHANGED <<rows, objects, archives, lock, spent, lost, withdrawn, faults, crashes>>

\* The write dependency: BEGIN IMMEDIATE.
Begin(r) ==
  /\ req[r].pc = "begin" /\ lock = Nobody
  /\ lock' = r /\ Goto(r, req[r].kind)
  /\ Fixed /\ UNCHANGED <<rows, objects, withdrawn, faults>>

\* DATABASE_BUSY: nothing was done.
GiveUp(r) ==
  /\ req[r].pc = "begin" /\ Busy(r)
  /\ End(r)
  /\ Fixed /\ UNCHANGED <<rows, objects, withdrawn, faults>>

\* _insert_document: the object first.
PutObject(r) ==
  /\ req[r].pc = "upload"
  /\ \/ /\ NoFault /\ objects' = objects \cup {req[r].name}
        /\ Goto(r, "commit") /\ UNCHANGED lock
     \/ Refused /\ End(r) /\ Unconfirmed(objects' = objects \cup {req[r].name})
  /\ Fixed /\ UNCHANGED <<rows, withdrawn>>

\* Variant: a refused row discards its object wherever it came from.
DiscardedAlways(kind, n) == {n}

\* What a refused row does to the object: one just put is discarded, one that
\* arrived by itself stays, since a row may have it already.
Discarded(kind, n) == IF kind = "upload" THEN {n} ELSE {}

\* complete_upload, in the order of its checks: the file is missing
\* (UPLOAD_INCOMPLETE) or the store fails; its contents are not of the type, size
\* and print announced, and it is discarded, whoever registered it, if the store
\* obeys; the name is registered already and the flush fails
\* (INTEGRITY_CONFLICT), or the entry to link is unknown.
CheckUpload(r) ==
  LET n == req[r].name
      registered == \E o \in Owners : n \in rows[o]
  IN /\ req[r].pc = "complete"
     /\ \/ /\ n \notin objects /\ NoFault
           /\ End(r) /\ UNCHANGED <<objects, withdrawn>>
        \/ /\ Refused
           /\ End(r) /\ UNCHANGED <<objects, withdrawn>>
        \/ /\ n \in objects /\ NoFault
           /\ Unconfirmed(Erased(n)) /\ Withdraws /\ End(r)
        \/ /\ n \in objects /\ registered /\ NoFault
           /\ objects' = objects \ Discarded(req[r].kind, n)
           /\ End(r) /\ UNCHANGED withdrawn
        \/ /\ n \in objects /\ ~registered /\ NoFault
           /\ Goto(r, "commit") /\ UNCHANGED <<objects, lock, withdrawn>>
     /\ Fixed /\ UNCHANGED rows

\* delete_document: the row is gone from the transaction, then the object. An
\* error of the store puts the row back, not the object.
EraseObject(r) ==
  LET n == req[r].name
  IN /\ req[r].pc = "delete"
     /\ \/ /\ n \notin rows[req[r].owner] /\ NoFault
           /\ End(r) /\ UNCHANGED <<objects, withdrawn>>
        \/ /\ n \in rows[req[r].owner] /\ NoFault
           /\ Erased(n) /\ Goto(r, "commit") /\ UNCHANGED <<lock, withdrawn>>
        \/ /\ n \in rows[req[r].owner] /\ Refused
           /\ Unconfirmed(Erased(n)) /\ Withdraws /\ End(r)
     /\ Fixed /\ UNCHANGED rows

\* The row after the object: what the transaction makes of the account's rows.
Registered(r) == IF req[r].kind = "delete"
                   THEN rows[req[r].owner] \ {req[r].name}
                   ELSE rows[req[r].owner] \cup {req[r].name}

Commit(r) ==
  /\ req[r].pc = "commit"
  /\ rows' = [rows EXCEPT ![req[r].owner] = Registered(r)]
  /\ End(r)
  /\ Fixed /\ UNCHANGED <<objects, withdrawn, faults>>

\* What an end without commit leaves behind: a row whose object was deleted.
Dangling(r) == IF req[r].pc = "commit" /\ req[r].kind = "delete"
                 THEN {req[r].name} ELSE {}

\* The flush fails, and the object is discarded if the store obeys, or the
\* commit fails, and it stays.
CommitFails(r) ==
  /\ req[r].pc = "commit" /\ Refused
  /\ objects' \in {objects, objects \ Discarded(req[r].kind, req[r].name)}
  /\ withdrawn' = withdrawn \cup Dangling(r)
  /\ End(r)
  /\ UNCHANGED <<rows, archives, spent, lost, served, crashes>>

-----------------------------------------------------------------------------
(* Dossiers: outside the write dependency, except for the rows they write.     *)

Quiet == UNCHANGED <<archives, lock, spent, served, crashes>>

\* create_dossier_export.
Export(r, o) ==
  /\ o \in Restorers
  /\ Start(r, "export", o, 0, NoArchive, "read")
  /\ UNCHANGED <<rows, objects, archives, lock, spent, lost, withdrawn, faults, crashes>>

\* restore_dossier, _load_checked: an archive of the account's own list whose
\* contents match its manifest and its rows.
Restore(r, o) ==
  /\ o \in Restorers
  /\ \E a \in archives : /\ a.owner = o /\ Restorable(a)
                         /\ Start(r, "restore", o, 0, a, "read")
  /\ UNCHANGED <<rows, objects, archives, lock, spent, lost, withdrawn, faults, crashes>>

\* The stored file is damaged; _validate_zip refuses it from then on.
Damage ==
  /\ Refused
  /\ \E a \in archives : archives' = (archives \ {a}) \cup {[a EXCEPT !.sound = FALSE]}
  /\ UNCHANGED <<rows, objects, lock, req, spent, lost, withdrawn, served, crashes>>

\* _read_payload.
ReadPayload(r) ==
  /\ req[r].pc = "read"
  /\ req' = [req EXCEPT ![r].payload = rows[req[r].owner], ![r].pc = "gather"]
  /\ Quiet /\ UNCHANGED <<rows, objects, lost, withdrawn, faults>>

\* _documents_for_payload: every document read back; one missing refuses the dossier.
Gather(r) ==
  /\ req[r].pc = "gather"
  /\ \/ req[r].payload \subseteq objects /\ NoFault /\ Goto(r, "remember") /\ UNCHANGED lock
     \/ ~(req[r].payload \subseteq objects) /\ NoFault /\ End(r)
     \/ Refused /\ End(r)
  /\ Fixed /\ UNCHANGED <<rows, objects, withdrawn>>

\* The archive is put, then remembered in a write transaction of its own. For
\* a restore this is the safety archive.
Remember(r) ==
  /\ req[r].pc = "remember"
  /\ \/ /\ lock = Nobody /\ NoFault
        /\ archives' = archives \cup {[owner |-> req[r].owner,
                                       docs |-> req[r].payload, sound |-> TRUE]}
        /\ IF req[r].kind = "restore" THEN Goto(r, "snapshot") /\ UNCHANGED lock
                                      ELSE End(r)
     \/ Busy(r) /\ NoFault /\ End(r) /\ UNCHANGED archives
     \/ Refused /\ End(r) /\ UNCHANGED archives
  /\ UNCHANGED <<rows, objects, spent, lost, withdrawn, served, crashes>>

\* The rows to go back to, then the files to spare, each read once.
Snapshot(r) ==
  /\ req[r].pc = "snapshot"
  /\ req' = [req EXCEPT ![r].snapshot = rows[req[r].owner], ![r].pc = "protect"]
  /\ Quiet /\ UNCHANGED <<rows, objects, lost, withdrawn, faults>>

Protect(r) ==
  /\ req[r].pc = "protect"
  /\ req' = [req EXCEPT ![r].managed = OtherNames(req[r].owner), ![r].pc = "replace"]
  /\ Quiet /\ UNCHANGED <<rows, objects, lost, withdrawn, faults>>

\* replace_rows: one transaction, or nothing and the restore is refused.
ReplaceRows(r) ==
  /\ req[r].pc = "replace"
  /\ \/ /\ lock = Nobody /\ ~Conflicts(req[r].owner, Payload(req[r].goal)) /\ NoFault
        /\ rows' = [rows EXCEPT ![req[r].owner] = Payload(req[r].goal)]
        /\ Goto(r, "sync") /\ UNCHANGED lock
     \/ /\ Busy(r) \/ Conflicts(req[r].owner, Payload(req[r].goal))
        /\ NoFault /\ End(r) /\ UNCHANGED rows
     \/ Refused /\ End(r) /\ UNCHANGED rows
  /\ Fixed /\ UNCHANGED <<objects, withdrawn>>

\* sync_documents: all the documents of the store are read first.
Sync(r) ==
  /\ req[r].pc = "sync"
  /\ \/ /\ NoFault
        /\ req' = [req EXCEPT ![r].before = objects, ![r].todo = req[r].goal.docs,
                              ![r].pc = "put"]
     \/ Refused /\ Goto(r, "undoRows")
  /\ Quiet /\ UNCHANGED <<rows, objects, lost, withdrawn>>

\* Variant: a failure puts the rows back and leaves the documents as they are.
OnFailureRowsOnly(r) == [req[r] EXCEPT !.pc = "undoRows"]

\* _apply_documents: where a failure leads, on the way and on the way back.
OnFailure(r) ==
  IF req[r].pc \in {"put", "list", "prune"}
    THEN [req[r] EXCEPT !.pc = "undoPut", !.todo = req[r].before]
    ELSE [req[r] EXCEPT !.pc = "undoRows", !.result = "broken"]

Undoing(r) == req[r].pc \in {"undoPut", "undoList", "undoPrune"}

\* _apply_documents: one file put, overwriting.
PutFile(r) ==
  /\ req[r].pc \in {"put", "undoPut"}
  /\ \/ \E n \in req[r].todo :
          /\ NoFault /\ Written(n)
          /\ req' = [req EXCEPT ![r].todo = @ \ {n}]
     \/ \E n \in req[r].todo :
          /\ Refused /\ (Written(n) \/ UNCHANGED <<objects, lost, withdrawn>>)
          /\ req' = [req EXCEPT ![r] = OnFailure(r)]
     \/ /\ req[r].todo = {} /\ NoFault
        /\ Goto(r, IF Undoing(r) THEN "undoList" ELSE "list")
        /\ UNCHANGED <<objects, lost, withdrawn>>
  /\ Quiet /\ UNCHANGED rows

\* _apply_documents: the names of the store, listed once.
ListNames(r) ==
  /\ req[r].pc \in {"list", "undoList"}
  /\ \/ /\ NoFault
        /\ req' = [req EXCEPT
             ![r].todo = IF Undoing(r) THEN Doomed(req[r].before, {})
                                       ELSE Doomed(req[r].goal.docs, req[r].managed),
             ![r].pc = IF Undoing(r) THEN "undoPrune" ELSE "prune"]
     \/ Refused /\ req' = [req EXCEPT ![r] = OnFailure(r)]
  /\ Quiet /\ UNCHANGED <<rows, objects, lost, withdrawn>>

\* _apply_documents: one listed name deleted.
PruneFile(r) ==
  /\ req[r].pc \in {"prune", "undoPrune"}
  /\ \/ \E n \in req[r].todo :
          /\ NoFault /\ Erased(n)
          /\ req' = [req EXCEPT ![r].todo = @ \ {n}]
     \/ \E n \in req[r].todo :
          /\ Refused /\ Unconfirmed(Erased(n))
          /\ req' = [req EXCEPT ![r] = OnFailure(r)]
     \/ /\ req[r].todo = {} /\ NoFault
        /\ req' = [req EXCEPT ![r].pc = IF Undoing(r) THEN "undoRows" ELSE "ended",
                              ![r].result = IF Undoing(r) THEN "undone" ELSE "restored"]
        /\ UNCHANGED objects
  /\ Quiet /\ UNCHANGED <<rows, lost, withdrawn>>

\* The second replace_rows: the rows of before, or the failure is raised.
UndoRows(r) ==
  LET o == req[r].owner
      taken == Conflicts(o, req[r].snapshot)
      ended(rs, result) ==
        /\ req' = [req EXCEPT ![r].pc = "ended", ![r].result = result]
        /\ lost' = IF result = "broken" THEN lost \cup (rs[o] \ objects) ELSE lost
  IN /\ req[r].pc = "undoRows"
     /\ \/ /\ lock = Nobody /\ ~taken /\ NoFault
           /\ rows' = [rows EXCEPT ![o] = req[r].snapshot]
           /\ ended(rows', IF req[r].result = "broken" THEN "broken" ELSE "undone")
        \/ (Busy(r) \/ taken) /\ NoFault /\ ended(rows, "broken") /\ UNCHANGED rows
        \/ Refused /\ ended(rows, "broken") /\ UNCHANGED rows
     /\ Quiet /\ UNCHANGED <<objects, withdrawn>>

\* The answer of a restore.
Answer(r) ==
  /\ req[r].pc = "ended" /\ End(r)
  /\ Fixed /\ UNCHANGED <<rows, objects, withdrawn, faults>>

-----------------------------------------------------------------------------
\* The process that serves a request dies: its transaction is rolled back, what
\* it did to the store stays. Nothing resumes a restore.
Crash(r) ==
  /\ Running(r) /\ crashes < MaxCrashes
  /\ crashes' = crashes + 1
  /\ lost' = lost \cup Dangling(r)
                  \cup (IF Replacing(r) THEN rows[req[r].owner] \ objects ELSE {})
  /\ End(r)
  /\ UNCHANGED <<rows, objects, archives, spent, withdrawn, served, faults>>

Arrive(r) == \E o \in Owners : \/ Upload(r, o) \/ CompleteUpload(r, o)
                               \/ DeleteDocument(r, o) \/ Export(r, o) \/ Restore(r, o)

Step(r) == \/ Begin(r) \/ GiveUp(r) \/ PutObject(r) \/ CheckUpload(r)
           \/ EraseObject(r) \/ Commit(r) \/ CommitFails(r)
           \/ ReadPayload(r) \/ Gather(r) \/ Remember(r)
           \/ Snapshot(r) \/ Protect(r) \/ ReplaceRows(r) \/ Sync(r)
           \/ PutFile(r) \/ ListNames(r) \/ PruneFile(r) \/ UndoRows(r) \/ Answer(r)

Next == \/ \E r \in Slots : Arrive(r) \/ Step(r) \/ Crash(r)
        \/ ClientPut \/ Damage

\* A handler that has begun goes on: it waits for nothing but the write lock,
\* and no longer than its time-out.
Spec == Init /\ [][Next]_vars /\ \A r \in Slots : WF_vars(Step(r))

-----------------------------------------------------------------------------
(* Properties.                                                                 *)

\* The document of a row can be read back, or the row is at this moment that of a
\* request of its own account that replaces or deletes it.
Readable(o, n) ==
  \/ n \in objects
  \/ \E r \in Slots : req[r].owner = o /\ (Replacing(r) \/ n \in Dangling(r))

\* "relit l'objet et vérifie [...] avant d'enregistrer la ligne", "renvoie le
\* fichier" (docs/BACKUP.md): the document of a committed row can be read back,
\* unless a process died or a rollback failed on it.
RegisteredReadable ==
  \A o \in Owners : \A n \in rows[o] : Readable(o, n) \/ n \in lost

\* What the code keeps of it. Apart from these accidents, a row loses its file to
\* a request that names this very document only, and that the store or the
\* database refused: a completion announced with another print, a deletion that
\* was not committed. No refused upload, no exact repetition of a completion, no
\* export, no restore undone and no restore of another account does it.
ReadableUnlessWithdrawn ==
  \A o \in Owners : \A n \in rows[o] : Readable(o, n) \/ n \in lost \cup withdrawn

\* A restore that ends, ends on one side: the rows of the archive with all
\* their files, or the rows of before with theirs, and no file of the store less.
RestoreAllOrNothing ==
  \A r \in Slots : req[r].pc = "ended" =>
    LET o == req[r].owner IN
    /\ req[r].result = "restored" => /\ rows[o] = req[r].goal.docs
                                     /\ rows[o] \subseteq objects
    /\ req[r].result = "undone" => /\ rows[o] = req[r].snapshot
                                   /\ req[r].before \subseteq objects

\* Every request ends, and with it its transaction: nothing a handler meets,
\* a refusal of the store included, leaves the write lock held.
RequestsEnd == \A r \in Slots : Running(r) ~> ~Running(r)

\* _other_document_names, "Files that belong to someone else and must survive
\* this restore": no step of a restore, nor of its undo, deletes the file of a row
\* of another account.
OthersFilesSurvive ==
  [][\A r \in Slots : PruneFile(r) =>
       \A o \in Owners \ {req[r].owner} : rows[o] \cap objects \subseteq objects']_vars
=============================================================================
