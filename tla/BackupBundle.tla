----------------------------- MODULE BackupBundle -----------------------------
(***************************************************************************)
(* Vault files, the rows that name them, and the backups taken beside the  *)
(* running API (pg_artifacts/storage.py, pg_api/backup_restore.py:         *)
(* create_backup, verify_bundle; the routes that write and unlink).        *)
(*                                                                         *)
(* A file is written under the shared section, its row is committed        *)
(* afterwards; a deletion commits the row's removal first and unlinks the  *)
(* file afterwards, both outside the section.                              *)
(***************************************************************************)
EXTENDS MaintenanceSection, Naturals, FiniteSets

CONSTANTS
  Writers,    \* request threads of the API
  Backup,     \* the backup job
  Keys,       \* vault keys (sources/<id>/<name>, cards/<id>.svg, exports/<id>.zip ...)
  ReusedKeys, \* keys written again by a later request: exports/<id>.zip
  MaxRows     \* rows that name one key (bound)

ASSUME BackupAssumption == /\ Actors = Writers \cup {Backup} /\ Backup \notin Writers
                           /\ Keys # {} /\ ReusedKeys \subseteq Keys /\ MaxRows \in Nat \ {0}

VARIABLES
  named,   \* key -> number of committed rows that name it
  vault,   \* key -> its file
  writer,  \* thread -> the request it handles
  job,     \* where the backup is, and the keys it has still to copy
  capture   \* what it has captured; sealed by its manifest

backupvars == <<section, named, vault, writer, job, capture>>

Files == {"absent", "writing", "whole", "torn"} \* torn: a crash cut its write off
NoWork == [at |-> "idle", key |-> CHOOSE k \in Keys : TRUE]
NoJob == [at |-> "idle", todo |-> {}]
NoBundle == [rows |-> [k \in Keys |-> 0], files |-> [k \in Keys |-> "absent"], sealed |-> FALSE]

BackupTypeOK ==
  /\ section \in [Actors -> Modes \cup {"none"}]
  /\ named \in [Keys -> 0 .. MaxRows]
  /\ vault \in [Keys -> Files]
  /\ writer \in [Writers -> [at : {"idle", "entered", "writing", "written", "unlinking"}, key : Keys]]
  /\ job \in [at : {"idle", "copying", "checking"}, todo : SUBSET Keys]
  /\ capture \in [rows : [Keys -> 0 .. MaxRows], files : [Keys -> Files], sealed : BOOLEAN]

BackupInit == /\ SectionInit
              /\ named = [k \in Keys |-> 0] /\ vault = [k \in Keys |-> "absent"]
              /\ writer = [w \in Writers |-> NoWork]
              /\ job = NoJob /\ capture = NoBundle

Works(w, at, k) == writer' = [writer EXCEPT ![w] = [at |-> at, key |-> k]]
Busy(k) == \E w \in Writers : writer[w].at # "idle" /\ writer[w].key = k

-----------------------------------------------------------------------------
(* The API. *)

\* A new upload, card, pack or archive takes a key of its own; a second export takes that of the first.
TakeKey(w) == /\ writer[w].at = "idle"
              /\ \E k \in Keys : /\ k \in ReusedKeys \/ (named[k] = 0 /\ vault[k] = "absent" /\ ~Busy(k))
                                 /\ named[k] < MaxRows /\ Works(w, "entered", k)
              /\ UNCHANGED <<named, vault, job, capture>>

\* For a mutant: the storage is given no write_lock.
put_unlocked(w) == TakeKey(w) /\ UNCHANGED section

put_enter(w) == TakeKey(w) /\ Enter(w, "shared")

put_begin(w) ==
  /\ writer[w].at = "entered"
  /\ vault' = [vault EXCEPT ![writer[w].key] = "writing"]
  /\ Works(w, "writing", writer[w].key)
  /\ UNCHANGED <<section, named, job, capture>>

put_end(w) ==
  /\ writer[w].at = "writing"
  /\ vault' = [vault EXCEPT ![writer[w].key] = "whole"]
  /\ Works(w, "written", writer[w].key)
  /\ section' = [section EXCEPT ![w] = "none"]
  /\ UNCHANGED <<named, job, capture>>

\* The row is committed; or it is refused (a topic of another area, a busy database) and the file stays.
put_row(w) ==
  /\ writer[w].at = "written"
  /\ \/ /\ named[writer[w].key] < MaxRows
        /\ named' = [named EXCEPT ![writer[w].key] = @ + 1]
     \/ UNCHANGED named
  /\ writer' = [writer EXCEPT ![w] = NoWork]
  /\ UNCHANGED <<section, vault, job, capture>>

\* For a mutant: a second deletion of a row that is already gone.
delete_row_blind(w) ==
  /\ writer[w].at = "idle"
  /\ \E k \in Keys : named' = [named EXCEPT ![k] = @ - 1] /\ Works(w, "unlinking", k)
  /\ UNCHANGED <<section, vault, job, capture>>

delete_row(w) ==
  /\ writer[w].at = "idle"
  /\ \E k \in Keys : /\ named[k] > 0
                     /\ named' = [named EXCEPT ![k] = @ - 1]
                     /\ Works(w, "unlinking", k)
  /\ UNCHANGED <<section, vault, job, capture>>

\* The file goes even if another row names it.
delete_file(w) ==
  /\ writer[w].at = "unlinking"
  /\ vault' = [vault EXCEPT ![writer[w].key] = "absent"]
  /\ writer' = [writer EXCEPT ![w] = NoWork]
  /\ UNCHANGED <<section, named, job, capture>>

ApiEnds ==
  /\ section' = [a \in Actors |-> IF a \in Writers THEN "none" ELSE section[a]]
  /\ vault' = [k \in Keys |-> IF vault[k] = "writing" THEN "torn" ELSE vault[k]]
  /\ writer' = [w \in Writers |-> NoWork]
  /\ UNCHANGED <<named, job, capture>>

-----------------------------------------------------------------------------
(* The backup. *)

\* The snapshot of the database comes first; the vaults are copied afterwards.
snapshot_sqlite ==
  /\ job.at = "idle" /\ Enter(Backup, "exclusive")
  /\ capture' = [NoBundle EXCEPT !.rows = named]
  /\ job' = [at |-> "copying", todo |-> Keys]
  /\ UNCHANGED <<named, vault, writer>>

copy_file ==
  /\ job.at = "copying"
  /\ \E k \in job.todo : /\ capture' = [capture EXCEPT !.files[k] = vault[k]]
                         /\ job' = [at |-> IF job.todo = {k} THEN "checking" ELSE "copying", todo |-> job.todo \ {k}]
  /\ UNCHANGED <<section, named, vault, writer>>

missing == {k \in Keys : capture.rows[k] > 0 /\ capture.files[k] = "absent"}

\* The manifest is written last; without one verify_bundle refuses the bundle.
reference_check ==
  /\ job.at = "checking"
  /\ capture' = [capture EXCEPT !.sealed = missing = {}]
  /\ job' = NoJob
  /\ section' = [section EXCEPT ![Backup] = "none"]
  /\ UNCHANGED <<named, vault, writer>>

\* A copy fails (a file listed and then unlinked, a full disk) or the process ends.
BackupFails ==
  /\ job.at # "idle" /\ job' = NoJob
  /\ section' = [section EXCEPT ![Backup] = "none"]
  /\ UNCHANGED <<named, vault, writer, capture>>

BackupNext ==
  \/ \E w \in Writers : \/ put_enter(w) \/ put_begin(w) \/ put_end(w) \/ put_row(w)
                        \/ delete_row(w) \/ delete_file(w)
  \/ ApiEnds \/ snapshot_sqlite \/ copy_file \/ reference_check \/ BackupFails

BackupSpec == BackupInit /\ [][BackupNext]_backupvars

-----------------------------------------------------------------------------
(* Properties. *)

\* A bundle with a manifest holds, for every row of its database snapshot, the file the row names, and
\* no file caught in the middle of a write, whatever uploads, exports and deletions ran beside the
\* backup (pg_api/backup_restore.py: create_backup, "one consistent point in time").
BundleWhole ==
  capture.sealed => \A k \in Keys : /\ capture.rows[k] > 0 => capture.files[k] # "absent"
                                   /\ capture.files[k] # "writing"
=============================================================================
