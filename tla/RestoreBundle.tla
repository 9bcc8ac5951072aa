---------------------------- MODULE RestoreBundle ----------------------------
(***************************************************************************)
(* Restoring a bundle over the live database and vaults, the API stopped   *)
(* (pg_api/backup_restore.py: restore_backup; scripts/restore_server.py).  *)
(* Each part is moved aside, if there is anything to move, and copied from *)
(* the bundle; the parts moved aside are removed when the checks after the *)
(* switch have passed.  A step that fails leaves everything as it is; the  *)
(* operator may run the restore again, or start the API on what is there.  *)
(*                                                                         *)
(* Two restores never share a time stamp, so a part moved aside is never   *)
(* overwritten by another.                                                 *)
(***************************************************************************)
EXTENDS Naturals

CONSTANT MaxRestores \* restores started (bound)

ASSUME RestoreAssumption == MaxRestores \in Nat

VARIABLES
  live,     \* part -> what stands at its live path
  aside,    \* part -> what earlier and current restores have moved aside
  kept,     \* part -> whether the current restore moved it aside (`previous`)
  restore,  \* how far the current restore is
  started,  \* restores started
  switched, \* a restore has passed its checks
  answer    \* what the last restore said

restorevars == <<live, aside, kept, restore, started, switched, answer>>

Parts == {"db", "sources", "artifacts"}
\* original: as before the first restore; half: a copy cut off; mixed: a copy over another content;
\* fresh: an empty database made by the API.
Contents == {"none", "original", "bundle", "half", "mixed", "fresh"}

After(p) == IF p = "db" THEN "sources" ELSE IF p = "sources" THEN "artifacts" ELSE "done"
At(step, part) == [step |-> step, part |-> part]
Stopped == At("stopped", "db")

RestoreTypeOK ==
  /\ live \in [Parts -> Contents] /\ aside \in [Parts -> SUBSET Contents]
  /\ kept \in [Parts -> Contents]
  /\ restore \in [step : {"stopped", "running", "aside", "copy", "half", "check", "clean"}, part : Parts]
  /\ started \in 0 .. MaxRestores /\ switched \in BOOLEAN
  /\ answer \in {"none", "restored", "failed"}

\* A vault may be empty, and the database of a new server missing.
RestoreInit ==
  /\ live \in [Parts -> {"none", "original"}]
  /\ aside = [p \in Parts |-> {}] /\ kept = [p \in Parts |-> "none"]
  /\ restore = Stopped /\ started = 0 /\ switched = FALSE /\ answer = "none"

-----------------------------------------------------------------------------
\* The bundle, and then a staged copy of it, are verified before anything is touched; a bundle that
\* does not pass is refused.
verify_and_stage ==
  /\ restore = Stopped /\ started < MaxRestores
  /\ started' = started + 1
  /\ \/ restore' = At("aside", "db") /\ answer' = "none"
     \/ restore' = Stopped /\ answer' = "failed"
  /\ kept' = [p \in Parts |-> "none"]
  /\ UNCHANGED <<live, aside, switched>>

\* For a mutant: what an earlier restore has moved aside is not moved again.
move_aside_once ==
  /\ restore.step = "aside"
  /\ LET p == restore.part IN
       /\ IF live[p] = "none" \/ aside[p] # {} THEN UNCHANGED <<live, aside, kept>>
          ELSE /\ aside' = [aside EXCEPT ![p] = @ \cup {live[p]}]
               /\ kept' = [kept EXCEPT ![p] = live[p]]
               /\ live' = [live EXCEPT ![p] = "none"]
       /\ restore' = At("copy", p)
  /\ UNCHANGED <<started, switched, answer>>

move_aside ==
  /\ restore.step = "aside"
  /\ LET p == restore.part IN
       /\ IF live[p] = "none" THEN UNCHANGED <<live, aside, kept>>
          ELSE /\ aside' = [aside EXCEPT ![p] = @ \cup {live[p]}]
               /\ kept' = [kept EXCEPT ![p] = live[p]]
               /\ live' = [live EXCEPT ![p] = "none"]
       /\ restore' = At("copy", p)
  /\ UNCHANGED <<started, switched, answer>>

\* copy2, or _copy_dir file by file.
copy_begin ==
  /\ restore.step = "copy"
  /\ live' = [live EXCEPT ![restore.part] = IF @ = "none" THEN "half" ELSE "mixed"]
  /\ restore' = At("half", restore.part)
  /\ UNCHANGED <<aside, kept, started, switched, answer>>

copy_end ==
  /\ restore.step = "half"
  /\ live' = [live EXCEPT ![restore.part] = IF @ = "half" THEN "bundle" ELSE @]
  /\ restore' = IF After(restore.part) = "done" THEN At("check", "db") ELSE At("aside", After(restore.part))
  /\ UNCHANGED <<aside, kept, started, switched, answer>>

\* For a mutant: the parts moved aside go before init_db and the checks.
clean_early ==
  /\ restore.step = "check"
  /\ aside' = [p \in Parts |-> aside[p] \ {kept[p]}]
  /\ restore' = At("clean", "db") /\ UNCHANGED <<live, kept, started, switched, answer>>

\* init_db and the smoke checks, which look for missing files, on the live paths.
smoke_checks ==
  /\ restore.step = "check"
  /\ \A p \in Parts : live[p] \in {"bundle", "mixed"}
  /\ restore' = At("clean", "db") /\ switched' = TRUE
  /\ UNCHANGED <<live, aside, kept, started, answer>>

\* Only what this restore moved aside is removed.
clean_up ==
  /\ restore.step = "clean"
  /\ aside' = [aside EXCEPT ![restore.part] = @ \ {kept[restore.part]}]
  /\ restore' = IF After(restore.part) = "done" THEN Stopped ELSE At("clean", After(restore.part))
  /\ answer' = IF After(restore.part) = "done" THEN "restored" ELSE answer
  /\ UNCHANGED <<live, kept, started, switched>>

\* A step fails (the message of a failed check says the paths were rolled back: they are not), or the
\* process ends.
RestoreFails ==
  /\ restore.step \notin {"stopped", "running"}
  /\ restore' = Stopped /\ answer' = "failed"
  /\ UNCHANGED <<live, aside, kept, started, switched>>

\* The API is started; without a database it makes one.
StartApi ==
  /\ restore = Stopped
  /\ restore' = At("running", "db")
  /\ live' = [live EXCEPT !["db"] = IF @ = "none" THEN "fresh" ELSE @]
  /\ UNCHANGED <<aside, kept, started, switched, answer>>

StopApi ==
  /\ restore.step = "running" /\ restore' = Stopped
  /\ UNCHANGED <<live, aside, kept, started, switched, answer>>

RestoreNext == \/ verify_and_stage \/ move_aside \/ copy_begin \/ copy_end \/ smoke_checks \/ clean_up
               \/ RestoreFails \/ StartApi \/ StopApi

RestoreSpec == RestoreInit /\ [][RestoreNext]_restorevars

-----------------------------------------------------------------------------
(* Properties. *)

Recoverable(p) == live[p] = "original" \/ "original" \in aside[p]

\* Until a restore has passed its checks, every part of the state before it can be recovered, live or
\* moved aside, wherever a restore failed or was cut off, however often it is run again, and though
\* the API was started in between (pg_api/backup_restore.py: restore_backup, "rollback-safe").
OriginalKept == [][~switched' => \A p \in Parts : Recoverable(p) => Recoverable(p)']_restorevars

\* A restore that reports success has put the bundle, and nothing of what was there before, in place
\* of every part (pg_api/backup_restore.py: restore_backup).
RestoredIsWhole == answer = "restored" => \A p \in Parts : live[p] = "bundle"
=============================================================================
