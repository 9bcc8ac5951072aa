---------------------------- MODULE MCHostServices ----------------------------
(***************************************************************************)
(* Model checking of the services of the host in one run: plugins, the     *)
(* maintenance lock, backups, restore, knowledge bases.  They share no     *)
(* state but the section (BackupBundle uses what MaintenanceLock is shown  *)
(* to implement), so the initial state chooses one and the others rest.    *)
(* What follows a change of provider that overlaps with a coroutine, which *)
(* the invariants leave out, is not explored.                              *)
(***************************************************************************)
EXTENDS PluginRuntime, MaintenanceLock, BackupBundle, RestoreBundle, KnowledgeIngestion, TLC

CONSTANTS Focus, core, addon, a1, a2, b1, b2, api, cli, s1, s2

VARIABLE focus

mcvars == <<pluginvars, lockvars, backupvars, restorevars, knowvars, focus>>

MCRequires == [p \in {core, addon} |-> IF p = addon THEN {core} ELSE {}]
MCProcessOf == [t \in {a1, a2, b1, b2} |-> IF t \in {a1, a2} THEN api ELSE cli]

MCInit ==
  /\ focus \in Focus
  /\ PluginInit /\ bundle[core] = 1 /\ (focus # "plugins" => bundle[addon] = 1)
  /\ LockInit /\ BackupInit
  /\ RestoreInit /\ (focus # "restore" => \A p \in Parts : live[p] = "none")
  /\ KnowledgeInit /\ source[s1] = "text" /\ source[s2] = "absent"

\* The core plugin keeps its version; the second source's file parses to nothing.
MCNext ==
  /\ focus' = focus
  /\ \/ /\ focus = "plugins" /\ PluginNext /\ bundle'[core] = 1
        /\ UNCHANGED <<lockvars, backupvars, restorevars, knowvars>>
     \/ /\ focus = "lock" /\ LockNext
        /\ UNCHANGED <<pluginvars, backupvars, restorevars, knowvars>>
     \/ /\ focus = "backup" /\ BackupNext
        /\ UNCHANGED <<pluginvars, lockvars, restorevars, knowvars>>
     \/ /\ focus = "restore" /\ RestoreNext
        /\ UNCHANGED <<pluginvars, lockvars, backupvars, knowvars>>
     \/ /\ focus = "knowledge" /\ ~overtaken /\ KnowledgeNext /\ source'[s2] # "text"
        /\ UNCHANGED <<pluginvars, lockvars, backupvars, restorevars>>

MCSpec == MCInit /\ [][MCNext]_mcvars

\* The requests on plugins are interchangeable.
ServicesSymmetry == Permutations(PluginThreads)

ServicesTypeOK == PluginTypeOK /\ LockTypeOK /\ BackupTypeOK /\ RestoreTypeOK /\ KnowledgeTypeOK

=============================================================================
