-------------------------- MODULE MaintenanceSection --------------------------
(***************************************************************************)
(* What pg_api/maintenance.py promises: application writes share the       *)
(* section, a backup or a restore has it alone.                            *)
(***************************************************************************)
CONSTANT Actors \* threads that take the lock

VARIABLE section \* actor -> how it holds the section

Modes == {"shared", "exclusive"}

SectionInit == section = [a \in Actors |-> "none"]

Enter(a, mode) ==
  /\ section' = [section EXCEPT ![a] = mode]
  /\ section[a] = "none"
  /\ \A b \in Actors \ {a} : section[b] # "exclusive" /\ (mode = "exclusive" => section[b] = "none")

Leave(a) ==
  /\ section[a] # "none"
  /\ section' = [section EXCEPT ![a] = "none"]

\* The process of the holders S ends.
Holders == {a \in Actors : section[a] # "none"}

LeaveAll(S) ==
  /\ S # {}
  /\ section' = [a \in Actors |-> IF a \in S THEN "none" ELSE section[a]]

SectionNext == \/ \E a \in Actors : Leave(a) \/ \E mode \in Modes : Enter(a, mode)
               \/ \E S \in SUBSET Holders : LeaveAll(S)

SectionSpec == SectionInit /\ [][SectionNext]_section

\* Whoever holds the section exclusively holds it alone (pg_api/maintenance.py: maintenance_lock).
ExclusiveAlone == \A a, b \in Actors : section[a] = "exclusive" /\ a # b => section[b] = "none"
=============================================================================
