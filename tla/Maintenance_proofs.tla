--------------------------- MODULE Maintenance_proofs ---------------------------
(***************************************************************************)
(* Theorems about the maintenance lock, the backup that is taken under it  *)
(* and the restore of a bundle, for any number of processes, threads,      *)
(* writers, keys and restores.                                             *)
(*                                                                         *)
(* The gate and the file lock together implement the section, and a gate   *)
(* that nobody has passed is open: the first rests on the file lock alone, *)
(* the second on the count of those who have passed the gate.  The backup  *)
(* uses the section as the gate and the lock implement it.                 *)
(***************************************************************************)
EXTENDS MaintenanceLock, BackupBundle, RestoreBundle, FiniteSetTheorems, TLAPS

LockModes == {"shared", "exclusive"}

-----------------------------------------------------------------------------
(* MaintenanceLock: exclusion. *)

\* Where threads may be; a mode is held everywhere but outside.
PlacesOK ==
  /\ holder \in [Threads -> [at : {"out", "gated", "opened", "inside", "leaving", "closing", "closed"},
                             mode : LockModes \cup {NoMode}]]
  /\ flock \in [Threads -> LockModes \cup {NoMode}]
  /\ leaked \subseteq Processes
  /\ \A t \in Threads : holder[t].at = "out" <=> holder[t].mode = NoMode

\* The locks that the system has granted agree with one another, and with what is done inside.
FlockOK ==
  /\ \A t, u \in Threads : flock[t] = "exclusive" /\ t # u => flock[u] = NoMode
  /\ \A t \in Threads : holder[t].at = "inside" => flock[t] = holder[t].mode

LockInv == PlacesOK /\ FlockOK

LEMMA InitLockInv == LockInit => LockInv
  BY DEF LockInit, LockInv, PlacesOK, FlockOK, Outside, NoMode, LockModes

LEMMA StepLockInv == LockInv /\ [LockNext]_lockvars => LockInv'
<1> SUFFICES ASSUME LockInv, [LockNext]_lockvars PROVE LockInv'
  OBVIOUS
<1> USE LockAssumption DEF LockInv, PlacesOK, FlockOK, LockModes, NoMode, Goes, Outside
<1>1. ASSUME NEW t \in Threads, NEW mode \in LockModes, acquire_in_process(t, mode) PROVE LockInv'
  BY <1>1 DEF acquire_in_process
<1>2. ASSUME NEW t \in Threads, OpenHandle(t) PROVE LockInv'
  BY <1>2 DEF OpenHandle
<1>3. ASSUME NEW t \in Threads, flock_fd(t) PROVE LockInv'
  BY <1>3 DEF flock_fd, Grants
<1>4. ASSUME NEW t \in Threads, flock_fd_timeout(t) PROVE LockInv'
  BY <1>4 DEF flock_fd_timeout
<1>5. ASSUME NEW t \in Threads, FinishBody(t) PROVE LockInv'
  BY <1>5 DEF FinishBody
<1>6. ASSUME NEW t \in Threads, Downgrade(t) PROVE LockInv'
  BY <1>6 DEF Downgrade, Grants
<1>7. ASSUME NEW t \in Threads, CloseHandle(t) PROVE LockInv'
  BY <1>7 DEF CloseHandle
<1>8. ASSUME NEW t \in Threads, release_in_process(t) PROVE LockInv'
  BY <1>8 DEF release_in_process
<1>9. ASSUME NEW r \in Processes, ProcessEnds(r) PROVE LockInv'
  BY <1>9 DEF ProcessEnds
<1>10. CASE UNCHANGED lockvars
  BY <1>10 DEF lockvars
<1>11. QED
  BY <1>1, <1>2, <1>3, <1>4, <1>5, <1>6, <1>7, <1>8, <1>9, <1>10 DEF LockNext

-----------------------------------------------------------------------------
(* Refinement. *)

LEMMA InitMaps == LockInit => Section!SectionInit
  BY DEF LockInit, Section!SectionInit, Holds, Outside, NoMode

LEMMA StepMaps == LockInv /\ [LockNext]_lockvars => [Section!SectionNext]_Holds
<1> SUFFICES ASSUME LockInv, [LockNext]_lockvars PROVE Section!SectionNext \/ Holds' = Holds
  OBVIOUS
<1>0. PlacesOK /\ FlockOK
  BY DEF LockInv
<1>1. ASSUME NEW t \in Threads, NEW mode \in LockModes, acquire_in_process(t, mode) PROVE Holds' = Holds
  BY <1>0, <1>1 DEF acquire_in_process, PlacesOK, Holds, Outside
<1>2. ASSUME NEW t \in Threads, OpenHandle(t) PROVE Holds' = Holds
  BY <1>0, <1>2 DEF OpenHandle, Goes, PlacesOK, Holds, Outside
<1>3. ASSUME NEW t \in Threads, flock_fd(t) PROVE Section!SectionNext
  <2> DEFINE m == holder[t].mode
  <2>1. m \in LockModes
    BY <1>0, <1>3 DEF flock_fd, PlacesOK
  <2>2. Holds' = [Holds EXCEPT ![t] = m]
    BY <1>0, <1>3 DEF flock_fd, Goes, PlacesOK, Holds
  <2>3. Holds[t] = "none"
    BY <1>0, <1>3 DEF flock_fd, PlacesOK, Holds, NoMode
  <2>4. \A u \in Threads \ {t} : Holds[u] # "exclusive" /\ (m = "exclusive" => Holds[u] = "none")
    BY <1>0, <1>3 DEF flock_fd, Grants, PlacesOK, FlockOK, Holds, NoMode
  <2>5. Section!Enter(t, m)
    BY <2>2, <2>3, <2>4 DEF Section!Enter
  <2>6. m \in Section!Modes
    BY <2>1 DEF LockModes, Section!Modes
  <2>7. QED
    BY <2>5, <2>6 DEF Section!SectionNext
<1>4. ASSUME NEW t \in Threads, flock_fd_timeout(t) PROVE Holds' = Holds
  BY <1>0, <1>4 DEF flock_fd_timeout, Goes, PlacesOK, Holds
<1>5. ASSUME NEW t \in Threads, FinishBody(t) PROVE Section!SectionNext
  <2>1. Holds' = [Holds EXCEPT ![t] = "none"]
    BY <1>0, <1>5 DEF FinishBody, Goes, PlacesOK, Holds, NoMode
  <2>2. Holds[t] # "none"
    BY <1>0, <1>5 DEF FinishBody, PlacesOK, Holds, NoMode
  <2>3. Section!Leave(t)
    BY <2>1, <2>2 DEF Section!Leave
  <2>4. QED
    BY <2>3 DEF Section!SectionNext
<1>6. ASSUME NEW t \in Threads, Downgrade(t) PROVE Holds' = Holds
  BY <1>0, <1>6 DEF Downgrade, Goes, PlacesOK, Holds
<1>7. ASSUME NEW t \in Threads, CloseHandle(t) PROVE Holds' = Holds
  BY <1>0, <1>7 DEF CloseHandle, Goes, PlacesOK, Holds
<1>8. ASSUME NEW t \in Threads, release_in_process(t) PROVE Holds' = Holds
  BY <1>0, <1>8 DEF release_in_process, PlacesOK, Holds, Outside
<1>9. ASSUME NEW r \in Processes, ProcessEnds(r) PROVE Section!SectionNext \/ Holds' = Holds
  <2> DEFINE S == {t \in Threads : ProcessOf[t] = r}
  <2>1. Holds' = [t \in Threads |-> IF t \in S THEN "none" ELSE Holds[t]]
    BY <1>0, <1>9 DEF ProcessEnds, PlacesOK, Holds, Outside, NoMode
  <2>2. CASE \E t \in S : Holds[t] # "none"
    <3> DEFINE T == {t \in S : Holds[t] # "none"}
    <3>1. T # {} /\ T \in SUBSET Section!Holders
      BY <2>2 DEF Section!Holders
    <3>2. Holds' = [t \in Threads |-> IF t \in T THEN "none" ELSE Holds[t]]
      BY <2>1 DEF Holds
    <3>3. QED
      BY <3>1, <3>2 DEF Section!LeaveAll, Section!SectionNext
  <2>3. CASE \A t \in S : Holds[t] = "none"
    BY <2>1, <2>3 DEF Holds
  <2>4. QED
    BY <2>2, <2>3
<1>10. CASE UNCHANGED lockvars
  BY <1>10 DEF lockvars, Holds
<1>11. QED
  BY <1>1, <1>2, <1>3, <1>4, <1>5, <1>6, <1>7, <1>8, <1>9, <1>10 DEF LockNext, LockModes

-----------------------------------------------------------------------------
(* The gate. *)

\* Those of process r who have passed its gate in this mode.
Passed(r, mode) == {t \in Threads : ProcessOf[t] = r /\ holder[t].mode = mode}

\* The gate counts them, and lets one writer pass alone.
GateCounts ==
  \A r \in Processes \ leaked :
    /\ gate[r].readers = Cardinality(Passed(r, "shared"))
    /\ gate[r].writer <=> Passed(r, "exclusive") # {}
    /\ \A t, u \in Passed(r, "exclusive") : t = u

GateInv == LockInv /\ gate \in [Processes -> [readers : Int, writer : BOOLEAN]] /\ GateCounts

LEMMA PassedFinite == \A r, mode : IsFiniteSet(Passed(r, mode))
  BY LockAssumption, FS_Subset DEF Passed

LEMMA InitGateInv == LockInit => GateInv
<1> SUFFICES ASSUME LockInit PROVE GateInv
  OBVIOUS
<1>1. \A r : Passed(r, "shared") = {} /\ Passed(r, "exclusive") = {}
  BY DEF LockInit, Passed, Outside, NoMode
<1>2. GateCounts
  BY <1>1, FS_EmptySet DEF LockInit, GateCounts, OpenGate
<1>3. QED
  BY <1>2, InitLockInv DEF LockInit, GateInv, OpenGate

\* A step that moves nobody through a gate.
LEMMA GateUntouched ==
  ASSUME GateInv, LockInv', UNCHANGED gate, leaked \subseteq leaked',
         \A t \in Threads : ProcessOf[t] \notin leaked' => holder'[t].mode = holder[t].mode
  PROVE  GateInv'
<1>1. ASSUME NEW r \in Processes \ leaked', NEW mode PROVE Passed(r, mode)' = Passed(r, mode)
  BY <1>1 DEF Passed
<1>2. GateCounts'
  BY <1>1 DEF GateCounts, GateInv
<1>3. QED
  BY <1>2 DEF GateInv

LEMMA AcquireCounts ==
  ASSUME GateInv, LockInv', NEW t \in Threads, NEW mode \in LockModes, acquire_in_process(t, mode)
  PROVE  GateInv'
<1> DEFINE p == ProcessOf[t]
<1>1. p \in Processes /\ holder[t].mode = NoMode /\ leaked' = leaked
  BY LockAssumption DEF acquire_in_process, Outside
<1>2. /\ \A r : r # p => \A m \in LockModes : Passed(r, m)' = Passed(r, m)
      /\ Passed(p, mode)' = Passed(p, mode) \cup {t} /\ t \notin Passed(p, mode)
      /\ \A m \in LockModes \ {mode} : Passed(p, m)' = Passed(p, m)
  BY <1>1 DEF acquire_in_process, Passed, GateInv, LockInv, PlacesOK, LockModes, NoMode
<1>3. gate' \in [Processes -> [readers : Int, writer : BOOLEAN]]
  <2> DEFINE g == gate[p]
  <2>1. g \in [readers : Int, writer : BOOLEAN]
    BY <1>1 DEF GateInv
  <2>2. [g EXCEPT !.writer = TRUE] \in [readers : Int, writer : BOOLEAN]
    BY <2>1
  <2>3. [g EXCEPT !.readers = @ + 1] \in [readers : Int, writer : BOOLEAN]
    BY <2>1
  <2>4. gate' = [gate EXCEPT ![p] = IF mode = "exclusive" THEN [g EXCEPT !.writer = TRUE]
                                                         ELSE [g EXCEPT !.readers = @ + 1]]
    BY DEF acquire_in_process
  <2> HIDE DEF p, g
  <2>5. QED
    BY <1>1, <2>2, <2>3, <2>4 DEF GateInv
<1>4. ASSUME NEW r \in Processes \ leaked'
      PROVE  /\ gate'[r].readers = Cardinality(Passed(r, "shared")')
             /\ gate'[r].writer <=> Passed(r, "exclusive")' # {}
             /\ \A x, u \in Passed(r, "exclusive")' : x = u
  <2>0. /\ gate[r].readers = Cardinality(Passed(r, "shared"))
        /\ gate[r].writer <=> Passed(r, "exclusive") # {}
        /\ \A x, u \in Passed(r, "exclusive") : x = u
    BY <1>1, <1>4 DEF GateInv, GateCounts
  <2>1. CASE r # p
    <3>1. gate'[r] = gate[r]
      BY <2>1 DEF acquire_in_process, GateInv
    <3>2. QED
      BY <1>2, <2>0, <2>1, <3>1 DEF LockModes
  <2>2. CASE r = p /\ mode = "shared"
    <3>1. Cardinality(Passed(p, "shared")') = Cardinality(Passed(p, "shared")) + 1
      BY <1>2, <2>2, PassedFinite, FS_AddElement
    <3>2. gate'[p] = [gate[p] EXCEPT !.readers = @ + 1]
      BY <1>1, <2>2 DEF acquire_in_process, GateInv
    <3>3. Passed(p, "exclusive")' = Passed(p, "exclusive")
      BY <1>2, <2>2 DEF LockModes
    <3>4. QED
      BY <2>0, <2>2, <3>1, <3>2, <3>3
  <2>3. CASE r = p /\ mode = "exclusive"
    <3>1. Passed(p, "exclusive") = {}
      BY <2>0, <2>3 DEF acquire_in_process
    <3>2. Passed(p, "exclusive")' = {t}
      BY <1>2, <2>3, <3>1
    <3>3. gate'[p] = [gate[p] EXCEPT !.writer = TRUE]
      BY <1>1, <2>3 DEF acquire_in_process, GateInv
    <3>4. Passed(p, "shared")' = Passed(p, "shared")
      BY <1>2, <2>3 DEF LockModes
    <3>5. QED
      BY <2>0, <2>3, <3>2, <3>3, <3>4
  <2>4. QED
    BY <2>1, <2>2, <2>3 DEF LockModes
<1>5. QED
  BY <1>3, <1>4 DEF GateInv, GateCounts

LEMMA ReleaseCounts ==
  ASSUME GateInv, LockInv', NEW t \in Threads, release_in_process(t)
  PROVE  GateInv'
<1> DEFINE p == ProcessOf[t]
<1>0. PICK mode \in LockModes : holder[t].mode = mode
  BY DEF release_in_process, GateInv, LockInv, PlacesOK
<1>1. p \in Processes /\ leaked' = leaked
  BY LockAssumption DEF release_in_process
<1>2. /\ \A r : r # p => \A m \in LockModes : Passed(r, m)' = Passed(r, m)
      /\ Passed(p, mode)' = Passed(p, mode) \ {t} /\ t \in Passed(p, mode)
      /\ \A m \in LockModes \ {mode} : Passed(p, m)' = Passed(p, m)
  BY <1>0, <1>1 DEF release_in_process, Passed, GateInv, LockInv, PlacesOK, LockModes, NoMode, Outside
<1>3. gate' \in [Processes -> [readers : Int, writer : BOOLEAN]]
  <2> DEFINE g == gate[p]
  <2>1. g \in [readers : Int, writer : BOOLEAN]
    BY <1>1 DEF GateInv
  <2>2. [g EXCEPT !.writer = FALSE] \in [readers : Int, writer : BOOLEAN]
    BY <2>1
  <2>3. [g EXCEPT !.readers = @ - 1] \in [readers : Int, writer : BOOLEAN]
    BY <2>1
  <2>4. CASE mode = "exclusive"
    <3>1. gate' = [gate EXCEPT ![p] = [g EXCEPT !.writer = FALSE]]
      BY <1>0, <2>4 DEF release_in_process
    <3> HIDE DEF p, g
    <3>2. QED
      BY <1>1, <2>2, <3>1 DEF GateInv
  <2>5. CASE mode = "shared"
    <3>1. gate' = [gate EXCEPT ![p] = [g EXCEPT !.readers = @ - 1]]
      BY <1>0, <2>5 DEF release_in_process
    <3> HIDE DEF p, g
    <3>2. QED
      BY <1>1, <2>3, <3>1 DEF GateInv
  <2>6. QED
    BY <2>4, <2>5 DEF LockModes
<1>4. ASSUME NEW r \in Processes \ leaked'
      PROVE  /\ gate'[r].readers = Cardinality(Passed(r, "shared")')
             /\ gate'[r].writer <=> Passed(r, "exclusive")' # {}
             /\ \A x, u \in Passed(r, "exclusive")' : x = u
  <2>0. /\ gate[r].readers = Cardinality(Passed(r, "shared"))
        /\ gate[r].writer <=> Passed(r, "exclusive") # {}
        /\ \A x, u \in Passed(r, "exclusive") : x = u
    BY <1>1, <1>4 DEF GateInv, GateCounts
  <2>1. CASE r # p
    <3>1. gate'[r] = gate[r]
      BY <2>1 DEF release_in_process, GateInv
    <3>2. QED
      BY <1>2, <2>0, <2>1, <3>1 DEF LockModes
  <2>2. CASE r = p /\ mode = "shared"
    <3>1. Cardinality(Passed(p, "shared")') = Cardinality(Passed(p, "shared")) - 1
      BY <1>2, <2>2, PassedFinite, FS_RemoveElement
    <3>2. gate'[p] = [gate[p] EXCEPT !.readers = @ - 1]
      BY <1>0, <1>1, <2>2 DEF release_in_process, GateInv
    <3>3. Passed(p, "exclusive")' = Passed(p, "exclusive")
      BY <1>2, <2>2 DEF LockModes
    <3>4. QED
      BY <2>0, <2>2, <3>1, <3>2, <3>3
  <2>3. CASE r = p /\ mode = "exclusive"
    <3>1. Passed(p, "exclusive")' = {}
      BY <1>2, <2>0, <2>3
    <3>2. gate'[p] = [gate[p] EXCEPT !.writer = FALSE]
      BY <1>0, <1>1, <2>3 DEF release_in_process, GateInv
    <3>3. Passed(p, "shared")' = Passed(p, "shared")
      BY <1>2, <2>3 DEF LockModes
    <3>4. QED
      BY <2>0, <2>3, <3>1, <3>2, <3>3
  <2>4. QED
    BY <1>1, <2>1, <2>2, <2>3 DEF LockModes
<1>5. QED
  BY <1>3, <1>4 DEF GateInv, GateCounts

LEMMA ProcessEndCounts ==
  ASSUME GateInv, LockInv', NEW p \in Processes, ProcessEnds(p)
  PROVE  GateInv'
<1>1. \A r : r # p => \A m \in LockModes : Passed(r, m)' = Passed(r, m)
  BY DEF ProcessEnds, Passed, GateInv, LockInv, PlacesOK, Outside, NoMode, LockModes
<1>2. \A m \in LockModes : Passed(p, m)' = {}
  BY DEF ProcessEnds, Passed, GateInv, LockInv, PlacesOK, Outside, NoMode, LockModes
<1>3. gate'[p] = [readers |-> 0, writer |-> FALSE] /\ \A r \in Processes : r # p => gate'[r] = gate[r]
  BY DEF ProcessEnds, GateInv, OpenGate
<1>4. gate' \in [Processes -> [readers : Int, writer : BOOLEAN]]
  BY DEF ProcessEnds, GateInv, OpenGate
<1>5. ASSUME NEW r \in Processes \ leaked'
      PROVE  /\ gate'[r].readers = Cardinality(Passed(r, "shared")')
             /\ gate'[r].writer <=> Passed(r, "exclusive")' # {}
             /\ \A x, u \in Passed(r, "exclusive")' : x = u
  <2>1. CASE r = p
    BY <1>2, <1>3, <2>1, FS_EmptySet DEF LockModes
  <2>2. CASE r # p
    <3>1. r \in Processes \ leaked
      BY <1>5, <2>2 DEF ProcessEnds
    <3>2. QED
      BY <1>1, <1>3, <2>2, <3>1 DEF GateInv, GateCounts, LockModes
  <2>3. QED
    BY <2>1, <2>2
<1>6. QED
  BY <1>4, <1>5 DEF GateInv, GateCounts

LEMMA StepGateInv == GateInv /\ [LockNext]_lockvars => GateInv'
<1> SUFFICES ASSUME GateInv, [LockNext]_lockvars PROVE GateInv'
  OBVIOUS
<1>0. LockInv /\ LockInv'
  BY StepLockInv DEF GateInv
<1>1. ASSUME NEW t \in Threads, NEW mode \in LockModes, acquire_in_process(t, mode) PROVE GateInv'
  BY <1>0, <1>1, AcquireCounts
<1>2. ASSUME NEW t \in Threads, OpenHandle(t) PROVE GateInv'
  BY <1>0, <1>2, GateUntouched DEF OpenHandle, Goes, LockInv, PlacesOK
<1>3. ASSUME NEW t \in Threads, flock_fd(t) \/ flock_fd_timeout(t) \/ FinishBody(t) \/ Downgrade(t) \/ CloseHandle(t)
      PROVE  GateInv'
  BY <1>0, <1>3, GateUntouched
     DEF flock_fd, flock_fd_timeout, FinishBody, Downgrade, CloseHandle, Goes, LockInv, PlacesOK
<1>4. ASSUME NEW t \in Threads, release_in_process(t) PROVE GateInv'
  BY <1>0, <1>4, ReleaseCounts
<1>5. ASSUME NEW r \in Processes, ProcessEnds(r) PROVE GateInv'
  BY <1>0, <1>5, ProcessEndCounts
<1>6. CASE UNCHANGED lockvars
  BY <1>0, <1>6, GateUntouched DEF lockvars
<1>7. QED
  BY <1>1, <1>2, <1>3, <1>4, <1>5, <1>6 DEF LockNext, LockModes

LEMMA OpenWhenEmpty == GateInv => GateReopens
<1> SUFFICES ASSUME GateInv, NEW r \in Processes, r \notin leaked,
                    \A t \in Threads : ProcessOf[t] = r => holder[t] = Outside
             PROVE  gate[r] = OpenGate
  BY DEF GateReopens
<1>1. Passed(r, "shared") = {} /\ Passed(r, "exclusive") = {}
  BY DEF Passed, Outside, NoMode
<1>2. QED
  BY <1>1, FS_EmptySet DEF GateInv, GateCounts, OpenGate

-----------------------------------------------------------------------------
(* Results. *)

\* The gate of each process and the lock on the file implement the section that callers rely on: a
\* backup or restore inside maintenance_lock is alone, in whatever process (pg_api/maintenance.py).
THEOREM LockIsSection == LockSpec => LockImplementsSection
<1>1. LockSpec => []LockInv
  BY InitLockInv, StepLockInv, PTL DEF LockSpec
<1>2. QED
  BY <1>1, InitMaps, StepMaps, PTL DEF LockSpec, LockImplementsSection, Section!SectionSpec

\* A gate that nobody has passed is open, whatever timed out, raised or ended before, unless the lock
\* file could not be opened (pg_api/maintenance.py: the finally clauses).
THEOREM GatesReopen == LockSpec => []GateReopens
<1>1. LockSpec => []GateInv
  BY InitGateInv, StepGateInv, PTL DEF LockSpec
<1>2. QED
  BY <1>1, OpenWhenEmpty, PTL

-----------------------------------------------------------------------------
(* The gate counts its readers in a process with a leak too, up to the one  *)
(* who failed behind it: the bound of the types.                           *)

\* A gate counts those who have passed it, and the one who failed to open the file.
ReadersOK ==
  \A r \in Processes : \/ gate[r].readers = Cardinality(Passed(r, "shared"))
                       \/ r \in leaked /\ gate[r].readers = Cardinality(Passed(r, "shared")) + 1

LEMMA PassedCount ==
  \A r, mode : Cardinality(Passed(r, mode)) \in Nat /\ Cardinality(Passed(r, mode)) <= Cardinality(Threads)
  BY LockAssumption, FS_Subset, FS_CardinalityType, PassedFinite DEF Passed

\* The gate moves with those who pass it.
LEMMA ReadersFollow ==
  ASSUME GateInv, ReadersOK, NEW p \in Processes, UNCHANGED leaked,
         \A r \in Processes \ {p} : gate'[r] = gate[r] /\ Passed(r, "shared")' = Passed(r, "shared"),
         NEW d \in Int, gate'[p].readers = gate[p].readers + d,
         Cardinality(Passed(p, "shared")') = Cardinality(Passed(p, "shared")) + d
  PROVE  ReadersOK'
<1>1. ASSUME NEW r \in Processes
      PROVE  \/ gate'[r].readers = Cardinality(Passed(r, "shared")')
             \/ r \in leaked' /\ gate'[r].readers = Cardinality(Passed(r, "shared")') + 1
  <2>1. CASE r # p
    BY <2>1 DEF ReadersOK
  <2>2. CASE r = p
    BY <2>2, PassedCount DEF ReadersOK
  <2>3. QED
    BY <2>1, <2>2
<1>2. QED
  BY <1>1 DEF ReadersOK

LEMMA ReadersStay ==
  ASSUME ReadersOK, UNCHANGED <<gate, leaked>>, \A t \in Threads : holder'[t].mode = holder[t].mode
  PROVE  ReadersOK'
<1>1. \A r \in Processes : Passed(r, "shared")' = Passed(r, "shared")
  BY DEF Passed
<1>2. QED
  BY <1>1 DEF ReadersOK

LEMMA ReadersAcquire ==
  ASSUME GateInv, ReadersOK, NEW t \in Threads, NEW mode \in LockModes, acquire_in_process(t, mode)
  PROVE  ReadersOK'
<1>1. PICK p \in Processes : p = ProcessOf[t]
  BY LockAssumption
<1>2. /\ holder[t].mode = NoMode /\ leaked' = leaked
      /\ gate' = [gate EXCEPT ![p] = IF mode = "exclusive" THEN [gate[p] EXCEPT !.writer = TRUE]
                                     ELSE [gate[p] EXCEPT !.readers = @ + 1]]
  BY <1>1 DEF acquire_in_process, Outside
<1>3. gate[p] \in [readers : Int, writer : BOOLEAN]
  BY DEF GateInv
<1>4. \A r \in Processes \ {p} : gate'[r] = gate[r] /\ Passed(r, "shared")' = Passed(r, "shared")
  BY <1>1, <1>2 DEF acquire_in_process, Passed, GateInv, LockInv, PlacesOK
<1>5. CASE mode = "shared"
  <2>1. gate'[p].readers = gate[p].readers + 1
    BY <1>2, <1>3, <1>5 DEF GateInv
  <2>2. Passed(p, "shared")' = Passed(p, "shared") \cup {t} /\ t \notin Passed(p, "shared")
    BY <1>1, <1>2, <1>5 DEF acquire_in_process, Passed, GateInv, LockInv, PlacesOK, NoMode
  <2>3. Cardinality(Passed(p, "shared")') = Cardinality(Passed(p, "shared")) + 1
    BY <2>2, PassedFinite, FS_AddElement
  <2>4. QED
    BY <1>2, <1>4, <2>1, <2>3, ReadersFollow
<1>6. CASE mode = "exclusive"
  <2>1. gate'[p].readers = gate[p].readers + 0
    BY <1>2, <1>3, <1>6 DEF GateInv
  <2>2. Passed(p, "shared")' = Passed(p, "shared")
    BY <1>1, <1>2, <1>6 DEF acquire_in_process, Passed, GateInv, LockInv, PlacesOK, NoMode
  <2>3. Cardinality(Passed(p, "shared")') = Cardinality(Passed(p, "shared")) + 0
    BY <2>2, PassedCount
  <2>4. QED
    BY <1>2, <1>4, <2>1, <2>3, ReadersFollow
<1>7. QED
  BY <1>5, <1>6 DEF LockModes

LEMMA ReadersRelease ==
  ASSUME GateInv, ReadersOK, NEW t \in Threads, release_in_process(t)
  PROVE  ReadersOK'
<1>1. PICK p \in Processes : p = ProcessOf[t]
  BY LockAssumption
<1>2. /\ holder[t].mode \in LockModes /\ leaked' = leaked
      /\ gate' = [gate EXCEPT ![p] = IF holder[t].mode = "exclusive" THEN [gate[p] EXCEPT !.writer = FALSE]
                                     ELSE [gate[p] EXCEPT !.readers = @ - 1]]
  BY <1>1 DEF release_in_process, GateInv, LockInv, PlacesOK
<1>3. gate[p] \in [readers : Int, writer : BOOLEAN]
  BY DEF GateInv
<1>4. \A r \in Processes \ {p} : gate'[r] = gate[r] /\ Passed(r, "shared")' = Passed(r, "shared")
  BY <1>1, <1>2 DEF release_in_process, Passed, GateInv, LockInv, PlacesOK
<1>5. CASE holder[t].mode = "shared"
  <2>1. gate'[p].readers = gate[p].readers + (-1)
    BY <1>2, <1>3, <1>5 DEF GateInv
  <2>2. Passed(p, "shared")' = Passed(p, "shared") \ {t} /\ t \in Passed(p, "shared")
    BY <1>1, <1>2, <1>5 DEF release_in_process, Passed, GateInv, LockInv, PlacesOK, NoMode, Outside
  <2>3. Cardinality(Passed(p, "shared")') = Cardinality(Passed(p, "shared")) + (-1)
    BY <2>2, PassedFinite, PassedCount, FS_RemoveElement
  <2>4. QED
    BY <1>2, <1>4, <2>1, <2>3, ReadersFollow
<1>6. CASE holder[t].mode = "exclusive"
  <2>1. gate'[p].readers = gate[p].readers + 0
    BY <1>2, <1>3, <1>6 DEF GateInv
  <2>2. Passed(p, "shared")' = Passed(p, "shared")
    BY <1>1, <1>2, <1>6 DEF release_in_process, Passed, GateInv, LockInv, PlacesOK, NoMode, Outside
  <2>3. Cardinality(Passed(p, "shared")') = Cardinality(Passed(p, "shared")) + 0
    BY <2>2, PassedCount
  <2>4. QED
    BY <1>2, <1>4, <2>1, <2>3, ReadersFollow
<1>7. QED
  BY <1>2, <1>5, <1>6 DEF LockModes

\* The one who fails is counted on.
LEMMA ReadersLeak ==
  ASSUME GateInv, ReadersOK, NEW t \in Threads, OpenHandle(t)
  PROVE  ReadersOK'
<1>1. PICK p \in Processes : p = ProcessOf[t]
  BY LockAssumption
<1>2. CASE UNCHANGED leaked
  BY <1>2, ReadersStay DEF OpenHandle, Goes, GateInv, LockInv, PlacesOK
<1>3. CASE p \notin leaked /\ holder' = [holder EXCEPT ![t] = Outside] /\ leaked' = leaked \cup {p}
  <2>1. UNCHANGED gate /\ holder[t].at = "gated"
    BY DEF OpenHandle
  <2>2. \A r \in Processes \ {p} : Passed(r, "shared")' = Passed(r, "shared")
    BY <1>1, <1>3 DEF Passed, GateInv, LockInv, PlacesOK
  <2>3. gate[p].readers = Cardinality(Passed(p, "shared"))
    BY <1>3 DEF GateInv, GateCounts
  <2>4. \/ Passed(p, "shared")' = Passed(p, "shared")
        \/ Passed(p, "shared")' = Passed(p, "shared") \ {t} /\ t \in Passed(p, "shared")
    BY <1>1, <1>3 DEF Passed, GateInv, LockInv, PlacesOK, Outside, NoMode
  <2>5. \/ Cardinality(Passed(p, "shared")') = Cardinality(Passed(p, "shared"))
        \/ Cardinality(Passed(p, "shared")') = Cardinality(Passed(p, "shared")) - 1
    BY <2>4, PassedFinite, FS_RemoveElement
  <2>6. ASSUME NEW r \in Processes
        PROVE  \/ gate'[r].readers = Cardinality(Passed(r, "shared")')
               \/ r \in leaked' /\ gate'[r].readers = Cardinality(Passed(r, "shared")') + 1
    <3>1. CASE r # p
      BY <1>3, <2>1, <2>2, <3>1 DEF ReadersOK
    <3>2. CASE r = p
      BY <1>3, <2>1, <2>3, <2>5, <3>2, PassedCount
    <3>3. QED
      BY <3>1, <3>2
  <2>7. QED
    BY <2>6 DEF ReadersOK
<1>4. QED
  BY <1>1, <1>2, <1>3 DEF OpenHandle

LEMMA StepReaders == GateInv /\ ReadersOK /\ [LockNext]_lockvars => ReadersOK'
<1> SUFFICES ASSUME GateInv, ReadersOK, [LockNext]_lockvars PROVE ReadersOK'
  OBVIOUS
<1>1. ASSUME NEW t \in Threads, NEW mode \in LockModes, acquire_in_process(t, mode) PROVE ReadersOK'
  BY <1>1, ReadersAcquire
<1>2. ASSUME NEW t \in Threads, OpenHandle(t) PROVE ReadersOK'
  BY <1>2, ReadersLeak
<1>3. ASSUME NEW t \in Threads, flock_fd(t) \/ flock_fd_timeout(t) \/ FinishBody(t) \/ Downgrade(t) \/ CloseHandle(t)
      PROVE  ReadersOK'
  <2>1. UNCHANGED <<gate, leaked>> /\ \E s : holder' = [holder EXCEPT ![t].at = s]
    <3>1. CASE flock_fd(t) \/ flock_fd_timeout(t)
      BY <3>1 DEF flock_fd, flock_fd_timeout, Goes
    <3>2. CASE FinishBody(t) \/ Downgrade(t) \/ CloseHandle(t)
      BY <3>2 DEF FinishBody, Downgrade, CloseHandle, Goes
    <3>3. QED
      BY <1>3, <3>1, <3>2
  <2>2. \A u \in Threads : holder'[u].mode = holder[u].mode
    BY <2>1 DEF GateInv, LockInv, PlacesOK
  <2>3. QED
    BY <2>1, <2>2, ReadersStay
<1>4. ASSUME NEW t \in Threads, release_in_process(t) PROVE ReadersOK'
  BY <1>4, ReadersRelease
<1>5. ASSUME NEW p \in Processes, ProcessEnds(p) PROVE ReadersOK'
  <2>1. /\ \A r \in Processes \ {p} : Passed(r, "shared")' = Passed(r, "shared") /\ gate'[r] = gate[r]
        /\ Passed(p, "shared")' = {} /\ gate'[p].readers = 0 /\ leaked' = leaked \ {p}
    BY <1>5 DEF ProcessEnds, Passed, GateInv, LockInv, PlacesOK, Outside, NoMode, OpenGate
  <2>2. QED
    BY <2>1, FS_EmptySet DEF ReadersOK
<1>6. CASE UNCHANGED lockvars
  BY <1>6, ReadersStay DEF lockvars
<1>7. QED
  BY <1>1, <1>2, <1>3, <1>4, <1>5, <1>6 DEF LockNext, LockModes

LEMMA InitReaders == LockInit => ReadersOK
<1> SUFFICES ASSUME LockInit PROVE ReadersOK
  OBVIOUS
<1>1. \A r : Passed(r, "shared") = {}
  BY DEF LockInit, Passed, Outside, NoMode
<1>2. QED
  BY <1>1, FS_EmptySet DEF LockInit, ReadersOK, OpenGate

\* A gate never counts more readers than there are threads, and one who failed behind it.
LEMMA LockTypes == LockSpec => []LockTypeOK
<1>1. LockSpec => [](GateInv /\ ReadersOK)
  BY InitGateInv, StepGateInv, InitReaders, StepReaders, PTL DEF LockSpec
<1>2. GateInv /\ ReadersOK => LockTypeOK
  <2> SUFFICES ASSUME GateInv, ReadersOK PROVE LockTypeOK
    OBVIOUS
  <2>1. Cardinality(Threads) \in Nat
    BY LockAssumption, FS_CardinalityType
  <2>2. ASSUME NEW r \in Processes PROVE gate[r] \in [readers : 0 .. Cardinality(Threads) + 1, writer : BOOLEAN]
    <3>1. gate[r] \in [readers : Int, writer : BOOLEAN]
      BY DEF GateInv
    <3>2. gate[r].readers \in 0 .. Cardinality(Threads) + 1
      BY <2>1, <3>1, PassedCount DEF ReadersOK
    <3>3. QED
      BY <3>1, <3>2
  <2>3. QED
    BY <2>2 DEF LockTypeOK, GateInv, LockInv, PlacesOK, LockModes, NoMode
<1>3. QED
  BY <1>1, <1>2, PTL

-----------------------------------------------------------------------------
(* BackupBundle: types.  The backup holds the section alone, a file is     *)
(* being written only by a writer that shares it, and so nothing that is   *)
(* copied is in the middle of a write; the reference check does the rest.  *)

LEMMA NoWorkType == NoWork.key \in Keys /\ NoWork.at = "idle"
  BY BackupAssumption DEF NoWork

LEMMA NoBundleType == NoBundle \in [rows : [Keys -> 0 .. MaxRows], files : [Keys -> Files], sealed : BOOLEAN]
  BY BackupAssumption DEF NoBundle, Files

LEMMA BackupInitType == BackupInit => BackupTypeOK
  BY BackupAssumption, NoWorkType, NoBundleType
     DEF BackupInit, BackupTypeOK, SectionInit, NoWork, NoJob, Files, Modes

LEMMA BackupStepType == BackupTypeOK /\ [BackupNext]_backupvars => BackupTypeOK'
<1> SUFFICES ASSUME BackupTypeOK, [BackupNext]_backupvars PROVE BackupTypeOK'
  OBVIOUS
<1> USE BackupAssumption, NoWorkType, NoBundleType
<1>1. ASSUME NEW w \in Writers, put_enter(w) PROVE BackupTypeOK'
  BY <1>1 DEF put_enter, TakeKey, Enter, Works, BackupTypeOK, Modes
<1>2. ASSUME NEW w \in Writers, put_begin(w) PROVE BackupTypeOK'
  BY <1>2 DEF put_begin, Works, BackupTypeOK, Files
<1>3. ASSUME NEW w \in Writers, put_end(w) PROVE BackupTypeOK'
  BY <1>3 DEF put_end, Works, BackupTypeOK, Files
<1>4. ASSUME NEW w \in Writers, put_row(w) PROVE BackupTypeOK'
  BY <1>4 DEF put_row, NoWork, BackupTypeOK
<1>5. ASSUME NEW w \in Writers, delete_row(w) PROVE BackupTypeOK'
  BY <1>5 DEF delete_row, Works, BackupTypeOK
<1>6. ASSUME NEW w \in Writers, delete_file(w) PROVE BackupTypeOK'
  BY <1>6 DEF delete_file, NoWork, BackupTypeOK, Files
<1>7. CASE ApiEnds
  BY <1>7 DEF ApiEnds, NoWork, BackupTypeOK, Files
<1>8. CASE snapshot_sqlite
  BY <1>8 DEF snapshot_sqlite, Enter, BackupTypeOK, NoBundle, Files, Modes
<1>9. CASE copy_file
  BY <1>9 DEF copy_file, BackupTypeOK
<1>10. CASE reference_check
  BY <1>10 DEF reference_check, BackupTypeOK, NoJob
<1>11. CASE BackupFails
  BY <1>11 DEF BackupFails, BackupTypeOK, NoJob
<1>12. CASE UNCHANGED backupvars
  BY <1>12 DEF backupvars, BackupTypeOK
<1>13. QED
  BY <1>1, <1>2, <1>3, <1>4, <1>5, <1>6, <1>7, <1>8, <1>9, <1>10, <1>11, <1>12 DEF BackupNext

-----------------------------------------------------------------------------
(* BackupBundle: the invariant. *)

\* Who writes a file shares the section, and a file is half written only while somebody writes it.
WritersInside ==
  /\ \A w \in Writers : writer[w].at \in {"entered", "writing"} => section[w] = "shared"
  /\ \A k \in Keys : vault[k] = "writing" => \E w \in Writers : writer[w].at = "writing" /\ writer[w].key = k

\* The backup at work holds the section alone; what it has copied so far was not half written.
BackupAlone ==
  job.at # "idle" => /\ section[Backup] = "exclusive"
                     /\ ~capture.sealed
                     /\ \A k \in Keys \ job.todo : capture.files[k] # "writing"
                     /\ job.at = "checking" => job.todo = {}

BackupInv == BackupTypeOK /\ ExclusiveAlone /\ WritersInside /\ BackupAlone /\ BundleWhole

LEMMA BackupInitInv == BackupInit => BackupInv
<1> SUFFICES ASSUME BackupInit PROVE BackupInv
  OBVIOUS
<1>1. ExclusiveAlone
  BY DEF BackupInit, SectionInit, ExclusiveAlone
<1>2. WritersInside
  BY NoWorkType DEF BackupInit, WritersInside
<1>3. BackupAlone /\ BundleWhole
  BY DEF BackupInit, BackupAlone, BundleWhole, NoJob, NoBundle
<1>4. QED
  BY <1>1, <1>2, <1>3, BackupInitType DEF BackupInv

\* A writer's step leaves the backup alone if it does not touch the backup's hold on the section.
LEMMA BackupUntouched ==
  ASSUME BackupInv, UNCHANGED <<job, capture>>, section'[Backup] = section[Backup]
  PROVE  BackupAlone' /\ BundleWhole'
  BY DEF BackupInv, BackupAlone, BundleWhole

\* A step that leaves writers, files and the writers' hold on the section alone.
LEMMA WritersUntouched ==
  ASSUME BackupInv, UNCHANGED <<writer, vault>>, \A w \in Writers : section'[w] = section[w]
  PROVE  WritersInside'
  BY DEF BackupInv, WritersInside

LEMMA LeaveAlone ==
  ASSUME BackupInv, NEW a \in Actors, section' = [section EXCEPT ![a] = "none"]
  PROVE  ExclusiveAlone'
  BY DEF BackupInv, BackupTypeOK, ExclusiveAlone

LEMMA EnterAlone ==
  ASSUME BackupInv, NEW a \in Actors, NEW mode \in Modes, Enter(a, mode)
  PROVE  ExclusiveAlone'
  BY DEF BackupInv, BackupTypeOK, ExclusiveAlone, Enter, Modes

LEMMA BackupStepInv == BackupInv /\ [BackupNext]_backupvars => BackupInv'
<1> SUFFICES ASSUME BackupInv, [BackupNext]_backupvars PROVE BackupInv'
  OBVIOUS
<1>0. BackupTypeOK /\ BackupTypeOK'
  BY BackupStepType DEF BackupInv
<1> USE BackupAssumption
<1>1. ASSUME NEW w \in Writers, put_enter(w) PROVE BackupInv'
  <2>1. ExclusiveAlone'
    BY <1>1, EnterAlone DEF put_enter, Modes
  <2>2. WritersInside'
    BY <1>0, <1>1 DEF put_enter, TakeKey, Enter, Works, BackupInv, WritersInside, BackupTypeOK
  <2>3. BackupAlone' /\ BundleWhole'
    BY <1>0, <1>1, BackupUntouched DEF put_enter, TakeKey, Enter, BackupTypeOK
  <2>4. QED
    BY <1>0, <2>1, <2>2, <2>3 DEF BackupInv
<1>2. ASSUME NEW w \in Writers, put_begin(w) PROVE BackupInv'
  <2>1. ExclusiveAlone' /\ BackupAlone' /\ BundleWhole'
    BY <1>2, BackupUntouched DEF put_begin, BackupInv, ExclusiveAlone
  <2>2. WritersInside'
    BY <1>0, <1>2 DEF put_begin, Works, BackupInv, WritersInside, BackupTypeOK
  <2>3. QED
    BY <1>0, <2>1, <2>2 DEF BackupInv
<1>3. ASSUME NEW w \in Writers, put_end(w) PROVE BackupInv'
  <2>1. ExclusiveAlone'
    BY <1>3, LeaveAlone DEF put_end
  <2>2. WritersInside'
    BY <1>0, <1>3 DEF put_end, Works, BackupInv, WritersInside, BackupTypeOK
  <2>3. BackupAlone' /\ BundleWhole'
    BY <1>0, <1>3, BackupUntouched DEF put_end, BackupTypeOK
  <2>4. QED
    BY <1>0, <2>1, <2>2, <2>3 DEF BackupInv
<1>4. ASSUME NEW w \in Writers, put_row(w) PROVE BackupInv'
  <2>1. ExclusiveAlone' /\ BackupAlone' /\ BundleWhole'
    BY <1>4, BackupUntouched DEF put_row, BackupInv, ExclusiveAlone
  <2>2. WritersInside'
    BY <1>0, <1>4, NoWorkType DEF put_row, BackupInv, WritersInside, BackupTypeOK
  <2>3. QED
    BY <1>0, <2>1, <2>2 DEF BackupInv
<1>5. ASSUME NEW w \in Writers, delete_row(w) PROVE BackupInv'
  <2>1. ExclusiveAlone' /\ BackupAlone' /\ BundleWhole'
    BY <1>5, BackupUntouched DEF delete_row, BackupInv, ExclusiveAlone
  <2>2. WritersInside'
    BY <1>0, <1>5 DEF delete_row, Works, BackupInv, WritersInside, BackupTypeOK
  <2>3. QED
    BY <1>0, <2>1, <2>2 DEF BackupInv
<1>6. ASSUME NEW w \in Writers, delete_file(w) PROVE BackupInv'
  <2>1. ExclusiveAlone' /\ BackupAlone' /\ BundleWhole'
    BY <1>6, BackupUntouched DEF delete_file, BackupInv, ExclusiveAlone
  <2>2. WritersInside'
    BY <1>0, <1>6, NoWorkType DEF delete_file, BackupInv, WritersInside, BackupTypeOK
  <2>3. QED
    BY <1>0, <2>1, <2>2 DEF BackupInv
<1>7. CASE ApiEnds
  <2>1. ExclusiveAlone'
    BY <1>0, <1>7 DEF ApiEnds, BackupInv, ExclusiveAlone, BackupTypeOK
  <2>2. WritersInside'
    BY <1>7, NoWorkType DEF ApiEnds, BackupInv, WritersInside
  <2>3. BackupAlone' /\ BundleWhole'
    BY <1>7, BackupUntouched DEF ApiEnds
  <2>4. QED
    BY <1>0, <2>1, <2>2, <2>3 DEF BackupInv
<1>8. CASE snapshot_sqlite
  <2>1. ExclusiveAlone'
    BY <1>8, EnterAlone DEF snapshot_sqlite, Modes
  <2>2. WritersInside'
    BY <1>0, <1>8, WritersUntouched DEF snapshot_sqlite, Enter, BackupTypeOK
  <2>3. BackupAlone' /\ BundleWhole'
    BY <1>0, <1>8 DEF snapshot_sqlite, Enter, BackupAlone, BundleWhole, BackupTypeOK, NoBundle
  <2>4. QED
    BY <1>0, <2>1, <2>2, <2>3 DEF BackupInv
<1>9. CASE copy_file
  <2>1. ExclusiveAlone' /\ WritersInside'
    BY <1>9, WritersUntouched DEF copy_file, BackupInv, ExclusiveAlone
  <2>2. \A k \in Keys : vault[k] # "writing"
    BY <1>9 DEF copy_file, BackupInv, BackupAlone, WritersInside, ExclusiveAlone
  <2>3. PICK k \in job.todo : /\ capture' = [capture EXCEPT !.files[k] = vault[k]]
                              /\ job' = [at |-> IF job.todo = {k} THEN "checking" ELSE "copying",
                                         todo |-> job.todo \ {k}]
    BY <1>9 DEF copy_file
  <2>4. \A j \in Keys \ job'.todo : capture'.files[j] # "writing"
    BY <1>0, <1>9, <2>2, <2>3 DEF copy_file, BackupInv, BackupAlone, BackupTypeOK
  <2>5. capture'.sealed = capture.sealed /\ ~capture.sealed /\ section'[Backup] = "exclusive"
    BY <1>0, <1>9, <2>3 DEF copy_file, BackupInv, BackupAlone, BackupTypeOK
  <2>6. BackupAlone' /\ BundleWhole'
    BY <2>3, <2>4, <2>5 DEF BackupAlone, BundleWhole
  <2>7. QED
    BY <1>0, <2>1, <2>6 DEF BackupInv
<1>10. CASE reference_check
  <2>1. ExclusiveAlone'
    BY <1>10, LeaveAlone DEF reference_check
  <2>2. WritersInside'
    BY <1>0, <1>10, WritersUntouched DEF reference_check, BackupTypeOK
  <2>3. BackupAlone'
    BY <1>10 DEF reference_check, BackupAlone, NoJob
  <2>4. capture'.rows = capture.rows /\ capture'.files = capture.files /\ capture'.sealed = (missing = {})
    BY <1>0, <1>10 DEF reference_check, BackupTypeOK
  <2>5. \A k \in Keys : capture.files[k] # "writing"
    BY <1>10 DEF reference_check, BackupInv, BackupAlone
  <2>6. BundleWhole'
    BY <2>4, <2>5 DEF BundleWhole, missing
  <2>7. QED
    BY <1>0, <2>1, <2>2, <2>3, <2>6 DEF BackupInv
<1>11. CASE BackupFails
  <2>1. ExclusiveAlone'
    BY <1>11, LeaveAlone DEF BackupFails
  <2>2. WritersInside'
    BY <1>0, <1>11, WritersUntouched DEF BackupFails, BackupTypeOK
  <2>3. BackupAlone' /\ BundleWhole'
    BY <1>11 DEF BackupFails, BackupAlone, BundleWhole, BackupInv, NoJob
  <2>4. QED
    BY <1>0, <2>1, <2>2, <2>3 DEF BackupInv
<1>12. CASE UNCHANGED backupvars
  BY <1>0, <1>12, BackupUntouched, WritersUntouched DEF backupvars, BackupInv, ExclusiveAlone
<1>13. QED
  BY <1>1, <1>2, <1>3, <1>4, <1>5, <1>6, <1>7, <1>8, <1>9, <1>10, <1>11, <1>12 DEF BackupNext

-----------------------------------------------------------------------------
(* BackupBundle: results. *)

\* Every reachable state keeps its types, and the strengthened invariant.
THEOREM BackupInvariant == BackupSpec => []BackupInv
  BY BackupInitInv, BackupStepInv, PTL DEF BackupSpec

\* The bundle a backup seals has every file its rows name, and none in the middle of a write, however
\* many uploads, exports and deletions run beside it (pg_api/backup_restore.py: create_backup).
THEOREM SealedBundleIsWhole == BackupSpec => []BundleWhole
<1>1. BackupInv => BundleWhole
  BY DEF BackupInv
<1>2. QED
  BY <1>1, BackupInvariant, PTL

-----------------------------------------------------------------------------
(* The section, and the backup in it. *)

SectionOK == section \in [Actors -> Modes \cup {"none"}] /\ ExclusiveAlone

\* What the section promises: who holds it exclusively holds it alone (maintenance_lock.py: a lock of the
\* other kind waits).
THEOREM SectionExcludes == SectionSpec => []ExclusiveAlone
<1>1. SectionInit => SectionOK
  BY DEF SectionInit, SectionOK, ExclusiveAlone
<1>2. SectionOK /\ [SectionNext]_section => SectionOK'
  BY DEF SectionOK, ExclusiveAlone, SectionNext, Enter, Leave, LeaveAll, Modes
<1>3. SectionOK => ExclusiveAlone
  BY DEF SectionOK
<1>4. QED
  BY <1>1, <1>2, <1>3, PTL DEF SectionSpec

\* Uploads, exports and the backup use the section as it may be used: each enters it only from outside and
\* leaves only what it holds (pg_artifacts/storage.py: write_lock, backup_restore.py: create_backup).
THEOREM BackupKeepsSection == BackupSpec => SectionSpec
<1>1. BackupInit => SectionInit
  BY DEF BackupInit
<1>2. BackupInv /\ [BackupNext]_backupvars => [SectionNext]_section
  <2> SUFFICES ASSUME BackupInv, BackupNext PROVE [SectionNext]_section
    BY DEF backupvars
  <2> USE BackupAssumption
  <2>1. ASSUME NEW w \in Writers, put_enter(w) PROVE SectionNext
    BY <2>1 DEF put_enter, SectionNext, Modes
  <2>2. ASSUME NEW w \in Writers, put_end(w) PROVE SectionNext
    <3>1. section[w] # "none"
      BY <2>2 DEF put_end, BackupInv, WritersInside
    <3>2. QED
      BY <2>2, <3>1 DEF put_end, SectionNext, Leave
  <2>3. CASE ApiEnds
    <3>1. CASE \A a \in Writers : section[a] = "none"
      BY <2>3, <3>1 DEF ApiEnds, BackupInv, BackupTypeOK
    <3>2. CASE \E a \in Writers : section[a] # "none"
      <4> DEFINE T == {a \in Writers : section[a] # "none"}
      <4>1. T # {} /\ T \in SUBSET Holders
        BY <3>2 DEF Holders
      <4>2. section' = [a \in Actors |-> IF a \in T THEN "none" ELSE section[a]]
        BY <2>3 DEF ApiEnds
      <4>3. QED
        BY <4>1, <4>2 DEF SectionNext, LeaveAll
    <3>3. QED
      BY <3>1, <3>2
  <2>4. CASE snapshot_sqlite
    BY <2>4 DEF snapshot_sqlite, SectionNext, Modes
  <2>5. CASE reference_check \/ BackupFails
    <3>1. section[Backup] # "none"
      BY <2>5 DEF reference_check, BackupFails, BackupInv, BackupAlone
    <3>2. QED
      BY <2>5, <3>1 DEF reference_check, BackupFails, SectionNext, Leave
  <2>6. QED
    BY <2>1, <2>2, <2>3, <2>4, <2>5
       DEF BackupNext, put_begin, put_row, delete_row, delete_file, copy_file
<1>3. QED
  BY <1>1, <1>2, BackupInvariant, PTL DEF BackupSpec, SectionSpec

-----------------------------------------------------------------------------
(* RestoreBundle. *)

\* The bundle stands at the live path of a part, or of every part before it in the order of the copy.
Replaced(p) == live[p] = "bundle"
ReplacedBefore(p) == /\ p \in {"sources", "artifacts"} => Replaced("db")
                     /\ p = "artifacts" => Replaced("sources")
AllReplaced == \A p \in Parts : Replaced(p)

\* While a restore runs it has said nothing, the parts before the current one are replaced, a copy
\* starts on a free path, and nothing is removed before the checks have passed.
RestoreOK ==
  /\ restore.step \in {"aside", "copy", "half"} => ReplacedBefore(restore.part)
  /\ restore.step = "copy" => live[restore.part] = "none"
  /\ restore.step = "half" => live[restore.part] = "half"
  /\ restore.step \in {"check", "clean"} => AllReplaced
  /\ restore.step = "clean" => switched
  /\ restore.step \notin {"stopped", "running"} => answer = "none"
  /\ answer = "restored" => AllReplaced

RestoreInv == RestoreTypeOK /\ RestoreOK

LEMMA RestoreInitInv == RestoreInit => RestoreInv
<1> SUFFICES ASSUME RestoreInit PROVE RestoreInv
  OBVIOUS
<1> USE DEF RestoreInit, Stopped, At, Parts
<1>1. RestoreTypeOK
  <2>1. live \in [Parts -> Contents]
    BY DEF Contents
  <2>2. started \in 0 .. MaxRestores
    BY RestoreAssumption
  <2>3. aside \in [Parts -> SUBSET Contents]
    BY Zenon
  <2>4. kept \in [Parts -> Contents]
    BY Zenon DEF Contents
  <2>5. QED
    BY <2>1, <2>2, <2>3, <2>4 DEF RestoreTypeOK
<1>2. RestoreOK
  BY DEF RestoreOK
<1>3. QED
  BY <1>1, <1>2 DEF RestoreInv

LEMMA RestoreStepType == RestoreTypeOK /\ [RestoreNext]_restorevars => RestoreTypeOK'
<1> SUFFICES ASSUME RestoreTypeOK, [RestoreNext]_restorevars PROVE RestoreTypeOK'
  OBVIOUS
<1> USE RestoreAssumption DEF RestoreTypeOK, At, After, Stopped, Parts
<1>1. CASE verify_and_stage
  BY <1>1 DEF verify_and_stage, Contents
<1>2. CASE move_aside
  <2>1. restore' \in [step : {"copy"}, part : Parts]
    BY <1>2 DEF move_aside
  <2>2. live' \in [Parts -> Contents] /\ aside' \in [Parts -> SUBSET Contents] /\ kept' \in [Parts -> Contents]
    BY <1>2 DEF move_aside, Contents
  <2>3. QED
    BY <1>2, <2>1, <2>2 DEF move_aside
<1>3. CASE copy_begin
  BY <1>3 DEF copy_begin, Contents
<1>4. CASE copy_end
  BY <1>4 DEF copy_end, Contents
<1>5. CASE smoke_checks
  BY <1>5 DEF smoke_checks
<1>6. CASE clean_up
  BY <1>6 DEF clean_up
<1>7. CASE RestoreFails
  BY <1>7 DEF RestoreFails
<1>8. CASE StartApi
  BY <1>8 DEF StartApi, Contents
<1>9. CASE StopApi
  BY <1>9 DEF StopApi
<1>10. CASE UNCHANGED restorevars
  BY <1>10 DEF restorevars
<1>11. QED
  BY <1>1, <1>2, <1>3, <1>4, <1>5, <1>6, <1>7, <1>8, <1>9, <1>10 DEF RestoreNext

LEMMA RestoreStepInv == RestoreInv /\ [RestoreNext]_restorevars => RestoreInv'
<1> SUFFICES ASSUME RestoreInv, [RestoreNext]_restorevars PROVE RestoreInv'
  OBVIOUS
<1>1. RestoreTypeOK /\ RestoreTypeOK' /\ RestoreOK
  BY RestoreStepType DEF RestoreInv
<1>2. RestoreOK'
  <2> USE <1>1 DEF RestoreTypeOK, RestoreOK, At, After, Stopped, Parts, Replaced, ReplacedBefore, AllReplaced
  <2>1. CASE verify_and_stage
    BY <2>1 DEF verify_and_stage
  <2>2. CASE move_aside
    <3>1. live'[restore.part] = "none" /\ \A p \in Parts \ {restore.part} : live'[p] = live[p]
      BY <2>2 DEF move_aside
    <3>2. QED
      BY <2>2, <3>1 DEF move_aside
  <2>3. CASE copy_begin
    BY <2>3 DEF copy_begin
  <2>4. CASE copy_end
    BY <2>4 DEF copy_end
  <2>5. CASE smoke_checks
    BY <2>5 DEF smoke_checks
  <2>6. CASE clean_up
    BY <2>6 DEF clean_up
  <2>7. CASE RestoreFails
    BY <2>7 DEF RestoreFails
  <2>8. CASE StartApi
    BY <2>8 DEF StartApi
  <2>9. CASE StopApi
    BY <2>9 DEF StopApi
  <2>10. CASE UNCHANGED restorevars
    BY <2>10 DEF restorevars
  <2>11. QED
    BY <2>1, <2>2, <2>3, <2>4, <2>5, <2>6, <2>7, <2>8, <2>9, <2>10 DEF RestoreNext
<1>3. QED
  BY <1>1, <1>2 DEF RestoreInv

LEMMA RestoreInvariant == RestoreSpec => []RestoreInv
  BY RestoreInitInv, RestoreStepInv, PTL DEF RestoreSpec

\* A restore that reports success has put the bundle in place of every part, however many restores
\* failed, were cut off or ran again before, and though the API was started in between
\* (pg_api/backup_restore.py: restore_backup).
THEOREM RestoreIsWhole == RestoreSpec => []RestoredIsWhole
<1>1. RestoreInv => RestoredIsWhole
  BY DEF RestoreInv, RestoreOK, RestoredIsWhole, AllReplaced, Replaced
<1>2. QED
  BY <1>1, RestoreInvariant, PTL

\* No step loses the state from before the restores, live or moved aside, until a restore has passed
\* its checks (pg_api/backup_restore.py: restore_backup).
THEOREM RestoreRollsBack == RestoreSpec => OriginalKept
<1>1. RestoreInv /\ [RestoreNext]_restorevars
        => [~switched' => \A p \in Parts : Recoverable(p) => Recoverable(p)']_restorevars
  <2> SUFFICES ASSUME RestoreInv, RestoreNext, ~switched', NEW p \in Parts, Recoverable(p)
               PROVE Recoverable(p)'
    OBVIOUS
  <2> USE DEF RestoreInv, RestoreTypeOK, RestoreOK, Recoverable
  <2>1. CASE verify_and_stage
    BY <2>1 DEF verify_and_stage
  <2>2. CASE move_aside
    <3>1. CASE p = restore.part /\ live[p] # "none"
      <4>1. aside'[p] = aside[p] \cup {live[p]}
        BY <2>2, <3>1 DEF move_aside
      <4>2. QED
        BY <4>1
    <3>2. CASE ~(p = restore.part /\ live[p] # "none")
      <4>1. live'[p] = live[p] /\ aside'[p] = aside[p]
        BY <2>2, <3>2 DEF move_aside
      <4>2. QED
        BY <4>1
    <3>3. QED
      BY <3>1, <3>2
  <2>3. CASE copy_begin
    BY <2>3 DEF copy_begin
  <2>4. CASE copy_end
    BY <2>4 DEF copy_end
  <2>5. CASE smoke_checks
    BY <2>5 DEF smoke_checks
  <2>6. CASE clean_up
    BY <2>6 DEF clean_up
  <2>7. CASE RestoreFails
    BY <2>7 DEF RestoreFails
  <2>8. CASE StartApi
    BY <2>8 DEF StartApi
  <2>9. CASE StopApi
    BY <2>9 DEF StopApi
  <2>10. QED
    BY <2>1, <2>2, <2>3, <2>4, <2>5, <2>6, <2>7, <2>8, <2>9 DEF RestoreNext
<1>2. QED
  BY <1>1, RestoreInvariant, PTL DEF RestoreSpec, OriginalKept

=============================================================================
