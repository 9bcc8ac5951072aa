--------------------------- MODULE MaintenanceLock ---------------------------
(***************************************************************************)
(* pg_api/maintenance.py: in each process a gate counts readers and a      *)
(* writer; a thread let through opens the lock file and takes flock on its *)
(* own handle, which also excludes the other processes.  Both waits may    *)
(* time out; on the way out the handle is brought back to a shared lock    *)
(* (without a timeout), closed, and the gate released.                     *)
(*                                                                         *)
(* No caller takes the lock while it holds it: the per-thread counts are   *)
(* never above one and their re-entrant branches are left out.             *)
(***************************************************************************)
EXTENDS Naturals, FiniteSets

CONSTANTS
  Threads,  \* threads of all processes
  Processes,
  ProcessOf \* thread -> its process

ASSUME LockAssumption == ProcessOf \in [Threads -> Processes] /\ IsFiniteSet(Threads)

VARIABLES
  gate,   \* process -> its gate: _readers and _writer
  holder, \* thread -> where it is in maintenance_lock
  flock,  \* thread -> lock its handle has on the file
  leaked  \* processes in which open failed behind the gate

lockvars == <<gate, holder, flock, leaked>>

NoMode == "none"
Outside == [at |-> "out", mode |-> NoMode]
OpenGate == [readers |-> 0, writer |-> FALSE]

LockTypeOK ==
  /\ gate \in [Processes -> [readers : 0 .. Cardinality(Threads) + 1, writer : BOOLEAN]]
  /\ holder \in [Threads -> [at : {"out", "gated", "opened", "inside", "leaving", "closing", "closed"},
                             mode : {NoMode, "shared", "exclusive"}]]
  /\ flock \in [Threads -> {NoMode, "shared", "exclusive"}]
  /\ leaked \subseteq Processes

LockInit == /\ gate = [r \in Processes |-> OpenGate]
            /\ holder = [t \in Threads |-> Outside]
            /\ flock = [t \in Threads |-> NoMode]
            /\ leaked = {}

\* flock: may t have this lock beside those of the other handles?
Grants(t, mode) ==
  \A u \in Threads \ {t} : flock[u] # "exclusive" /\ (mode = "exclusive" => flock[u] = NoMode)

Goes(t, at) == holder' = [holder EXCEPT ![t].at = at]

-----------------------------------------------------------------------------
\* A caller waits until the gate lets it through; one that gives up first changes nothing.
acquire_in_process(t, mode) ==
  LET g == gate[ProcessOf[t]]
  IN /\ holder[t] = Outside
     /\ ~g.writer /\ (mode = "exclusive" => g.readers = 0)
     /\ gate' = [gate EXCEPT ![ProcessOf[t]] =
                   IF mode = "exclusive" THEN [g EXCEPT !.writer = TRUE] ELSE [g EXCEPT !.readers = @ + 1]]
     /\ holder' = [holder EXCEPT ![t] = [at |-> "gated", mode |-> mode]]
     /\ UNCHANGED <<flock, leaked>>

\* open(...) stands before the try: when it fails, nobody releases the gate (bound: one failure in the
\* life of a process).
OpenHandle(t) ==
  /\ holder[t].at = "gated"
  /\ \/ Goes(t, "opened") /\ UNCHANGED leaked
     \/ ProcessOf[t] \notin leaked /\ holder' = [holder EXCEPT ![t] = Outside] /\ leaked' = leaked \cup {ProcessOf[t]}
  /\ UNCHANGED <<gate, flock>>

\* For a mutant: an exclusive lock is asked for as a shared one.
flock_shared(t) ==
  /\ holder[t].at = "opened" /\ Grants(t, "shared")
  /\ flock' = [flock EXCEPT ![t] = "shared"]
  /\ Goes(t, "inside") /\ UNCHANGED <<gate, leaked>>

flock_fd(t) ==
  /\ holder[t].at = "opened" /\ Grants(t, holder[t].mode)
  /\ flock' = [flock EXCEPT ![t] = holder[t].mode]
  /\ Goes(t, "inside") /\ UNCHANGED <<gate, leaked>>

\* For a mutant: the gate stays taken when the wait times out.
flock_timeout_out(t) ==
  /\ holder[t].at = "opened" /\ ~Grants(t, holder[t].mode)
  /\ holder' = [holder EXCEPT ![t] = Outside]
  /\ UNCHANGED <<gate, flock, leaked>>

flock_fd_timeout(t) ==
  /\ holder[t].at = "opened" /\ ~Grants(t, holder[t].mode)
  /\ Goes(t, "leaving") /\ UNCHANGED <<gate, flock, leaked>>

\* The body returned or raised; flock gives up an exclusive lock before it takes the shared one.
FinishBody(t) ==
  /\ holder[t].at = "inside"
  /\ Goes(t, "leaving")
  /\ flock' = [flock EXCEPT ![t] = IF @ = "exclusive" THEN NoMode ELSE @]
  /\ UNCHANGED <<gate, leaked>>

Downgrade(t) ==
  /\ holder[t].at = "leaving" /\ (flock[t] = "shared" \/ Grants(t, "shared"))
  /\ flock' = [flock EXCEPT ![t] = "shared"]
  /\ Goes(t, "closing") /\ UNCHANGED <<gate, leaked>>

CloseHandle(t) ==
  /\ holder[t].at = "closing"
  /\ flock' = [flock EXCEPT ![t] = NoMode]
  /\ Goes(t, "closed") /\ UNCHANGED <<gate, leaked>>

release_in_process(t) ==
  LET g == gate[ProcessOf[t]]
  IN /\ holder[t].at = "closed"
     /\ gate' = [gate EXCEPT ![ProcessOf[t]] = IF holder[t].mode = "exclusive" THEN [g EXCEPT !.writer = FALSE]
                                               ELSE [g EXCEPT !.readers = @ - 1]]
     /\ holder' = [holder EXCEPT ![t] = Outside]
     /\ UNCHANGED <<flock, leaked>>

\* A process ends: the system closes its handles; a new one starts with an open gate.
ProcessEnds(r) ==
  LET S == {t \in Threads : ProcessOf[t] = r}
  IN /\ gate' = [gate EXCEPT ![r] = OpenGate]
     /\ holder' = [t \in Threads |-> IF t \in S THEN Outside ELSE holder[t]]
     /\ flock' = [t \in Threads |-> IF t \in S THEN NoMode ELSE flock[t]]
     /\ leaked' = leaked \ {r}

LockNext ==
  \/ \E t \in Threads :
       \/ \E mode \in {"shared", "exclusive"} : acquire_in_process(t, mode)
       \/ OpenHandle(t) \/ flock_fd(t) \/ flock_fd_timeout(t) \/ FinishBody(t)
       \/ Downgrade(t) \/ CloseHandle(t) \/ release_in_process(t)
  \/ \E r \in Processes : ProcessEnds(r)

LockSpec == LockInit /\ [][LockNext]_lockvars

-----------------------------------------------------------------------------
(* Properties. *)

Holds == [t \in Threads |-> IF holder[t].at = "inside" THEN holder[t].mode ELSE NoMode]
Section == INSTANCE MaintenanceSection WITH Actors <- Threads, section <- Holds

\* The two locks together, over several processes, timeouts, failing opens and processes that end,
\* implement the section: a backup or restore inside maintenance_lock is alone
\* (pg_api/maintenance.py: maintenance_lock).
LockImplementsSection == Section!SectionSpec

\* Once no thread of a process is in maintenance_lock its gate is open again, whatever timed out or
\* raised on the way, unless opening the lock file failed (pg_api/maintenance.py: the finally clauses).
GateReopens ==
  \A r \in Processes : (r \notin leaked /\ \A t \in Threads : ProcessOf[t] = r => holder[t] = Outside)
                         => gate[r] = OpenGate
=============================================================================
