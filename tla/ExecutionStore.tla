-------------------------- MODULE ExecutionStore --------------------------
(***************************************************************************)
(* The execution store of the native core                                  *)
(* (interest_growth_native/execution_store.py and the table of             *)
(* migrations/0011_native_execution_state.sql): one checkpoint row per     *)
(* tutor run and one append-only event log.  Every method of the class     *)
(* opens its own connection and commits, so each operator below that       *)
(* changes `row' or `log' is one step, and any number of steps of other    *)
(* threads may fall between two of them.                                   *)
(*                                                                         *)
(* Data is kept only as far as the properties tell it apart: the answer    *)
(* text of a run is the number of answer chunks in it, the messages of an  *)
(* execution snapshot are the number of tool-role messages in them.        *)
(***************************************************************************)
EXTENDS Naturals, Sequences, FiniteSets

CONSTANTS
  Runs,       \* ids create_run may draw (uuid4, never drawn twice)
  Sessions,   \* (area_id, session_id) pairs
  Tools,      \* tool names a context may grant
  AskUser,    \* the ask_user tool, granted in every context
  NoRun       \* absent parent_run_id, and "no run" in a thread's frame

ASSUME StoreAssumption == /\ AskUser \notin Tools
                          /\ NoRun \notin Runs
                          /\ Sessions # {}

Active   == {"running", "waiting_input"}
Terminal == {"completed", "cancelled", "error"}
States   == {"absent"} \cup Active \cup Terminal

\* What a context may grant: capability and permission checks leave any set of
\* tools, and ask_user is always added.
Grants == {G \cup {AskUser} : G \in SUBSET Tools}

Row == [state   : States,
        session : Sessions,
        version : Nat,
        text    : Nat,           \* answer chunks in assistant_text
        results : Nat,           \* tool messages in the execution snapshot
        grants  : SUBSET (Tools \cup {AskUser}),
        parent  : Runs \cup {NoRun}]

\* A run id nobody has drawn.  Its session means nothing.
AbsentRow == [state |-> "absent", session |-> CHOOSE s \in Sessions : TRUE,
              version |-> 0, text |-> 0, results |-> 0, grants |-> {},
              parent |-> NoRun]

EventKinds == {"run_started", "run_resumed", "run_regenerated", "run_cancelled",
               "answer_delta", "tool_result", "wait_for_input",
               "result", "error", "done_completed", "done_cancelled", "done_error"}

VARIABLES
  row,        \* native_tutor_checkpoint, by run id
  log         \* native_run_event, by run id: the kinds in seq order

StoreInit == /\ row = [r \in Runs |-> AbsentRow]
             /\ log = [r \in Runs |-> << >>]

IsActive(r) == row[r].state \in Active

\* Mutant of CreateRun: no unique index on the session.
CreateRunUnchecked(r, s, grants, parent) ==
  /\ row[r].state = "absent"
  /\ row' = [row EXCEPT ![r] = [state |-> "running", session |-> s, version |-> 0,
                                text |-> 0, results |-> 0, grants |-> grants,
                                parent |-> parent]]

\* create_run: the INSERT fails on the unique partial index when the session
\* already has an active row.
CreateRun(r, s, grants, parent) ==
  /\ row[r].state = "absent"
  /\ ~ \E q \in Runs : IsActive(q) /\ row[q].session = s
  /\ row' = [row EXCEPT ![r] = [state |-> "running", session |-> s, version |-> 0,
                                text |-> 0, results |-> 0, grants |-> grants,
                                parent |-> parent]]

\* Mutant of Matches: the version is not compared.
MatchesAnyVersion(r, copy, from) == row[r].state \in from

\* The WHERE clause of transition and update_snapshot, on the copy the caller
\* loaded earlier.
Matches(r, copy, from) ==
  /\ row[r].version = copy.version
  /\ row[r].state \in from

\* Row r after one write: a write adds one to the version.
Written(r, to, text, results, grants) ==
  [state |-> to, session |-> row[r].session, version |-> row[r].version + 1,
   text |-> text, results |-> results, grants |-> grants, parent |-> row[r].parent]

\* transition, when its UPDATE matched.
Transition(r, copy, from, to, text, results, grants) ==
  /\ Matches(r, copy, from)
  /\ row' = [row EXCEPT ![r] = Written(r, to, text, results, grants)]

\* transition without a new snapshot: cancel, _fail and the stale-run recovery.
Terminate(r, copy, from, to) ==
  /\ Matches(r, copy, from)
  /\ row' = [row EXCEPT ![r] = Written(r, to, copy.text, row[r].results, row[r].grants)]

\* update_snapshot, when its UPDATE matched.
UpdateSnapshot(r, copy, text, results, grants) ==
  Transition(r, copy, {"running"}, "running", text, results, grants)

Append1(r, kind) == log' = [log EXCEPT ![r] = Append(@, kind)]

\* How many events of these kinds the log of r holds.
Count(r, kinds) == Cardinality({i \in DOMAIN log[r] : log[r][i] \in kinds})

Logged(r, kind) == \E i \in DOMAIN log[r] : log[r][i] = kind
============================================================================
