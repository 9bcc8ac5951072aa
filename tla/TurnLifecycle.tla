--------------------------- MODULE TurnLifecycle ---------------------------
(***************************************************************************)
(* What the native tutor promises about a turn, whatever threads, model    *)
(* providers, cancellations and restarts do: a session has at most one     *)
(* turn in progress, an answer only grows, an answer grows only while the  *)
(* turn runs, and nothing about a turn changes once it has an outcome.     *)
(***************************************************************************)
EXTENDS Naturals

CONSTANTS Runs, Sessions

VARIABLES phase,     \* "absent", "running", "waiting_input" or an outcome
          owner,     \* the session a turn belongs to
          answer     \* chunks of the answer the turn has committed

tvars == <<phase, owner, answer>>

Outcomes == {"completed", "cancelled", "error"}
InProgress(r) == phase[r] \in {"running", "waiting_input"}

Init == /\ phase  = [r \in Runs |-> "absent"]
        /\ owner \in [Runs -> Sessions]
        /\ answer = [r \in Runs |-> 0]

Open(r, s) ==
  /\ phase[r] = "absent"
  /\ ~ \E q \in Runs : InProgress(q) /\ owner[q] = s
  /\ phase' = [phase EXCEPT ![r] = "running"]
  /\ owner' = [owner EXCEPT ![r] = s]
  /\ UNCHANGED answer

\* A running turn commits an answer at least as long and keeps running, asks the
\* user, or completes.
Advance(r) ==
  /\ phase[r] = "running"
  /\ answer' = [answer EXCEPT ![r] = answer'[r]]
  /\ answer'[r] \in Nat
  /\ answer'[r] >= answer[r]
  /\ \E p \in {"running", "waiting_input", "completed"} :
        phase' = [phase EXCEPT ![r] = p]
  /\ UNCHANGED owner

Reply(r) ==
  /\ phase[r] = "waiting_input"
  /\ phase' = [phase EXCEPT ![r] = "running"]
  /\ UNCHANGED <<owner, answer>>

\* A cancellation or a failure commits nothing new.
Abort(r) ==
  /\ \/ InProgress(r) /\ phase' = [phase EXCEPT ![r] = "cancelled"]
     \/ phase[r] = "running" /\ phase' = [phase EXCEPT ![r] = "error"]
  /\ UNCHANGED <<owner, answer>>

Next == \E r \in Runs : \/ \E s \in Sessions : Open(r, s)
                        \/ Advance(r)
                        \/ Reply(r)
                        \/ Abort(r)

Spec == Init /\ [][Next]_tvars
============================================================================
