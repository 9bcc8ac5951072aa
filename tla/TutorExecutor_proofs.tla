----------------------- MODULE TutorExecutor_proofs -----------------------
(***************************************************************************)
(* Theorems about TutorExecutor, for any number of threads, runs, sessions *)
(* and tools.                                                              *)
(***************************************************************************)
EXTENDS TutorExecutor, TLAPS

-----------------------------------------------------------------------------
(* Types. *)

LEMMA AbsentRowType == AbsentRow \in Row
<1>1. (CHOOSE s \in Sessions : TRUE) \in Sessions
  BY StoreAssumption
<1>2. QED
  BY <1>1 DEF AbsentRow, Row, States

LEMMA NoJobType == NoJob \in Job
  BY DEF NoJob, Job

LEMMA NoCopiesType == NoCopies \in [Runs -> Row]
  BY AbsentRowType DEF NoCopies

LEMMA Append1Type ==
  ASSUME TypeOK, NEW r \in Runs, NEW k \in EventKinds, Append1(r, k)
  PROVE  log' \in [Runs -> Seq(EventKinds)]
  BY DEF TypeOK, Append1

LEMMA WrittenType ==
  ASSUME TypeOK, NEW r \in Runs, NEW to \in States, NEW x \in Nat, NEW n \in Nat,
         NEW g \in SUBSET (Tools \cup {AskUser})
  PROVE  Written(r, to, x, n, g) \in Row
  BY DEF TypeOK, Written, Row

LEMMA TransitionType ==
  ASSUME TypeOK, NEW r \in Runs, NEW c \in Row, NEW from, NEW to \in States,
         NEW x \in Nat, NEW n \in Nat, NEW g \in SUBSET (Tools \cup {AskUser}),
         Transition(r, c, from, to, x, n, g)
  PROVE  row' \in [Runs -> Row]
  BY WrittenType DEF TypeOK, Transition

LEMMA TerminateType ==
  ASSUME TypeOK, NEW r \in Runs, NEW c \in Row, NEW from, NEW to \in States,
         Terminate(r, c, from, to)
  PROVE  row' \in [Runs -> Row]
<1>1. row[r].results \in Nat /\ row[r].grants \in SUBSET (Tools \cup {AskUser}) /\ c.text \in Nat
  BY DEF TypeOK, Row
<1>2. QED
  BY <1>1, WrittenType DEF TypeOK, Terminate

\* The part of TypeOK about the threads.
FrameOK ==
  /\ pc \in [Threads -> Steps]
  /\ cur \in [Threads -> Runs \cup {NoRun}]
  /\ held \in [Threads -> [Runs -> Row]]
  /\ job \in [Threads -> Job]
  /\ \A t \in Threads : /\ pc[t] \notin {"idle", "build", "recover"} => cur[t] \in Runs
                        /\ pc[t] \in {"tool", "ask"} => job[t].calls # << >>

LEMMA ReturnType ==
  ASSUME TypeOK, NEW t \in Threads, Return(t)
  PROVE  FrameOK'
  BY NoCopiesType, NoJobType DEF TypeOK, Return, FrameOK, Steps

LEMMA RaiseType ==
  ASSUME TypeOK, NEW t \in Threads, Raise(t), cur[t] \in Runs
  PROVE  FrameOK'
  BY NoCopiesType, NoJobType
  DEF TypeOK, Raise, Goto, Forget, SetJob, FrameOK, Steps, TailSteps

LEMMA GotoType ==
  ASSUME TypeOK, NEW t \in Threads, cur[t] \in Runs, NEW s \in Steps \ {"tool", "ask"},
         Goto(t, s), UNCHANGED <<cur, held, job>>
  PROVE  FrameOK'
  BY DEF TypeOK, Goto, FrameOK

LEMMA CallListsType == CallLists \subseteq Seq(Tools \cup {AskUser, Ungranted})
  BY ExecutorAssumption DEF CallLists

\* A step on the frame alone that sets the locals.
LEMMA SetJobType ==
  ASSUME TypeOK, NEW t \in Threads, NEW s \in Steps, NEW j \in Job, cur[t] \in Runs,
         s \in {"tool", "ask"} => j.calls # << >>,
         Goto(t, s), SetJob(t, j), UNCHANGED cur,
         UNCHANGED held \/ Load(t, cur[t]) \/ Forget(t)
  PROVE  FrameOK'
<1>1. held' \in [Threads -> [Runs -> Row]]
  <2>1. held \in [Threads -> [Runs -> Row]] /\ row[cur[t]] \in Row
    BY DEF TypeOK
  <2>2. CASE UNCHANGED held
    BY <2>1, <2>2
  <2>3. CASE Load(t, cur[t])
    BY <2>1, <2>3 DEF Load
  <2>4. CASE Forget(t)
    BY <2>1, <2>4, NoCopiesType DEF Forget
  <2>5. QED
    BY <2>2, <2>3, <2>4
<1>2. /\ pc' \in [Threads -> Steps]
      /\ job' \in [Threads -> Job]
      /\ cur' \in [Threads -> Runs \cup {NoRun}]
  BY DEF TypeOK, Goto, SetJob
<1>3. ASSUME NEW u \in Threads
      PROVE  /\ pc'[u] \notin {"idle", "build", "recover"} => cur'[u] \in Runs
             /\ pc'[u] \in {"tool", "ask"} => job'[u].calls # << >>
  BY DEF TypeOK, Goto, SetJob
<1>4. QED
  BY <1>1, <1>2, <1>3 DEF FrameOK

LEMMA JobRoundType ==
  ASSUME NEW j \in Job, NEW k \in Seq(Tools \cup {AskUser, Ungranted}),
         NEW f \in {"stop", "length"}, NEW n \in Nat
  PROVE  [j EXCEPT !.calls = k, !.finish = f, !.chunks = n] \in Job
  BY DEF Job

LEMMA EndRoundType ==
  ASSUME TypeOK, NEW t \in Threads, cur[t] \in Runs, NEW v \in BOOLEAN, NEW k \in CallLists,
         NEW f \in {"stop", "length"}, EndRound(t, v, k, f), UNCHANGED <<cur, held>>
  PROVE  FrameOK'
<1> job[t].chunks \in Nat
  BY DEF TypeOK, Job
<1>1. PICK n \in Nat : n = IF v THEN job[t].chunks + 1 ELSE job[t].chunks
  OBVIOUS
<1>2. job[t] \in Job /\ k \in Seq(Tools \cup {AskUser, Ungranted})
  BY CallListsType DEF TypeOK
<1>3. [job[t] EXCEPT !.calls = k, !.finish = f, !.chunks = n] \in Job
  BY <1>2, JobRoundType
<1>4. SetJob(t, [job[t] EXCEPT !.calls = k, !.finish = f, !.chunks = n])
  BY <1>1 DEF EndRound
<1>5. PICK s \in {"flush", "settle"} : Goto(t, s)
  BY DEF EndRound
<1>6. QED
  BY <1>3, <1>4, <1>5, SetJobType DEF Steps, LoopSteps

LEMMA EmitType ==
  ASSUME TypeOK, NEW t \in Threads, cur[t] \in Runs, NEW s \in Steps \ {"tool", "ask"},
         NEW k \in EventKinds, Emit(t, s, k)
  PROVE  FrameOK' /\ row' = row /\ log' \in [Runs -> Seq(EventKinds)]
  BY Append1Type, GotoType DEF Emit

LEMMA EmitLastType ==
  ASSUME TypeOK, NEW t \in Threads, cur[t] \in Runs, NEW k \in EventKinds, EmitLast(t, k)
  PROVE  FrameOK' /\ row' = row /\ log' \in [Runs -> Seq(EventKinds)]
  BY Append1Type, ReturnType DEF EmitLast

\* TypeOK of the next state, from its parts.
LEMMA TypeParts ==
  ASSUME FrameOK', row' \in [Runs -> Row], log' \in [Runs -> Seq(EventKinds)],
         bundle' \in BOOLEAN, crashes' \in 0..MaxCrashes
  PROVE  TypeOK'
  BY DEF TypeOK, FrameOK

-----------------------------------------------------------------------------
(* Every action keeps the types. *)

LEMMA InitType == Init => TypeOK
<1> SUFFICES ASSUME Init PROVE TypeOK
  OBVIOUS
<1>1. row \in [Runs -> Row] /\ log \in [Runs -> Seq(EventKinds)]
  BY AbsentRowType DEF Init, StoreInit
<1>2. pc \in [Threads -> Steps] /\ cur \in [Threads -> Runs \cup {NoRun}]
  BY DEF Init, Steps
<1>3. held \in [Threads -> [Runs -> Row]] /\ job \in [Threads -> Job]
  BY NoCopiesType, NoJobType DEF Init
<1>4. bundle \in BOOLEAN /\ crashes \in 0..MaxCrashes
  <2>1. bundle = FALSE /\ crashes = 0
    BY DEF Init
  <2>2. MaxCrashes \in Nat
    BY ExecutorAssumption
  <2>3. crashes \in 0..MaxCrashes
    BY <2>1, <2>2
  <2>4. QED
    BY <2>1, <2>3
<1>5. \A t \in Threads : pc[t] = "idle"
  BY DEF Init
<1>6. QED
  BY <1>1, <1>2, <1>3, <1>4, <1>5 DEF TypeOK

LEMMA BundleType ==
  ASSUME TypeOK, NEW t \in Threads,
         BeginBuild(t) \/ ReadStale(t) \/ RecoverRun(t) \/ EndBuild(t)
  PROVE  TypeOK'
<1>1. CASE BeginBuild(t)
  BY <1>1 DEF TypeOK, BeginBuild, Goto, Process, Steps
<1>2. CASE ReadStale(t)
  <2>1. [r \in Runs |-> IF row[r].state = "running" THEN row[r] ELSE AbsentRow] \in [Runs -> Row]
    BY AbsentRowType DEF TypeOK
  <2>2. QED
    BY <1>2, <2>1 DEF TypeOK, ReadStale, Goto, Process, Steps
<1>3. CASE RecoverRun(t)
  <2>1. PICK r \in Runs :
          /\ held[t][r].state = "running"
          /\ \/ Terminate(r, held[t][r], {"running"}, "error")
             \/ ~ Matches(r, held[t][r], {"running"}) /\ UNCHANGED row
          /\ held' = [held EXCEPT ![t][r] = AbsentRow]
    BY <1>3 DEF RecoverRun
  <2>2. row' \in [Runs -> Row]
    <3>1. held[t][r] \in Row /\ "error" \in States
      BY DEF TypeOK, States, Terminal
    <3>2. CASE Terminate(r, held[t][r], {"running"}, "error")
      BY <3>1, <3>2, TerminateType
    <3>3. QED
      BY <2>1, <3>2 DEF TypeOK
  <2>3. FrameOK'
    BY <1>3, <2>1, AbsentRowType DEF TypeOK, FrameOK, RecoverRun
  <2>4. QED
    BY <1>3, <2>2, <2>3, TypeParts DEF TypeOK, RecoverRun, Process
<1>4. CASE EndBuild(t)
  BY <1>4, ReturnType, TypeParts DEF TypeOK, EndBuild
<1>5. QED
  BY <1>1, <1>2, <1>3, <1>4

LEMMA RowsOfThread ==
  ASSUME TypeOK, NEW t \in Threads, pc[t] \notin {"idle", "build", "recover"}
  PROVE  /\ cur[t] \in Runs
         /\ held[t][cur[t]] \in Row
         /\ row[cur[t]] \in Row
         /\ job[t] \in Job
  BY DEF TypeOK

\* One row written from the locals of a thread.
LEMMA JobFields ==
  ASSUME NEW j \in Job
  PROVE  /\ j.acc \in Nat /\ j.chunks \in Nat /\ j.results \in Nat
         /\ j.rounds \in Nat /\ j.conts \in Nat
         /\ j.grants \in SUBSET (Tools \cup {AskUser})
         /\ j.calls \in Seq(Tools \cup {AskUser, Ungranted})
  BY DEF Job

LEMMA RowFields ==
  ASSUME NEW c \in Row
  PROVE  /\ c.text \in Nat /\ c.results \in Nat /\ c.version \in Nat
         /\ c.grants \in SUBSET (Tools \cup {AskUser})
         /\ c.state \in States /\ c.session \in Sessions
  BY DEF Row

LEMMA BeginType ==
  ASSUME TypeOK, NEW t \in Threads, Start(t) \/ Regenerate(t)
  PROVE  TypeOK'
<1>1. PICK r \in Runs, s \in Sessions, g \in Grants, p \in Runs \cup {NoRun},
           step \in {"started", "regenerated"} : Begin(t, r, s, g, p, step)
  <2>1. CASE Start(t)
    BY <2>1 DEF Start
  <2>2. CASE Regenerate(t)
    BY <2>2 DEF Regenerate, TypeOK, Row
  <2>3. QED
    BY <2>1, <2>2
<1>2. g \in SUBSET (Tools \cup {AskUser})
  BY DEF Grants
<1>3. row' \in [Runs -> Row]
  <2>1. [state |-> "running", session |-> s, version |-> 0, text |-> 0, results |-> 0,
         grants |-> g, parent |-> p] \in Row
    BY <1>2 DEF Row, States, Active
  <2>2. QED
    BY <1>1, <2>1 DEF Begin, CreateRun, TypeOK
<1>4. FrameOK'
  <2>1. [NoJob EXCEPT !.grants = g] \in Job
    BY <1>2, NoJobType DEF Job
  <2>2. /\ pc' = [pc EXCEPT ![t] = step]
        /\ cur' = [cur EXCEPT ![t] = r]
        /\ held' = held
        /\ job' = [job EXCEPT ![t] = [NoJob EXCEPT !.grants = g]]
    BY <1>1 DEF Begin, Goto, SetJob
  <2>3. step \in Steps
    BY DEF Steps, LoopSteps
  <2>4. QED
    BY <2>1, <2>2, <2>3 DEF TypeOK, FrameOK
<1>5. QED
  BY <1>1, <1>3, <1>4, TypeParts DEF Begin, Process, TypeOK

LEMMA EmitStepsType ==
  ASSUME TypeOK, NEW t \in Threads,
         \/ EmitBegun(t) \/ EmitCancelled(t) \/ EmitDelta(t) \/ Flush(t)
         \/ EmitResult(t) \/ EmitWait(t) \/ EmitError(t)
  PROVE  TypeOK'
<1>1. bundle' = bundle /\ crashes' = crashes
  BY DEF EmitBegun, EmitCancelled, EmitDelta, Flush, EmitResult, EmitWait, EmitError, Process
<1>2. cur[t] \in Runs
  BY RowsOfThread DEF EmitBegun, EmitCancelled, EmitDelta, Flush, EmitResult, EmitWait, EmitError
<1>3. \/ \E s \in Steps \ {"tool", "ask"}, k \in EventKinds : Emit(t, s, k)
      \/ \E k \in EventKinds : EmitLast(t, k)
  BY DEF EmitBegun, EmitCancelled, EmitDelta, Flush, EmitResult, EmitWait, EmitError,
         Steps, LoopSteps, TailSteps, EventKinds
<1>4. FrameOK' /\ row' = row /\ log' \in [Runs -> Seq(EventKinds)]
  BY <1>2, <1>3, EmitType, EmitLastType
<1>5. QED
  BY <1>1, <1>4, TypeParts DEF TypeOK

LEMMA CrashType ==
  ASSUME TypeOK, Crash
  PROVE  TypeOK'
<1>1. FrameOK'
  BY NoCopiesType, NoJobType DEF Crash, FrameOK, Steps
<1>2. crashes' \in 0..MaxCrashes
  BY ExecutorAssumption DEF TypeOK, Crash
<1>3. QED
  BY <1>1, <1>2, TypeParts DEF TypeOK, Crash

\* The new locals of the steps that count.
LEMMA JobUpdates ==
  ASSUME NEW j \in Job
  PROVE  /\ [j EXCEPT !.rounds = @ + 1] \in Job
         /\ [j EXCEPT !.chunks = @ + 1] \in Job
         /\ [j EXCEPT !.chunks = 0] \in Job
<1>1. j.rounds + 1 \in Nat /\ j.chunks + 1 \in Nat
  BY DEF Job
<1>2. QED
  BY <1>1 DEF Job

LEMMA JobResumed ==
  ASSUME NEW j \in Job, NEW x \in Nat, NEW n \in Nat, NEW g \in SUBSET (Tools \cup {AskUser})
  PROVE  [j EXCEPT !.acc = x, !.results = n, !.grants = g] \in Job
  BY DEF Job

LEMMA ResumeType ==
  ASSUME TypeOK, NEW t \in Threads, ResumeLoad(t) \/ ResumeCas(t)
  PROVE  TypeOK'
<1>1. CASE ResumeLoad(t)
  <2>1. PICK r \in Runs, g \in Grants :
          /\ Goto(t, "resume")
          /\ cur' = [cur EXCEPT ![t] = r]
          /\ Load(t, r)
          /\ SetJob(t, [NoJob EXCEPT !.acc = row[r].text,
                                     !.results = row[r].results + 1,
                                     !.grants = row[r].grants \cap g])
    BY <1>1 DEF ResumeLoad
  <2>2. PICK j \in Job : SetJob(t, j)
    <3>1. /\ row[r].text \in Nat
          /\ row[r].results + 1 \in Nat
          /\ row[r].grants \cap g \in SUBSET (Tools \cup {AskUser})
      BY DEF TypeOK, Row
    <3>2. [NoJob EXCEPT !.acc = row[r].text, !.results = row[r].results + 1,
                        !.grants = row[r].grants \cap g] \in Job
      BY <3>1, JobResumed, NoJobType
    <3>3. QED
      BY <2>1, <3>2
  <2>3. FrameOK'
    <3>1. "resume" \in Steps
      BY DEF Steps
    <3>2. QED
      BY <2>1, <2>2, <3>1 DEF TypeOK, FrameOK, Goto, SetJob, Load
  <2>4. QED
    BY <1>1, <2>3, TypeParts DEF TypeOK, ResumeLoad, Process
<1>2. CASE ResumeCas(t)
  <2> DEFINE r == cur[t]
             c == held[t][r]
  <2>1. r \in Runs /\ c \in Row /\ job[t] \in Job
    BY <1>2, RowsOfThread DEF ResumeCas
  <2>2. CASE ~ Matches(r, c, {"waiting_input"}) /\ Return(t) /\ UNCHANGED row
    BY <1>2, <2>2, ReturnType, TypeParts DEF TypeOK, ResumeCas, Process
  <2>3. CASE /\ Transition(r, c, {"waiting_input"}, "running", c.text, job[t].results, job[t].grants)
             /\ Goto(t, "resumed")
             /\ Forget(t)
             /\ UNCHANGED <<cur, job>>
    <3>1. row' \in [Runs -> Row]
      BY <2>1, <2>3, TransitionType, RowFields, JobFields DEF States, Active
    <3>2. FrameOK'
      BY <2>1, <2>3, NoCopiesType DEF TypeOK, FrameOK, Goto, Forget, Steps, LoopSteps
    <3>3. QED
      BY <1>2, <3>1, <3>2, TypeParts DEF TypeOK, ResumeCas, Process
  <2>4. QED
    BY <1>2, <2>2, <2>3 DEF ResumeCas
<1>3. QED
  BY <1>1, <1>2

LEMMA CancelType ==
  ASSUME TypeOK, NEW t \in Threads, CancelLoad(t) \/ CancelCas(t)
  PROVE  TypeOK'
<1>1. CASE CancelLoad(t)
  <2>1. PICK r \in Runs : Goto(t, "cancel") /\ cur' = [cur EXCEPT ![t] = r] /\ Load(t, r)
    BY <1>1 DEF CancelLoad
  <2>2. "cancel" \in Steps
    BY DEF Steps
  <2>3. FrameOK'
    BY <1>1, <2>1, <2>2 DEF TypeOK, FrameOK, CancelLoad, Goto, Load
  <2>4. QED
    BY <1>1, <2>3, TypeParts DEF TypeOK, CancelLoad, Process
<1>2. CASE CancelCas(t)
  <2> DEFINE r == cur[t]
             c == held[t][r]
  <2>1. r \in Runs /\ c \in Row
    BY <1>2, RowsOfThread DEF CancelCas
  <2>2. CASE ~ Matches(r, c, {c.state}) /\ Return(t) /\ UNCHANGED row
    BY <1>2, <2>2, ReturnType, TypeParts DEF TypeOK, CancelCas, Process
  <2>3. CASE /\ Terminate(r, c, {c.state}, "cancelled")
             /\ Goto(t, "emit_cancel")
             /\ Forget(t)
             /\ UNCHANGED <<cur, job>>
    <3>1. row' \in [Runs -> Row]
      BY <2>1, <2>3, TerminateType DEF States, Terminal
    <3>2. FrameOK'
      BY <2>1, <2>3, NoCopiesType DEF TypeOK, FrameOK, Goto, Forget, Steps
    <3>3. QED
      BY <1>2, <3>1, <3>2, TypeParts DEF TypeOK, CancelCas, Process
  <2>4. QED
    BY <1>2, <2>2, <2>3 DEF CancelCas
<1>3. QED
  BY <1>1, <1>2

LEMMA RoundType ==
  ASSUME TypeOK, NEW t \in Threads,
         \/ BeginRound(t) \/ StreamItem(t) \/ StreamEnd(t) \/ StreamTypeError(t)
         \/ Complete(t) \/ ProviderError(t)
  PROVE  TypeOK'
<1>1. cur[t] \in Runs /\ job[t] \in Job
  BY RowsOfThread
  DEF BeginRound, StreamItem, StreamEnd, StreamTypeError, Complete, ProviderError
<1>2. /\ UNCHANGED <<row, log, bundle, crashes>>
      /\ \/ Return(t) \/ Raise(t)
         \/ UNCHANGED <<cur, held>> /\ \E j \in Job, s \in LoopSteps \ {"tool", "ask"} :
                                          Goto(t, s) /\ SetJob(t, j)
         \/ UNCHANGED <<cur, held, job>> /\ Goto(t, "complete")
         \/ UNCHANGED <<cur, held>> /\ \E v \in BOOLEAN, k \in CallLists, f \in {"stop", "length"} :
                                          EndRound(t, v, k, f)
  <2>1. /\ [job[t] EXCEPT !.rounds = @ + 1] \in Job
        /\ [job[t] EXCEPT !.chunks = @ + 1] \in Job
        /\ [job[t] EXCEPT !.chunks = 0] \in Job
    BY <1>1, JobUpdates
  <2>2. CASE BeginRound(t)
    BY <2>1, <2>2 DEF BeginRound, StopIfCancelled, Process, LoopSteps
  <2>3. CASE StreamItem(t)
    BY <2>1, <2>3 DEF StreamItem, DropRound, Process, LoopSteps
  <2>4. CASE StreamEnd(t)
    BY <2>4 DEF StreamEnd, Process
  <2>5. CASE StreamTypeError(t)
    BY <2>5 DEF StreamTypeError, Process
  <2>6. CASE Complete(t)
    BY <2>1, <2>6 DEF Complete, DropRound, Process, LoopSteps
  <2>7. CASE ProviderError(t)
    BY <2>7 DEF ProviderError, Process
  <2>8. QED
    BY <2>2, <2>3, <2>4, <2>5, <2>6, <2>7
<1>3. FrameOK'
  <2>1. CASE UNCHANGED <<cur, held>> /\ \E j \in Job, s \in LoopSteps \ {"tool", "ask"} :
                                          Goto(t, s) /\ SetJob(t, j)
    BY <1>1, <2>1, SetJobType DEF Steps
  <2>2. CASE UNCHANGED <<cur, held, job>> /\ Goto(t, "complete")
    BY <1>1, <2>2, GotoType DEF Steps, LoopSteps
  <2>3. QED
    BY <1>1, <1>2, <2>1, <2>2, ReturnType, RaiseType, EndRoundType
<1>4. QED
  BY <1>2, <1>3, TypeParts DEF TypeOK

LEMMA JobSettled ==
  ASSUME NEW j \in Job, NEW a \in Nat, NEW n \in Nat
  PROVE  [j EXCEPT !.acc = a, !.chunks = 0, !.finish = "stop", !.conts = n] \in Job
  BY DEF Job

LEMMA JobAfterTool ==
  ASSUME NEW j \in Job, j.calls # << >>
  PROVE  [j EXCEPT !.results = j.results + 1, !.calls = Tail(j.calls)] \in Job
<1>1. j.results + 1 \in Nat /\ Tail(j.calls) \in Seq(Tools \cup {AskUser, Ungranted})
  BY DEF Job
<1>2. QED
  BY <1>1 DEF Job

LEMMA SettleType ==
  ASSUME TypeOK, NEW t \in Threads, Settle(t)
  PROVE  TypeOK'
<1>1. cur[t] \in Runs /\ job[t] \in Job
  BY RowsOfThread DEF Settle
<1>2. CASE StopIfCancelled(t)
  BY <1>2, ReturnType, TypeParts DEF TypeOK, Settle, StopIfCancelled, Process
<1>3. CASE ~ Cancelled(t)
  <2>1. PICK n \in Nat, s \in {"calls", "continue", "finish"} :
          /\ Load(t, cur[t])
          /\ SetJob(t, [job[t] EXCEPT !.acc = job[t].acc + job[t].chunks, !.chunks = 0,
                                      !.finish = "stop", !.conts = n])
          /\ Goto(t, s)
          /\ UNCHANGED <<row, log, cur>>
    <3> DEFINE more == job[t].calls = << >> /\ job[t].finish = "length" /\ job[t].conts < MaxConts
               n == IF more THEN job[t].conts + 1 ELSE job[t].conts
               s == IF job[t].calls # << >> THEN "calls" ELSE IF more THEN "continue" ELSE "finish"
    <3>1. n \in Nat
      BY <1>1 DEF Job
    <3>2. s \in {"calls", "continue", "finish"}
      OBVIOUS
    <3>3. /\ Load(t, cur[t])
          /\ SetJob(t, [job[t] EXCEPT !.acc = job[t].acc + job[t].chunks, !.chunks = 0,
                                      !.finish = "stop", !.conts = n])
          /\ Goto(t, s)
          /\ UNCHANGED <<row, log, cur>>
      BY <1>3 DEF Settle, StopIfCancelled
    <3>4. QED
      BY <3>1, <3>2, <3>3
  <2>2. [job[t] EXCEPT !.acc = job[t].acc + job[t].chunks, !.chunks = 0,
                       !.finish = "stop", !.conts = n] \in Job
    <3>1. job[t].acc + job[t].chunks \in Nat
      BY <1>1 DEF Job
    <3>2. QED
      BY <1>1, <3>1, JobSettled
  <2>3. FrameOK'
    BY <1>1, <2>1, <2>2, SetJobType DEF Steps, LoopSteps
  <2>4. QED
    BY <2>1, <2>3, TypeParts DEF TypeOK, Settle, Process
<1>4. QED
  BY <1>2, <1>3 DEF Settle

LEMMA SaveType ==
  ASSUME TypeOK, NEW t \in Threads, Continue(t) \/ SaveResult(t)
  PROVE  TypeOK'
<1> DEFINE r == cur[t]
           c == held[t][r]
<1>1. /\ r \in Runs /\ c \in Row /\ job[t] \in Job
      /\ UNCHANGED <<log, bundle, crashes>>
  BY RowsOfThread DEF Continue, SaveResult, Process
<1>2. PICK step \in {"round", "calls"} : SaveOr(t, step)
  BY DEF Continue, SaveResult
<1>3. CASE Raise(t) /\ UNCHANGED row
  BY <1>1, <1>3, RaiseType, TypeParts DEF TypeOK
<1>4. CASE /\ UpdateSnapshot(r, c, job[t].acc, job[t].results, job[t].grants)
           /\ Goto(t, step)
           /\ Forget(t)
           /\ UNCHANGED <<cur, job>>
  <2>1. row' \in [Runs -> Row]
    BY <1>1, <1>4, TransitionType, JobFields DEF UpdateSnapshot, States, Active
  <2>2. FrameOK'
    BY <1>1, <1>4, NoCopiesType DEF TypeOK, FrameOK, Goto, Forget, Steps, LoopSteps
  <2>3. QED
    BY <1>1, <2>1, <2>2, TypeParts DEF TypeOK
<1>5. QED
  BY <1>2, <1>3, <1>4 DEF SaveOr

LEMMA RaceType ==
  ASSUME TypeOK, NEW t \in Threads, Finish(t) \/ Ask(t)
  PROVE  TypeOK'
<1> DEFINE r == cur[t]
           c == held[t][r]
           Leave(step) == Goto(t, step) /\ Forget(t) /\ SetJob(t, NoJob) /\ UNCHANGED cur
<1>1. /\ r \in Runs /\ c \in Row /\ job[t] \in Job
      /\ UNCHANGED <<log, bundle, crashes>>
  BY RowsOfThread DEF Finish, Ask, Process
<1>2. PICK to \in {"completed", "waiting_input"}, step \in {"emit_result", "asked"} :
        TransitionOrRace(t, to, step)
  BY DEF Finish, Ask
<1>3. row' \in [Runs -> Row]
  <2>1. CASE Transition(r, c, {"running"}, to, job[t].acc, job[t].results, job[t].grants)
    BY <1>1, <2>1, TransitionType, JobFields DEF States, Active, Terminal
  <2>2. QED
    BY <1>2, <2>1 DEF TransitionOrRace, TypeOK
<1>4. FrameOK'
  <2>1. CASE Leave(step)
    <3>1. step \in Steps /\ step \notin {"tool", "ask"}
      BY DEF Steps, TailSteps
    <3>2. QED
      BY <1>1, <2>1, <3>1, SetJobType, NoJobType
  <2>2. Return(t) \/ Raise(t) \/ Leave(step)
    BY <1>2 DEF TransitionOrRace
  <2>3. QED
    BY <1>1, <2>1, <2>2, ReturnType, RaiseType
<1>5. QED
  BY <1>1, <1>3, <1>4, TypeParts DEF TypeOK

LEMMA CallType ==
  ASSUME TypeOK, NEW t \in Threads, NextCall(t) \/ RunTool(t) \/ Asked(t)
  PROVE  TypeOK'
<1>1. cur[t] \in Runs /\ job[t] \in Job /\ UNCHANGED <<row, bundle, crashes>>
  BY RowsOfThread DEF NextCall, RunTool, Asked, StopIfCancelled, Process
<1>2. CASE NextCall(t)
  <2>1. CASE Goto(t, "round") /\ UNCHANGED <<log, cur, held, job>>
    BY <1>1, <2>1, GotoType, TypeParts DEF TypeOK, Steps, LoopSteps
  <2>2. CASE (Return(t) \/ Raise(t)) /\ UNCHANGED log
    BY <1>1, <2>2, ReturnType, RaiseType, TypeParts DEF TypeOK
  <2>3. CASE /\ job[t].calls # << >>
             /\ Load(t, cur[t])
             /\ \E s \in {"ask", "tool"} : Goto(t, s)
             /\ UNCHANGED <<log, cur, job>>
    <3>1. PICK s \in {"ask", "tool"} : Goto(t, s)
      BY <2>3
    <3>2. s \in Steps
      BY DEF Steps, LoopSteps
    <3>3. SetJob(t, job[t])
      BY <2>3 DEF TypeOK, SetJob
    <3>4. FrameOK'
      BY <1>1, <2>3, <3>1, <3>2, <3>3, SetJobType
    <3>5. QED
      BY <1>1, <2>3, <3>4, TypeParts DEF TypeOK
  <2>4. QED
    BY <1>2, <2>1, <2>2, <2>3 DEF NextCall, StopIfCancelled
<1>3. CASE RunTool(t)
  <2>1. CASE Raise(t) /\ UNCHANGED log
    BY <1>1, <2>1, RaiseType, TypeParts DEF TypeOK
  <2>2. CASE /\ Append1(cur[t], "tool_result")
             /\ SetJob(t, [job[t] EXCEPT !.results = job[t].results + 1,
                                         !.calls = Tail(job[t].calls)])
             /\ Goto(t, "save")
             /\ UNCHANGED <<cur, held>>
    <3>1. log' \in [Runs -> Seq(EventKinds)]
      BY <1>1, <2>2, Append1Type DEF EventKinds
    <3>2. [job[t] EXCEPT !.results = job[t].results + 1, !.calls = Tail(job[t].calls)] \in Job
      BY <1>1, <1>3, JobAfterTool DEF RunTool, TypeOK
    <3>3. FrameOK'
      BY <1>1, <2>2, <3>2, SetJobType DEF Steps, LoopSteps
    <3>4. QED
      BY <1>1, <3>1, <3>3, TypeParts DEF TypeOK
  <2>3. QED
    BY <1>3, <2>1, <2>2 DEF RunTool
<1>4. CASE Asked(t)
  <2>1. CASE StopIfCancelled(t)
    BY <1>1, <2>1, ReturnType, TypeParts DEF TypeOK, StopIfCancelled
  <2>2. CASE Goto(t, "emit_wait") /\ UNCHANGED <<log, cur, held, job>>
    BY <1>1, <2>2, GotoType, TypeParts DEF TypeOK, Steps, TailSteps
  <2>3. QED
    BY <1>4, <2>1, <2>2 DEF Asked
<1>5. QED
  BY <1>2, <1>3, <1>4

LEMMA FailType ==
  ASSUME TypeOK, NEW t \in Threads, FailLoad(t) \/ FailCas(t)
  PROVE  TypeOK'
<1> DEFINE r == cur[t]
           c == held[t][r]
<1>1. /\ r \in Runs /\ c \in Row /\ job[t] \in Job
      /\ UNCHANGED <<log, bundle, crashes>>
  BY RowsOfThread DEF FailLoad, FailCas, Process
<1>2. SetJob(t, job[t]) <=> UNCHANGED job
  BY DEF TypeOK, SetJob
<1>3. row' \in [Runs -> Row]
  <2>1. CASE Terminate(r, c, {"running"}, "error")
    BY <1>1, <2>1, TerminateType DEF States, Terminal
  <2>2. QED
    BY <2>1 DEF FailLoad, FailCas, TypeOK
<1>4. FrameOK'
  <2>1. \/ Return(t)
        \/ /\ Goto(t, "fail_cas") \/ Goto(t, "emit_error")
           /\ UNCHANGED <<cur, job>>
           /\ UNCHANGED held \/ Load(t, cur[t]) \/ Forget(t)
    BY DEF FailLoad, FailCas
  <2>2. CASE /\ Goto(t, "fail_cas") \/ Goto(t, "emit_error")
             /\ UNCHANGED <<cur, job>>
             /\ UNCHANGED held \/ Load(t, cur[t]) \/ Forget(t)
    BY <1>1, <1>2, <2>2, SetJobType DEF Steps, TailSteps
  <2>3. QED
    BY <2>1, <2>2, ReturnType
<1>5. QED
  BY <1>1, <1>3, <1>4, TypeParts DEF TypeOK

LEMMA StepType == TypeOK /\ [Next]_evars => TypeOK'
<1> SUFFICES ASSUME TypeOK, [Next]_evars PROVE TypeOK'
  OBVIOUS
<1>1. CASE UNCHANGED evars
  BY <1>1 DEF TypeOK, evars
<1>2. CASE Crash
  BY <1>2, CrashType
<1>3. ASSUME NEW t \in Threads, BeginBuild(t) \/ Request(t) \/ Execute(t)
      PROVE  TypeOK'
  BY <1>3, BundleType, BeginType, EmitStepsType, ResumeType, CancelType, RoundType,
     SettleType, SaveType, RaceType, CallType, FailType
  DEF Request, Execute
<1>4. QED
  BY <1>1, <1>2, <1>3 DEF Next

\* The store and every thread's frame keep their types, however many threads and
\* runs there are: in particular a thread at a tool call always has a call to make
\* (_run_loop), and one past its first load always has a run.
THEOREM TypeCorrect == Spec => []TypeOK
<1>1. QED
  BY InitType, StepType, PTL DEF Spec

-----------------------------------------------------------------------------
(* One active turn per session. *)

\* A write of the store to a run that exists: it stays in its session, and a run
\* that was not active does not become so.
Rewritten(r) ==
  \E w \in Row : /\ row' = [row EXCEPT ![r] = w]
                 /\ w.session = row[r].session
                 /\ w.state \in Active => IsActive(r)

LEMMA TransitionRewrites ==
  ASSUME TypeOK, NEW r \in Runs, NEW c \in Row, NEW from \in SUBSET Active, NEW to \in States,
         NEW x \in Nat, NEW n \in Nat, NEW g \in SUBSET (Tools \cup {AskUser}),
         Transition(r, c, from, to, x, n, g)
  PROVE  Rewritten(r)
<1>1. Written(r, to, x, n, g) \in Row
  BY WrittenType
<1>2. Written(r, to, x, n, g).session = row[r].session
  BY DEF Written
<1>3. row[r].state \in Active
  BY DEF Transition, Matches
<1>4. QED
  BY <1>1, <1>2, <1>3 DEF Rewritten, Transition, IsActive

LEMMA TerminateRewrites ==
  ASSUME TypeOK, NEW r \in Runs, NEW c \in Row, NEW from, NEW to \in Terminal,
         Terminate(r, c, from, to)
  PROVE  Rewritten(r)
<1>1. row[r].results \in Nat /\ row[r].grants \in SUBSET (Tools \cup {AskUser}) /\ c.text \in Nat
  BY DEF TypeOK, Row
<1> DEFINE w == Written(r, to, c.text, row[r].results, row[r].grants)
<1>2. w \in Row
  BY <1>1, WrittenType DEF States
<1>3. w.session = row[r].session /\ w.state \notin Active
  BY DEF Written, Terminal, Active
<1>4. QED
  BY <1>2, <1>3 DEF Rewritten, Terminate

\* The only ways a step changes the table of runs.
LEMMA RowSteps ==
  ASSUME TypeOK, [Next]_evars
  PROVE  \/ UNCHANGED row
         \/ \E r \in Runs, s \in Sessions, g \in Grants, p \in Runs \cup {NoRun} :
               CreateRun(r, s, g, p)
         \/ \E r \in Runs : Rewritten(r)
<1>1. CASE UNCHANGED evars \/ Crash
  BY <1>1 DEF evars, Crash
<1>2. ASSUME NEW t \in Threads, BeginBuild(t) \/ Request(t) \/ Execute(t), ~ UNCHANGED row
      PROVE  \/ \E r \in Runs, s \in Sessions, g \in Grants, p \in Runs \cup {NoRun} :
                   CreateRun(r, s, g, p)
             \/ \E r \in Runs : Rewritten(r)
  <2> DEFINE r == cur[t]
             c == held[t][r]
  <2>1. CASE Start(t)
    BY <2>1 DEF Start, Begin
  <2>2. CASE Regenerate(t)
    BY <2>2 DEF Regenerate, Begin, TypeOK, Row
  <2>3. CASE RecoverRun(t)
    <3>1. PICK q \in Runs : Terminate(q, held[t][q], {"running"}, "error")
      BY <1>2, <2>3 DEF RecoverRun
    <3>2. held[t][q] \in Row
      BY DEF TypeOK
    <3>3. QED
      BY <3>1, <3>2, TerminateRewrites DEF Terminal
  <2>4. CASE ResumeCas(t)
    <3>1. r \in Runs /\ c \in Row /\ job[t] \in Job
      BY <2>4, RowsOfThread DEF ResumeCas
    <3>2. Transition(r, c, {"waiting_input"}, "running", c.text, job[t].results, job[t].grants)
      BY <1>2, <2>4 DEF ResumeCas
    <3>3. QED
      BY <3>1, <3>2, TransitionRewrites, JobFields, RowFields DEF Active, States
  <2>5. CASE CancelCas(t)
    <3>1. r \in Runs /\ c \in Row
      BY <2>5, RowsOfThread DEF CancelCas
    <3>2. Terminate(r, c, {c.state}, "cancelled")
      BY <1>2, <2>5 DEF CancelCas
    <3>3. QED
      BY <3>1, <3>2, TerminateRewrites DEF Terminal
  <2>6. CASE FailCas(t)
    <3>1. r \in Runs /\ c \in Row
      BY <2>6, RowsOfThread DEF FailCas
    <3>2. Terminate(r, c, {"running"}, "error")
      BY <1>2, <2>6 DEF FailCas
    <3>3. QED
      BY <3>1, <3>2, TerminateRewrites DEF Terminal
  <2>7. CASE Continue(t) \/ SaveResult(t) \/ Finish(t) \/ Ask(t)
    <3>1. r \in Runs /\ c \in Row /\ job[t] \in Job
      BY <2>7, RowsOfThread DEF Continue, SaveResult, Finish, Ask
    <3>2. PICK to \in {"running", "completed", "waiting_input"} :
            Transition(r, c, {"running"}, to, job[t].acc, job[t].results, job[t].grants)
      BY <1>2, <2>7
      DEF Continue, SaveResult, Finish, Ask, SaveOr, TransitionOrRace, UpdateSnapshot
    <3>3. QED
      BY <3>1, <3>2, TransitionRewrites, JobFields DEF Active, Terminal, States
  <2>8. QED
    BY <1>2, <2>1, <2>2, <2>3, <2>4, <2>5, <2>6, <2>7
    DEF BeginBuild, Request, Execute, ResumeLoad, CancelLoad, ReadStale, EndBuild,
        EmitBegun, EmitCancelled, BeginRound, StreamItem, EmitDelta, StreamEnd, Flush,
        StreamTypeError, Complete, ProviderError, Settle, EmitResult, NextCall, RunTool,
        Asked, EmitWait, FailLoad, EmitError, Emit, EmitLast, StopIfCancelled
<1>3. QED
  BY <1>1, <1>2 DEF Next

LEMMA OneActiveStep ==
  ASSUME TypeOK, OneActivePerSession, [Next]_evars
  PROVE  OneActivePerSession'
<1>1. CASE UNCHANGED row
  BY <1>1 DEF OneActivePerSession, IsActive
<1>2. CASE \E r \in Runs, s \in Sessions, g \in Grants, p \in Runs \cup {NoRun} :
             CreateRun(r, s, g, p)
  BY <1>2 DEF CreateRun, OneActivePerSession, IsActive, TypeOK
<1>3. CASE \E r \in Runs : Rewritten(r)
  BY <1>3 DEF Rewritten, OneActivePerSession, IsActive, TypeOK
<1>4. QED
  BY <1>1, <1>2, <1>3, RowSteps

\* A session never has two turns in progress, for any number of threads, runs and
\* sessions, and whatever order their starts, replies, cancellations and
\* recoveries take.
THEOREM OneTurnPerSession == Spec => []OneActivePerSession
<1>1. Init => OneActivePerSession
  <2>1. AbsentRow.state \notin Active
    BY DEF AbsentRow, Active
  <2>2. Init => \A r \in Runs : row[r] = AbsentRow
    BY DEF Init, StoreInit
  <2>3. QED
    BY <2>1, <2>2 DEF OneActivePerSession, IsActive
<1>2. TypeOK /\ OneActivePerSession /\ [Next]_evars => OneActivePerSession'
  BY OneActiveStep
<1>3. QED
  BY <1>1, <1>2, TypeCorrect, PTL DEF Spec

-----------------------------------------------------------------------------
(* ExecutorInv is an invariant; with it, one thread at most executes a      *)
(* running turn, and the executor implements the abstract life of a turn.   *)


\* A step moves one thread.
OthersKeep(t) ==
  \A u \in Threads \ {t} : /\ pc'[u] = pc[u]
                           /\ cur'[u] = cur[u]
                           /\ held'[u] = held[u]
                           /\ job'[u] = job[u]

NotAtWork == {"idle", "build", "recover"}

\* A step that writes no row.
LEMMA QuietStep ==
  ASSUME TypeOK, ExecutorInv, NEW t \in Threads, row' = row, OthersKeep(t),
         pc'[t] \in ExecSteps => pc[t] \in ExecSteps /\ cur'[t] = cur[t],
         CopiesOK(t)', FrameInv(t)'
  PROVE  ExecutorInv'
<1>1. AbsentOK'
  BY DEF ExecutorInv, AbsentOK
<1>2. ASSUME NEW u \in Threads PROVE CopiesOK(u)' /\ FrameInv(u)'
  <2>1. CASE u = t
    BY <2>1
  <2>2. CASE u # t
    <3>1. CopiesOK(u) /\ FrameInv(u)
      BY DEF ExecutorInv
    <3>2. pc'[u] = pc[u] /\ cur'[u] = cur[u] /\ held'[u] = held[u] /\ job'[u] = job[u]
      BY <2>2 DEF OthersKeep
    <3>3. CopiesOK(u)'
      BY <3>1, <3>2 DEF CopiesOK
    <3>4. FrameInv(u)'
      BY <3>1, <3>2 DEF FrameInv
    <3>5. QED
      BY <3>3, <3>4
  <2>3. QED
    BY <2>1, <2>2
<1>3. OneExecutor'
  <2>1. \A u \in Threads : pc'[u] \in ExecSteps => pc[u] \in ExecSteps /\ cur'[u] = cur[u]
    BY DEF OthersKeep
  <2>2. QED
    BY <2>1 DEF ExecutorInv, OneExecutor, IsActive
<1>4. QED
  BY <1>1, <1>2, <1>3 DEF ExecutorInv

\* A step that writes the row of an existing run.  The executor of a run that stays
\* active is t or nobody, and where another executor is left behind the text is.
LEMMA WriteStep ==
  ASSUME TypeOK, ExecutorInv, NEW t \in Threads, NEW r \in Runs, NEW w \in Row,
         row' = [row EXCEPT ![r] = w], OthersKeep(t),
         row[r].state # "absent", w.state # "absent", w.version = row[r].version + 1,
         CopiesOK(t)', FrameInv(t)',
         \/ w.text = row[r].text
         \/ row[r].state = "running" /\ pc[t] \in ExecSteps /\ cur[t] = r,
         w.state \in Active => \A u \in Threads \ {t} : cur[u] = r => pc[u] \notin ExecSteps,
         pc'[t] \in ExecSteps /\ w.state \in Active => w.state = "running" /\ cur'[t] = r,
         pc'[t] \in ExecSteps => cur'[t] = r
  PROVE  ExecutorInv'
<1>1. AbsentOK'
  BY DEF ExecutorInv, AbsentOK, TypeOK
<1>2. ASSUME NEW u \in Threads PROVE CopiesOK(u)' /\ FrameInv(u)'
  <2>1. CASE u = t
    BY <2>1
  <2>2. CASE u # t
    <3>1. CopiesOK(u) /\ FrameInv(u)
      BY DEF ExecutorInv
    <3>2. pc'[u] = pc[u] /\ cur'[u] = cur[u] /\ held'[u] = held[u] /\ job'[u] = job[u]
      BY <2>2 DEF OthersKeep
    <3>3. CopiesOK(u)'
      <4>1. ASSUME NEW q \in Runs, held[u][q].state # "absent"
            PROVE  /\ row'[q].state # "absent"
                   /\ held[u][q].version <= row'[q].version
                   /\ held[u][q].version = row'[q].version => held[u][q] = row'[q]
        <5>1. /\ row[q].state # "absent"
              /\ held[u][q].version <= row[q].version
              /\ held[u][q].version = row[q].version => held[u][q] = row[q]
          BY <3>1, <4>1 DEF CopiesOK
        <5>2. held[u][q].version \in Nat /\ row[q].version \in Nat /\ row[r].version \in Nat
          BY DEF TypeOK, Row
        <5>3. CASE q = r
          <6>1. row'[q] = w
            BY <5>3 DEF TypeOK
          <6>2. QED
            BY <5>1, <5>2, <5>3, <6>1
        <5>4. CASE q # r
          BY <5>1, <5>4 DEF TypeOK
        <5>5. QED
          BY <5>3, <5>4
      <4>2. QED
        BY <3>2, <4>1 DEF CopiesOK
    <3>4. FrameInv(u)'
      <4>1. CASE cur[u] # r
        <5>1. cur[u] \in Runs => row'[cur[u]] = row[cur[u]]
          BY <4>1 DEF TypeOK
        <5>2. cur[u] \notin Runs => pc[u] \in NotAtWork
          BY DEF TypeOK, NotAtWork
        <5>3. pc[u] \in NotAtWork => FrameInv(u)'
          BY <3>2 DEF FrameInv, NotAtWork, WriteSteps, LoopSteps
        <5>4. cur[u] \in Runs => FrameInv(u)'
          BY <3>1, <3>2, <5>1 DEF FrameInv
        <5>5. QED
          BY <5>2, <5>3, <5>4
      <4>2. CASE cur[u] = r
        <5>1. row'[r] = w
          BY DEF TypeOK
        <5>2. pc[u] \in WriteSteps \cup {"tool"} => w.state # "running"
          BY <2>2, <4>2 DEF WriteSteps, ExecSteps, LoopSteps, Active
        <5>3. pc[u] \in LoopSteps => w.text <= job[u].acc
          <6>1. CASE w.text = row[r].text
            BY <3>1, <4>2, <6>1 DEF FrameInv
          <6>2. CASE row[r].state = "running" /\ pc[t] \in ExecSteps /\ cur[t] = r
            BY <2>2, <4>2, <6>2 DEF ExecutorInv, OneExecutor, IsActive, Active, ExecSteps
          <6>3. QED
            BY <6>1, <6>2
        <5>4. QED
          BY <3>1, <3>2, <4>2, <5>1, <5>2, <5>3 DEF FrameInv
      <4>3. QED
        BY <4>1, <4>2
    <3>5. QED
      BY <3>3, <3>4
  <2>3. QED
    BY <2>1, <2>2
<1>3. OneExecutor'
  <2> SUFFICES ASSUME NEW u \in Threads, NEW v \in Threads,
                      pc'[u] \in ExecSteps, row'[cur'[u]].state \in Active
               PROVE  /\ row'[cur'[u]].state = "running"
                      /\ cur'[v] = cur'[u] /\ pc'[v] \in ExecSteps => v = u
    BY DEF OneExecutor, IsActive
  <2>1. row'[r] = w /\ \A q \in Runs \ {r} : row'[q] = row[q]
    BY DEF TypeOK
  <2>2. \A x \in Threads \ {t} : pc'[x] = pc[x] /\ cur'[x] = cur[x]
    BY DEF OthersKeep
  <2>3. CASE u = t
    BY <2>1, <2>2, <2>3
  <2>4. CASE u # t
    <3>1. cur[u] # r
      BY <2>1, <2>2, <2>4
    <3>2. cur[u] \in Runs
      BY <2>2, <2>4 DEF TypeOK, ExecSteps, LoopSteps
    <3>3. row'[cur[u]] = row[cur[u]]
      BY <2>1, <3>1, <3>2
    <3>4. row[cur[u]].state = "running"
      BY <2>2, <2>4, <3>3 DEF ExecutorInv, OneExecutor, IsActive
    <3>5. CASE v = t
      BY <2>2, <2>4, <3>1, <3>3, <3>4, <3>5
    <3>6. CASE v # t
      BY <2>2, <2>4, <3>3, <3>4, <3>6 DEF ExecutorInv, OneExecutor, IsActive
    <3>7. QED
      BY <3>5, <3>6
  <2>5. QED
    BY <2>3, <2>4
<1>4. QED
  BY <1>1, <1>2, <1>3 DEF ExecutorInv

-----------------------------------------------------------------------------
(* The frame of the thread that moves. *)

\* The end of a request.
LEMMA ReturnStep ==
  ASSUME TypeOK, ExecutorInv, NEW t \in Threads, row' = row, Return(t)
  PROVE  ExecutorInv'
<1>1. OthersKeep(t)
  BY DEF TypeOK, Return, OthersKeep
<1>2. pc'[t] = "idle" /\ held'[t] = NoCopies
  BY DEF TypeOK, Return
<1>3. CopiesOK(t)'
  BY <1>2 DEF CopiesOK, NoCopies, AbsentRow
<1>4. FrameInv(t)'
  BY <1>2 DEF FrameInv, WriteSteps, LoopSteps
<1>5. pc'[t] \notin ExecSteps
  BY <1>2 DEF ExecSteps, LoopSteps
<1>6. QED
  BY <1>1, <1>3, <1>4, <1>5, QuietStep

\* An exception inside the loop.
LEMMA RaiseStep ==
  ASSUME TypeOK, ExecutorInv, NEW t \in Threads, row' = row, Raise(t), pc[t] \in LoopSteps
  PROVE  ExecutorInv'
<1>1. OthersKeep(t)
  BY DEF TypeOK, Raise, Goto, Forget, SetJob, OthersKeep
<1>2. pc'[t] = "fail" /\ held'[t] = NoCopies /\ cur'[t] = cur[t]
  BY DEF TypeOK, Raise, Goto, Forget
<1>3. CopiesOK(t)'
  BY <1>2 DEF CopiesOK, NoCopies, AbsentRow
<1>4. FrameInv(t)'
  BY <1>2 DEF ExecutorInv, FrameInv, WriteSteps, LoopSteps
<1>5. QED
  BY <1>1, <1>2, <1>3, <1>4, QuietStep DEF ExecSteps

\* A copy that has just been loaded is a good one.
LEMMA LoadedCopies ==
  ASSUME TypeOK, ExecutorInv, NEW t \in Threads, NEW r \in Runs, row' = row,
         held'[t] = held[t] \/ held'[t] = [held[t] EXCEPT ![r] = row[r]]
  PROVE  CopiesOK(t)'
<1> SUFFICES ASSUME NEW q \in Runs, held'[t][q].state # "absent"
             PROVE  /\ row[q].state # "absent"
                    /\ held'[t][q].version <= row[q].version
                    /\ held'[t][q].version = row[q].version => held'[t][q] = row[q]
  BY DEF CopiesOK
<1>1. held'[t][q] = held[t][q] \/ held'[t][q] = row[q]
  BY DEF TypeOK
<1>2. CASE held'[t][q] = row[q]
  BY <1>2 DEF TypeOK, Row
<1>3. CASE held'[t][q] = held[t][q]
  BY <1>3 DEF ExecutorInv, CopiesOK
<1>4. QED
  BY <1>1, <1>2, <1>3

\* A step inside the loop: the copy stays, or is loaded.
LEMMA LoopStep ==
  ASSUME TypeOK, ExecutorInv, NEW t \in Threads, row' = row, pc[t] \in LoopSteps,
         NEW s \in LoopSteps, NEW j \in Job, Goto(t, s), SetJob(t, j), j.acc >= job[t].acc,
         cur' = cur,
         \/ Load(t, cur[t])
         \/ held' = held /\ (s \in WriteSteps \cup {"tool"} => pc[t] \in WriteSteps \cup {"tool"})
  PROVE  ExecutorInv'
<1>1. cur[t] \in Runs
  BY RowsOfThread DEF LoopSteps
<1>2. OthersKeep(t)
  BY DEF TypeOK, Goto, SetJob, Load, OthersKeep
<1>3. pc'[t] = s /\ job'[t] = j /\ s \in LoopSteps
  BY DEF TypeOK, Goto, SetJob
<1>4. held'[t] = held[t] \/ held'[t] = [held[t] EXCEPT ![cur[t]] = row[cur[t]]]
  BY DEF TypeOK, Load
<1>5. CopiesOK(t)'
  BY <1>1, <1>4, LoadedCopies
<1>6. FrameInv(t)'
  <2>1. row[cur[t]].state # "absent" /\ row[cur[t]].text <= job[t].acc
    BY DEF ExecutorInv, FrameInv, LoopSteps
  <2>2. row[cur[t]].text \in Nat /\ job[t].acc \in Nat /\ j.acc \in Nat
    BY <1>1 DEF TypeOK, Row, Job
  <2>3. row[cur[t]].text <= j.acc
    BY <2>1, <2>2
  <2>4. s \in WriteSteps \cup {"tool"} /\ row[cur[t]].state = "running"
          => held'[t][cur[t]] = row[cur[t]]
    <3>1. CASE Load(t, cur[t])
      BY <1>1, <3>1 DEF TypeOK, Load
    <3>2. CASE held' = held /\ (s \in WriteSteps \cup {"tool"} => pc[t] \in WriteSteps \cup {"tool"})
      BY <3>2 DEF ExecutorInv, FrameInv
    <3>3. QED
      BY <3>1, <3>2
  <2>5. s # "resume" /\ s # "cancel"
    BY DEF LoopSteps
  <2>6. QED
    BY <1>3, <2>1, <2>3, <2>4, <2>5 DEF FrameInv
<1>7. QED
  BY <1>2, <1>5, <1>6, QuietStep DEF ExecSteps

\* A step out of the loop, after it or beside it.
LEMMA TailStep ==
  ASSUME TypeOK, ExecutorInv, NEW t \in Threads, row' = row,
         NEW s, s \notin ExecSteps \cup {"resume", "cancel"}, Goto(t, s),
         s \notin NotAtWork => pc[t] \notin NotAtWork, cur' = cur,
         SetJob(t, job'[t]) \/ job' = job, held' = held \/ Forget(t)
  PROVE  ExecutorInv'
<1>1. OthersKeep(t)
  BY DEF TypeOK, Goto, Forget, SetJob, OthersKeep
<1>2. pc'[t] = s
  BY DEF TypeOK, Goto
<1>3. held'[t] = held[t] \/ held'[t] = NoCopies
  BY DEF TypeOK, Forget
<1>4. CopiesOK(t)'
  BY <1>3 DEF ExecutorInv, CopiesOK, NoCopies, AbsentRow
<1>5. FrameInv(t)'
  BY <1>2 DEF ExecutorInv, FrameInv, NotAtWork, WriteSteps, ExecSteps, LoopSteps
<1>6. QED
  BY <1>1, <1>2, <1>4, <1>5, QuietStep

-----------------------------------------------------------------------------
(* Every action keeps ExecutorInv. *)

\* What a write puts in the row.
LEMMA WrittenFields ==
  ASSUME NEW r, NEW to, NEW x, NEW n, NEW g
  PROVE  /\ Written(r, to, x, n, g).state = to
         /\ Written(r, to, x, n, g).text = x
         /\ Written(r, to, x, n, g).version = row[r].version + 1
         /\ Written(r, to, x, n, g).session = row[r].session
  BY DEF Written

\* Ending a run on behalf of anybody: the text stays, whatever copy it came from.
LEMMA TerminateStep ==
  ASSUME TypeOK, ExecutorInv, NEW t \in Threads, NEW r \in Runs, NEW to \in Terminal,
         NEW from, held[t][r].state # "absent", Terminate(r, held[t][r], from, to),
         OthersKeep(t), CopiesOK(t)', FrameInv(t)', pc'[t] \notin ExecSteps
  PROVE  ExecutorInv'
<1> DEFINE c == held[t][r]
           w == Written(r, to, c.text, row[r].results, row[r].grants)
<1>1. row[r].state # "absent" /\ c = row[r]
  BY DEF Terminate, Matches, ExecutorInv, CopiesOK
<1>2. w \in Row
  BY <1>1, WrittenType DEF TypeOK, Row, States
<1>3. row' = [row EXCEPT ![r] = w]
  BY DEF Terminate
<1>4. w.text = row[r].text /\ w.version = row[r].version + 1 /\ w.state = to
  BY <1>1, WrittenFields
<1>5. to # "absent" /\ to \notin Active
  BY DEF Terminal, Active
<1> HIDE DEF c, w
<1>6. /\ w.state # "absent"
      /\ w.state \in Active => \A u \in Threads \ {t} : cur[u] = r => pc[u] \notin ExecSteps
      /\ pc'[t] \in ExecSteps /\ w.state \in Active => w.state = "running" /\ cur'[t] = r
      /\ pc'[t] \in ExecSteps => cur'[t] = r
  BY <1>4, <1>5
<1>7. QED
  BY <1>1, <1>2, <1>3, <1>4, <1>6, WriteStep

LEMMA BundleInv ==
  ASSUME TypeOK, ExecutorInv, NEW t \in Threads,
         BeginBuild(t) \/ ReadStale(t) \/ RecoverRun(t) \/ EndBuild(t)
  PROVE  ExecutorInv'
<1>1. CASE BeginBuild(t)
  BY <1>1, TailStep DEF BeginBuild, ExecSteps, LoopSteps, NotAtWork
<1>2. CASE EndBuild(t)
  BY <1>2, ReturnStep DEF EndBuild
<1>3. CASE ReadStale(t)
  <2>1. OthersKeep(t) /\ pc'[t] = "recover" /\ row' = row
    BY <1>3 DEF TypeOK, ReadStale, Goto, OthersKeep
  <2>2. CopiesOK(t)'
    <3>1. ASSUME NEW q \in Runs PROVE held'[t][q] = row[q] \/ held'[t][q] = AbsentRow
      BY <1>3 DEF TypeOK, ReadStale
    <3>2. \A q \in Runs : row[q].version \in Nat
      BY DEF TypeOK, Row
    <3>3. AbsentRow.state = "absent"
      BY DEF AbsentRow
    <3>4. ASSUME NEW q \in Runs, held'[t][q].state # "absent"
          PROVE  /\ held'[t][q] = row[q]
                 /\ row[q].version <= row[q].version
      BY <3>1, <3>2, <3>3, <3>4
    <3>5. QED
      BY <2>1, <3>4 DEF CopiesOK
  <2>3. FrameInv(t)'
    BY <2>1 DEF FrameInv, WriteSteps, LoopSteps
  <2>4. QED
    BY <2>1, <2>2, <2>3, QuietStep DEF ExecSteps, LoopSteps
<1>4. CASE RecoverRun(t)
  <2>1. PICK r \in Runs :
          /\ held[t][r].state = "running"
          /\ \/ Terminate(r, held[t][r], {"running"}, "error")
             \/ ~ Matches(r, held[t][r], {"running"}) /\ UNCHANGED row
          /\ held' = [held EXCEPT ![t][r] = AbsentRow]
    BY <1>4 DEF RecoverRun
  <2>2. OthersKeep(t) /\ pc'[t] = "recover"
    BY <1>4, <2>1 DEF TypeOK, RecoverRun, OthersKeep
  <2>3. FrameInv(t)'
    BY <2>2 DEF FrameInv, WriteSteps, LoopSteps
  <2>4. \A q \in Runs : held'[t][q] = IF q = r THEN AbsentRow ELSE held[t][q]
    BY <2>1 DEF TypeOK
  <2>5. \A q \in Runs \ {r} : row'[q] = row[q]
    BY <2>1 DEF TypeOK, Terminate
  <2>6. CopiesOK(t)'
    <3>1. AbsentRow.state = "absent"
      BY DEF AbsentRow
    <3>2. ASSUME NEW q \in Runs, held'[t][q].state # "absent"
          PROVE  held'[t][q] = held[t][q] /\ row'[q] = row[q]
      BY <2>4, <2>5, <3>1, <3>2
    <3>3. QED
      BY <3>2 DEF ExecutorInv, CopiesOK
  <2>7. pc'[t] \notin ExecSteps
    BY <2>2 DEF ExecSteps, LoopSteps
  <2>8. CASE UNCHANGED row
    BY <2>2, <2>3, <2>6, <2>7, <2>8, QuietStep
  <2>9. CASE Terminate(r, held[t][r], {"running"}, "error")
    BY <2>1, <2>2, <2>3, <2>6, <2>7, <2>9, TerminateStep DEF Terminal
  <2>10. QED
    BY <2>1, <2>8, <2>9
<1>5. QED
  BY <1>1, <1>2, <1>3, <1>4

LEMMA CrashInv ==
  ASSUME TypeOK, ExecutorInv, Crash
  PROVE  ExecutorInv'
<1>1. \A t \in Threads : pc'[t] = "idle" /\ held'[t] = NoCopies
  BY DEF Crash
<1>2. ASSUME NEW t \in Threads PROVE CopiesOK(t)' /\ FrameInv(t)'
  <2>1. pc'[t] = "idle" /\ held'[t] = NoCopies
    BY <1>1
  <2>2. CopiesOK(t)'
    BY <2>1 DEF CopiesOK, NoCopies, AbsentRow
  <2>3. FrameInv(t)'
    BY <2>1 DEF FrameInv, WriteSteps, LoopSteps
  <2>4. QED
    BY <2>2, <2>3
<1>3. AbsentOK' /\ OneExecutor'
  BY <1>1 DEF ExecutorInv, AbsentOK, OneExecutor, ExecSteps, LoopSteps, Crash
<1>4. QED
  BY <1>2, <1>3 DEF ExecutorInv

LEMMA BeginInv ==
  ASSUME TypeOK, ExecutorInv, NEW t \in Threads, Start(t) \/ Regenerate(t)
  PROVE  ExecutorInv'
<1>1. PICK r \in Runs, s \in Sessions, g \in Grants, p \in Runs \cup {NoRun},
           step \in {"started", "regenerated"} : Begin(t, r, s, g, p, step)
  <2>1. CASE Start(t)
    BY <2>1 DEF Start
  <2>2. CASE Regenerate(t)
    BY <2>2 DEF Regenerate, TypeOK, Row
  <2>3. QED
    BY <2>1, <2>2
<1> DEFINE w == [state |-> "running", session |-> s, version |-> 0, text |-> 0, results |-> 0,
                 grants |-> g, parent |-> p]
<1>2. row[r].state = "absent" /\ row' = [row EXCEPT ![r] = w]
  BY <1>1 DEF Begin, CreateRun
<1>3. w.state = "running" /\ w.text = 0
  OBVIOUS
<1>4. row'[r] = w /\ \A q \in Runs \ {r} : row'[q] = row[q]
  BY <1>2 DEF TypeOK
<1> HIDE DEF w
<1>5. /\ pc' = [pc EXCEPT ![t] = step]
      /\ cur' = [cur EXCEPT ![t] = r]
      /\ held' = held
      /\ job' = [job EXCEPT ![t] = [NoJob EXCEPT !.grants = g]]
  BY <1>1 DEF Begin, Goto, SetJob
<1>6. pc'[t] = step /\ cur'[t] = r /\ job'[t].acc = 0
  BY <1>5 DEF TypeOK, NoJob
<1>7. \A u \in Threads : held[u][r].state = "absent" /\ (pc[u] \notin NotAtWork => cur[u] # r)
  BY <1>2 DEF ExecutorInv, CopiesOK, FrameInv, NotAtWork
<1>8. ASSUME NEW u \in Threads PROVE CopiesOK(u)'
  BY <1>4, <1>5, <1>7 DEF ExecutorInv, CopiesOK
<1>9. ASSUME NEW u \in Threads PROVE FrameInv(u)'
  <2>1. CASE u = t
    BY <1>3, <1>4, <1>6, <2>1 DEF FrameInv, WriteSteps
  <2>2. CASE u # t
    <3>1. pc'[u] = pc[u] /\ cur'[u] = cur[u] /\ job'[u] = job[u]
      BY <1>5, <2>2
    <3>2. CASE pc[u] \in NotAtWork
      BY <3>1, <3>2 DEF FrameInv, NotAtWork, WriteSteps, LoopSteps
    <3>3. CASE pc[u] \notin NotAtWork
      <4>1. cur[u] \in Runs \ {r}
        BY <1>7, <3>3 DEF TypeOK, NotAtWork
      <4>2. row'[cur[u]] = row[cur[u]]
        BY <1>4, <4>1
      <4>3. QED
        BY <1>5, <3>1, <4>2 DEF ExecutorInv, FrameInv
    <3>4. QED
      BY <3>2, <3>3
  <2>3. QED
    BY <2>1, <2>2
<1>10. AbsentOK'
  BY <1>3, <1>4 DEF ExecutorInv, AbsentOK
<1>11. OneExecutor'
  <2> SUFFICES ASSUME NEW u \in Threads, NEW v \in Threads,
                      pc'[u] \in ExecSteps, row'[cur'[u]].state \in Active
               PROVE  /\ row'[cur'[u]].state = "running"
                      /\ cur'[v] = cur'[u] /\ pc'[v] \in ExecSteps => v = u
    BY DEF OneExecutor, IsActive
  <2>1. \A x \in Threads \ {t} : pc'[x] = pc[x] /\ cur'[x] = cur[x]
    BY <1>5
  <2>2. \A x \in Threads \ {t} : pc[x] \in ExecSteps => cur[x] \in Runs \ {r}
    BY <1>7 DEF TypeOK, NotAtWork, ExecSteps, LoopSteps
  <2>3. CASE u = t
    BY <1>3, <1>4, <1>6, <2>1, <2>2, <2>3
  <2>4. CASE u # t
    BY <1>4, <1>6, <2>1, <2>2, <2>4 DEF ExecutorInv, OneExecutor, IsActive
  <2>5. QED
    BY <2>3, <2>4
<1>12. QED
  BY <1>8, <1>9, <1>10, <1>11 DEF ExecutorInv

\* An event of the run, between two steps of its thread.
LEMMA EmitInv ==
  ASSUME TypeOK, ExecutorInv, NEW t \in Threads,
         \/ EmitBegun(t) \/ EmitDelta(t) \/ Flush(t) \/ EmitCancelled(t)
         \/ EmitResult(t) \/ EmitWait(t) \/ EmitError(t)
  PROVE  ExecutorInv'
<1>1. ASSUME NEW s \in {"round", "stream", "settle"}, NEW k, pc[t] \in LoopSteps, Emit(t, s, k)
      PROVE  ExecutorInv'
  <2>1. Goto(t, s) /\ UNCHANGED <<row, cur, held, job>>
    BY <1>1 DEF Emit
  <2>2. job[t] \in Job /\ SetJob(t, job[t]) /\ job[t].acc >= job[t].acc
    BY <2>1 DEF TypeOK, SetJob, Job
  <2>3. s \in LoopSteps /\ s \notin WriteSteps \cup {"tool"}
    BY DEF LoopSteps, WriteSteps
  <2>4. QED
    BY <1>1, <2>1, <2>2, <2>3, LoopStep
<1>2. ASSUME NEW s \in {"emit_cancel_done", "emit_done", "emit_error_done"}, NEW k,
             pc[t] \notin NotAtWork, Emit(t, s, k)
      PROVE  ExecutorInv'
  <2>1. Goto(t, s) /\ UNCHANGED <<row, cur, held, job>>
    BY <1>2 DEF Emit
  <2>2. s \notin ExecSteps \cup {"resume", "cancel"}
    BY DEF ExecSteps, LoopSteps
  <2>3. QED
    BY <1>2, <2>1, <2>2, TailStep
<1>3. ASSUME NEW k, EmitLast(t, k)
      PROVE  ExecutorInv'
  BY <1>3, ReturnStep DEF EmitLast
<1>4. CASE EmitBegun(t) \/ EmitDelta(t) \/ Flush(t)
  BY <1>1, <1>4 DEF EmitBegun, EmitDelta, Flush, LoopSteps
<1>5. CASE EmitCancelled(t) \/ EmitResult(t) \/ EmitWait(t) \/ EmitError(t)
  BY <1>2, <1>3, <1>5 DEF EmitCancelled, EmitResult, EmitWait, EmitError, NotAtWork
<1>6. QED
  BY <1>4, <1>5

\* The load that begins a reply or a cancellation.
LEMMA LoadInv ==
  ASSUME TypeOK, ExecutorInv, NEW t \in Threads, ResumeLoad(t) \/ CancelLoad(t)
  PROVE  ExecutorInv'
<1>1. PICK r \in Runs, s \in {"resume", "cancel"} :
        /\ row[r].state \in Active
        /\ Goto(t, s)
        /\ cur' = [cur EXCEPT ![t] = r]
        /\ Load(t, r)
        /\ row' = row
        /\ s = "resume" => /\ row[r].state = "waiting_input"
                           /\ job'[t].acc = row[r].text
        /\ \A u \in Threads \ {t} : job'[u] = job[u]
  <2>1. CASE ResumeLoad(t)
    <3>1. PICK r \in Runs, g \in Grants :
            /\ row[r].state = "waiting_input"
            /\ Goto(t, "resume")
            /\ cur' = [cur EXCEPT ![t] = r]
            /\ Load(t, r)
            /\ SetJob(t, [NoJob EXCEPT !.acc = row[r].text, !.results = row[r].results + 1,
                                       !.grants = row[r].grants \cap g])
            /\ row' = row
      BY <2>1 DEF ResumeLoad
    <3>2. job'[t].acc = row[r].text /\ \A u \in Threads \ {t} : job'[u] = job[u]
      BY <3>1 DEF TypeOK, SetJob, NoJob
    <3>3. QED
      BY <3>1, <3>2 DEF Active
  <2>2. CASE CancelLoad(t)
    BY <2>2 DEF CancelLoad, IsActive
  <2>3. QED
    BY <2>1, <2>2
<1>2. /\ pc'[t] = s /\ cur'[t] = r
      /\ held'[t] = [held[t] EXCEPT ![r] = row[r]]
      /\ held'[t][r] = row[r]
  BY <1>1 DEF TypeOK, Goto, Load
<1>3. OthersKeep(t)
  BY <1>1 DEF TypeOK, Goto, Load, OthersKeep
<1>4. CopiesOK(t)'
  BY <1>1, <1>2, LoadedCopies
<1>5. FrameInv(t)'
  BY <1>1, <1>2 DEF FrameInv, WriteSteps, LoopSteps, Active
<1>6. pc'[t] \notin ExecSteps
  BY <1>2 DEF ExecSteps, LoopSteps
<1>7. QED
  BY <1>1, <1>3, <1>4, <1>5, <1>6, QuietStep

\* A copy that still matches is the row.
LEMMA MatchingCopy ==
  ASSUME TypeOK, ExecutorInv, NEW t \in Threads, NEW r \in Runs, NEW from,
         held[t][r].state # "absent", Matches(r, held[t][r], from)
  PROVE  held[t][r] = row[r] /\ row[r].state \in from
  BY DEF Matches, ExecutorInv, CopiesOK

\* A thread that forgets its copies has no bad one.
LEMMA Forgotten ==
  ASSUME NEW t \in Threads, held'[t] = NoCopies
  PROVE  CopiesOK(t)'
  BY DEF CopiesOK, NoCopies, AbsentRow

LEMMA ReplyInv ==
  ASSUME TypeOK, ExecutorInv, NEW t \in Threads, ResumeCas(t)
  PROVE  ExecutorInv'
<1> DEFINE r == cur[t]
           c == held[t][r]
           w == Written(r, "running", c.text, job[t].results, job[t].grants)
<1>1. r \in Runs /\ c \in Row /\ job[t] \in Job
  BY RowsOfThread DEF ResumeCas
<1>2. c.state = "waiting_input" /\ job[t].acc = c.text
  BY DEF ResumeCas, ExecutorInv, FrameInv
<1>3. CASE Return(t) /\ row' = row
  BY <1>3, ReturnStep
<1>4. CASE /\ Transition(r, c, {"waiting_input"}, "running", c.text, job[t].results, job[t].grants)
           /\ Goto(t, "resumed")
           /\ Forget(t)
           /\ UNCHANGED <<cur, job>>
  <2>1. c = row[r] /\ row[r].state = "waiting_input"
    BY <1>1, <1>2, <1>4, MatchingCopy DEF Transition
  <2>2. w \in Row
    BY <1>1, WrittenType, JobFields, RowFields DEF States, Active
  <2>3. row' = [row EXCEPT ![r] = w]
    BY <1>4 DEF Transition
  <2>4. w.state = "running" /\ w.text = row[r].text /\ w.version = row[r].version + 1
    BY <2>1, WrittenFields
  <2> HIDE DEF w
  <2>5. pc'[t] = "resumed" /\ cur'[t] = r /\ job'[t] = job[t] /\ held'[t] = NoCopies
    BY <1>4 DEF TypeOK, Goto, Forget
  <2>6. OthersKeep(t)
    BY <1>4 DEF TypeOK, Goto, Forget, OthersKeep
  <2>7. CopiesOK(t)'
    BY <2>5, Forgotten
  <2>8. row'[r] = w
    BY <1>1, <2>3 DEF TypeOK
  <2>9. w.text <= job[t].acc
    BY <1>1, <1>2, <2>1, <2>4, RowFields
  <2>10. FrameInv(t)'
    BY <2>4, <2>5, <2>8, <2>9 DEF FrameInv, WriteSteps
  <2>11. \A u \in Threads \ {t} : cur[u] = r => pc[u] \notin ExecSteps
    BY <1>1, <2>1 DEF ExecutorInv, OneExecutor, IsActive, Active
  <2>12. QED
    BY <1>1, <2>1, <2>2, <2>3, <2>4, <2>5, <2>6, <2>7, <2>10, <2>11, WriteStep
<1>5. QED
  BY <1>3, <1>4 DEF ResumeCas

LEMMA CancelInv ==
  ASSUME TypeOK, ExecutorInv, NEW t \in Threads, CancelCas(t)
  PROVE  ExecutorInv'
<1> DEFINE r == cur[t]
           c == held[t][r]
<1>1. r \in Runs /\ c.state # "absent"
  <2>1. r \in Runs
    BY RowsOfThread DEF CancelCas
  <2>2. c.state \in Active
    BY DEF CancelCas, ExecutorInv, FrameInv
  <2>3. QED
    BY <2>1, <2>2 DEF Active
<1>2. CASE Return(t) /\ row' = row
  BY <1>2, ReturnStep
<1>3. CASE /\ Terminate(r, c, {c.state}, "cancelled")
           /\ Goto(t, "emit_cancel")
           /\ Forget(t)
           /\ UNCHANGED <<cur, job>>
  <2>1. pc'[t] = "emit_cancel" /\ cur'[t] = r /\ held'[t] = NoCopies
    BY <1>3 DEF TypeOK, Goto, Forget
  <2>2. OthersKeep(t)
    BY <1>3 DEF TypeOK, Goto, Forget, OthersKeep
  <2>3. CopiesOK(t)'
    BY <2>1, Forgotten
  <2>4. row'[r].state = "cancelled"
    BY <1>1, <1>3 DEF TypeOK, Terminate, Written
  <2>5. FrameInv(t)'
    BY <2>1, <2>4 DEF FrameInv, WriteSteps, LoopSteps
  <2>6. pc'[t] \notin ExecSteps
    BY <2>1 DEF ExecSteps, LoopSteps
  <2>7. QED
    BY <1>1, <1>3, <2>2, <2>3, <2>5, <2>6, TerminateStep DEF Terminal
<1>4. QED
  BY <1>2, <1>3 DEF CancelCas

\* A step inside the loop that only counts: the copy is not touched, the answer is not.
LEMMA CountStep ==
  ASSUME TypeOK, ExecutorInv, NEW t \in Threads, UNCHANGED <<row, cur, held>>, pc[t] \in LoopSteps,
         NEW s \in {"round", "stream", "delta", "flush", "complete", "settle", "calls"}, Goto(t, s),
         NEW j \in Job, SetJob(t, j), j.acc = job[t].acc
  PROVE  ExecutorInv'
<1>1. s \in LoopSteps /\ s \notin WriteSteps \cup {"tool"}
  BY DEF LoopSteps, WriteSteps
<1>2. j.acc >= job[t].acc
  BY DEF Job
<1>3. QED
  BY <1>1, <1>2, LoopStep

LEMMA RoundInv ==
  ASSUME TypeOK, ExecutorInv, NEW t \in Threads,
         \/ BeginRound(t) \/ StreamItem(t) \/ StreamEnd(t) \/ StreamTypeError(t)
         \/ Complete(t) \/ ProviderError(t)
  PROVE  ExecutorInv'
<1>1. pc[t] \in LoopSteps /\ row' = row
  BY DEF BeginRound, StreamItem, StreamEnd, StreamTypeError, Complete, ProviderError,
         StopIfCancelled, LoopSteps
<1>2. job[t] \in Job
  BY DEF TypeOK
<1>3. CASE Return(t)
  BY <1>1, <1>3, ReturnStep
<1>4. CASE Raise(t)
  BY <1>1, <1>4, RaiseStep
<1>5. ASSUME DropRound(t), UNCHANGED <<cur, held>>
      PROVE  ExecutorInv'
  <2>1. [job[t] EXCEPT !.chunks = 0] \in Job /\ [job[t] EXCEPT !.chunks = 0].acc = job[t].acc
    BY <1>2, JobUpdates DEF Job
  <2>2. QED
    BY <1>1, <1>5, <2>1, CountStep DEF DropRound
<1>6. ASSUME NEW v \in BOOLEAN, NEW k \in CallLists, NEW f \in {"stop", "length"},
             EndRound(t, v, k, f), UNCHANGED <<cur, held>>
      PROVE  ExecutorInv'
  <2>1. PICK n \in Nat : n = IF v THEN job[t].chunks + 1 ELSE job[t].chunks
    BY <1>2, JobFields
  <2>2. /\ [job[t] EXCEPT !.calls = k, !.finish = f, !.chunks = n] \in Job
        /\ [job[t] EXCEPT !.calls = k, !.finish = f, !.chunks = n].acc = job[t].acc
    <3>1. k \in Seq(Tools \cup {AskUser, Ungranted})
      BY CallListsType
    <3>2. QED
      BY <1>2, <3>1, JobRoundType DEF Job
  <2>3. SetJob(t, [job[t] EXCEPT !.calls = k, !.finish = f, !.chunks = n])
    BY <1>6, <2>1 DEF EndRound
  <2>4. PICK s \in {"flush", "settle"} : Goto(t, s)
    BY <1>6 DEF EndRound
  <2>5. QED
    BY <1>1, <1>6, <2>2, <2>3, <2>4, CountStep
<1>7. ASSUME NEW s \in {"stream", "delta"}, Goto(t, s), UNCHANGED <<cur, held>>,
             \/ SetJob(t, [job[t] EXCEPT !.rounds = @ + 1])
             \/ SetJob(t, [job[t] EXCEPT !.chunks = @ + 1])
      PROVE  ExecutorInv'
  <2>1. /\ [job[t] EXCEPT !.rounds = @ + 1] \in Job
        /\ [job[t] EXCEPT !.chunks = @ + 1] \in Job
        /\ [job[t] EXCEPT !.rounds = @ + 1].acc = job[t].acc
        /\ [job[t] EXCEPT !.chunks = @ + 1].acc = job[t].acc
    BY <1>2, JobUpdates DEF Job
  <2>2. QED
    BY <1>1, <1>7, <2>1, CountStep
<1>8. CASE BeginRound(t)
  BY <1>3, <1>4, <1>7, <1>8 DEF BeginRound, StopIfCancelled
<1>9. CASE StreamItem(t)
  BY <1>5, <1>7, <1>9 DEF StreamItem
<1>10. CASE StreamEnd(t)
  BY <1>6, <1>10 DEF StreamEnd
<1>11. CASE StreamTypeError(t)
  <2>1. SetJob(t, job[t]) /\ Goto(t, "complete") /\ UNCHANGED <<cur, held>>
    BY <1>11 DEF StreamTypeError, TypeOK, SetJob
  <2>2. QED
    BY <1>1, <1>2, <2>1, CountStep
<1>12. CASE Complete(t)
  BY <1>5, <1>6, <1>12 DEF Complete
<1>13. CASE ProviderError(t)
  BY <1>4, <1>13 DEF ProviderError
<1>14. QED
  BY <1>8, <1>9, <1>10, <1>11, <1>12, <1>13

LEMMA SettleInv ==
  ASSUME TypeOK, ExecutorInv, NEW t \in Threads, Settle(t)
  PROVE  ExecutorInv'
<1>1. pc[t] \in LoopSteps /\ job[t] \in Job /\ cur[t] \in Runs
  BY RowsOfThread DEF Settle, LoopSteps
<1>2. CASE StopIfCancelled(t)
  BY <1>2, ReturnStep DEF StopIfCancelled
<1>3. CASE ~ Cancelled(t)
  <2> DEFINE more == job[t].calls = << >> /\ job[t].finish = "length" /\ job[t].conts < MaxConts
             n == IF more THEN job[t].conts + 1 ELSE job[t].conts
             s == IF job[t].calls # << >> THEN "calls" ELSE IF more THEN "continue" ELSE "finish"
             j == [job[t] EXCEPT !.acc = job[t].acc + job[t].chunks, !.chunks = 0,
                                 !.finish = "stop", !.conts = n]
  <2>1. Load(t, cur[t]) /\ SetJob(t, j) /\ Goto(t, s) /\ UNCHANGED <<row, cur>>
    BY <1>3 DEF Settle, StopIfCancelled
  <2>2. s \in LoopSteps
    BY DEF LoopSteps
  <2>3. /\ job[t].acc + job[t].chunks \in Nat
        /\ job[t].acc + job[t].chunks >= job[t].acc
        /\ n \in Nat
    BY <1>1, JobFields
  <2>4. j \in Job
    BY <1>1, <2>3, JobSettled
  <2>5. j.acc = job[t].acc + job[t].chunks
    BY <1>1 DEF Job
  <2> HIDE DEF j, s, n, more
  <2>6. QED
    BY <1>1, <2>1, <2>2, <2>3, <2>4, <2>5, LoopStep
<1>4. QED
  BY <1>2, <1>3 DEF Settle

LEMMA CallInv ==
  ASSUME TypeOK, ExecutorInv, NEW t \in Threads, NextCall(t) \/ RunTool(t) \/ Asked(t)
  PROVE  ExecutorInv'
<1>1. cur[t] \in Runs /\ job[t] \in Job /\ (SetJob(t, job[t]) <=> UNCHANGED job)
  BY RowsOfThread DEF NextCall, RunTool, Asked, TypeOK, SetJob
<1>2. CASE NextCall(t)
  <2>1. pc[t] \in LoopSteps /\ row' = row
    BY <1>2 DEF NextCall, LoopSteps, StopIfCancelled
  <2>2. CASE Goto(t, "round") /\ UNCHANGED <<cur, held, job>>
    BY <1>1, <2>1, <2>2, CountStep
  <2>3. CASE Return(t)
    BY <2>1, <2>3, ReturnStep
  <2>4. CASE Raise(t)
    BY <2>1, <2>4, RaiseStep
  <2>5. CASE /\ Load(t, cur[t])
             /\ \E s \in {"ask", "tool"} : Goto(t, s)
             /\ UNCHANGED <<cur, job>>
    <3>1. PICK s \in {"ask", "tool"} : Goto(t, s)
      BY <2>5
    <3>2. s \in LoopSteps /\ job[t].acc >= job[t].acc
      BY <1>1 DEF LoopSteps, Job
    <3>3. QED
      BY <1>1, <2>1, <2>5, <3>1, <3>2, LoopStep
  <2>6. QED
    BY <1>2, <2>2, <2>3, <2>4, <2>5 DEF NextCall, StopIfCancelled
<1>3. CASE RunTool(t)
  <2>1. pc[t] \in LoopSteps /\ pc[t] \in WriteSteps \cup {"tool"} /\ row' = row
    BY <1>3 DEF RunTool, LoopSteps
  <2>2. CASE Raise(t)
    BY <2>1, <2>2, RaiseStep
  <2>3. CASE /\ SetJob(t, [job[t] EXCEPT !.results = job[t].results + 1,
                                         !.calls = Tail(job[t].calls)])
             /\ Goto(t, "save")
             /\ UNCHANGED <<cur, held>>
    <3> DEFINE j == [job[t] EXCEPT !.results = job[t].results + 1, !.calls = Tail(job[t].calls)]
    <3>1. j \in Job
      BY <1>1, <1>3, JobAfterTool DEF RunTool, TypeOK
    <3>2. j.acc >= job[t].acc
      BY <1>1 DEF Job
    <3> HIDE DEF j
    <3>3. SetJob(t, j)
      BY <2>3 DEF j
    <3>4. "save" \in LoopSteps
      BY DEF LoopSteps
    <3>5. QED
      BY <2>1, <2>3, <3>1, <3>2, <3>3, <3>4, LoopStep
  <2>4. QED
    BY <1>3, <2>2, <2>3 DEF RunTool
<1>4. CASE Asked(t)
  <2>1. CASE StopIfCancelled(t)
    BY <2>1, ReturnStep DEF StopIfCancelled
  <2>2. CASE Goto(t, "emit_wait") /\ UNCHANGED <<row, cur, held, job>>
    <3>1. "emit_wait" \notin ExecSteps \cup {"resume", "cancel"} /\ pc[t] \notin NotAtWork
      BY <1>4 DEF Asked, ExecSteps, LoopSteps, NotAtWork
    <3>2. QED
      BY <2>2, <3>1, TailStep
  <2>3. QED
    BY <1>4, <2>1, <2>2 DEF Asked
<1>5. QED
  BY <1>2, <1>3, <1>4

\* The write of an executor to its own running run, which it may leave.
LEMMA ExecutorWrite ==
  ASSUME TypeOK, ExecutorInv, NEW t \in Threads, pc[t] \in LoopSteps, pc[t] \in WriteSteps,
         NEW to \in {"running", "waiting_input", "completed"}, NEW step,
         step \in LoopSteps \/ step \in {"emit_result", "asked"},
         step \in LoopSteps => /\ to = "running"
                               /\ step \notin WriteSteps \cup {"tool"}
                               /\ job' = job,
         Transition(cur[t], held[t][cur[t]], {"running"}, to,
                    job[t].acc, job[t].results, job[t].grants),
         Goto(t, step), Forget(t), UNCHANGED cur, SetJob(t, job'[t])
  PROVE  ExecutorInv'
<1> DEFINE r == cur[t]
           w == Written(r, to, job[t].acc, job[t].results, job[t].grants)
<1>1. r \in Runs /\ job[t] \in Job
  BY RowsOfThread DEF LoopSteps
<1>2. row[r].state = "running" /\ row' = [row EXCEPT ![r] = w]
  BY DEF Transition, Matches
<1>3. w \in Row
  BY <1>1, WrittenType, JobFields DEF States, Active, Terminal
<1>4. w.state = to /\ w.text = job[t].acc /\ w.version = row[r].version + 1
  BY WrittenFields
<1> HIDE DEF w
<1>5. row'[r] = w
  BY <1>1, <1>2 DEF TypeOK
<1>6. pc'[t] = step /\ cur'[t] = r /\ held'[t] = NoCopies
  BY DEF TypeOK, Goto, Forget
<1>7. OthersKeep(t)
  BY DEF TypeOK, Goto, Forget, SetJob, OthersKeep
<1>8. CopiesOK(t)'
  BY <1>6, Forgotten
<1>9. FrameInv(t)'
  <2>1. w.state # "absent"
    BY <1>4
  <2>2. CASE step \in LoopSteps
    <3>1. row'[r].text <= job'[t].acc
      BY <1>1, <1>4, <1>5, <2>2, JobFields
    <3>2. step # "resume" /\ step # "cancel"
      BY <2>2 DEF LoopSteps
    <3>3. QED
      BY <1>5, <1>6, <2>1, <2>2, <3>1, <3>2 DEF FrameInv
  <2>3. CASE step \in {"emit_result", "asked"}
    BY <1>5, <1>6, <2>1, <2>3 DEF FrameInv, WriteSteps, LoopSteps
  <2>4. QED
    BY <2>2, <2>3
<1>10. \A u \in Threads \ {t} : cur[u] = r => pc[u] \notin ExecSteps
  BY <1>2 DEF ExecutorInv, OneExecutor, IsActive, Active, ExecSteps
<1>11. pc'[t] \in ExecSteps => w.state = "running" /\ cur'[t] = r
  BY <1>4, <1>6 DEF ExecSteps
<1>12. row[r].state # "absent" /\ w.state # "absent" /\ pc[t] \in ExecSteps
  BY <1>2, <1>4 DEF ExecSteps
<1>13. QED
  BY <1>1, <1>2, <1>3, <1>4, <1>7, <1>8, <1>9, <1>10, <1>11, <1>12, WriteStep

LEMMA SaveInv ==
  ASSUME TypeOK, ExecutorInv, NEW t \in Threads, Continue(t) \/ SaveResult(t)
  PROVE  ExecutorInv'
<1>1. pc[t] \in LoopSteps /\ pc[t] \in WriteSteps
  BY DEF Continue, SaveResult, LoopSteps, WriteSteps
<1>2. PICK step \in {"round", "calls"} : SaveOr(t, step)
  BY DEF Continue, SaveResult
<1>3. CASE Raise(t) /\ row' = row
  BY <1>1, <1>3, RaiseStep
<1>4. CASE /\ UpdateSnapshot(cur[t], held[t][cur[t]], job[t].acc, job[t].results, job[t].grants)
           /\ Goto(t, step)
           /\ Forget(t)
           /\ UNCHANGED <<cur, job>>
  <2>1. step \in LoopSteps /\ step \notin WriteSteps \cup {"tool"}
    BY DEF LoopSteps, WriteSteps
  <2>2. SetJob(t, job'[t])
    BY <1>4 DEF TypeOK, SetJob
  <2>3. QED
    BY <1>1, <1>4, <2>1, <2>2, ExecutorWrite DEF UpdateSnapshot
<1>5. QED
  BY <1>2, <1>3, <1>4 DEF SaveOr

LEMMA RaceInv ==
  ASSUME TypeOK, ExecutorInv, NEW t \in Threads, Finish(t) \/ Ask(t)
  PROVE  ExecutorInv'
<1> DEFINE Leave(step) == Goto(t, step) /\ Forget(t) /\ SetJob(t, NoJob) /\ UNCHANGED cur
<1>1. pc[t] \in LoopSteps /\ pc[t] \in WriteSteps
  BY DEF Finish, Ask, LoopSteps, WriteSteps
<1>2. PICK to \in {"completed", "waiting_input"}, step \in {"emit_result", "asked"} :
        TransitionOrRace(t, to, step)
  BY DEF Finish, Ask
<1>3. step \notin ExecSteps \cup {"resume", "cancel"} /\ step \notin LoopSteps
  BY DEF ExecSteps, LoopSteps
<1>4. ASSUME Leave(step)
      PROVE  SetJob(t, job'[t])
  BY <1>4 DEF TypeOK, SetJob
<1>5. CASE Return(t) /\ row' = row
  BY <1>5, ReturnStep
<1>6. CASE Raise(t) /\ row' = row
  BY <1>1, <1>6, RaiseStep
<1>7. CASE Leave(step) /\ row' = row
  <2>1. pc[t] \notin NotAtWork
    BY <1>1 DEF LoopSteps, NotAtWork
  <2>2. QED
    BY <1>3, <1>4, <1>7, <2>1, TailStep
<1>8. CASE /\ Transition(cur[t], held[t][cur[t]], {"running"}, to,
                         job[t].acc, job[t].results, job[t].grants)
           /\ Leave(step)
  BY <1>1, <1>3, <1>4, <1>8, ExecutorWrite
<1>9. QED
  BY <1>2, <1>5, <1>6, <1>7, <1>8 DEF TransitionOrRace

LEMMA FailInv ==
  ASSUME TypeOK, ExecutorInv, NEW t \in Threads, FailLoad(t) \/ FailCas(t)
  PROVE  ExecutorInv'
<1> DEFINE r == cur[t]
           c == held[t][r]
<1>1. r \in Runs /\ pc[t] \in ExecSteps /\ pc[t] \notin NotAtWork
  BY RowsOfThread DEF FailLoad, FailCas, ExecSteps, NotAtWork
<1>2. CASE Return(t) /\ row' = row
  BY <1>2, ReturnStep
<1>3. CASE /\ Goto(t, "emit_error")
           /\ row' = row
           /\ UNCHANGED held \/ Forget(t)
           /\ UNCHANGED <<cur, job>>
  <2>1. "emit_error" \notin ExecSteps \cup {"resume", "cancel"}
    BY DEF ExecSteps, LoopSteps
  <2>2. QED
    BY <1>1, <1>3, <2>1, TailStep
<1>4. CASE /\ Goto(t, "fail_cas")
           /\ row' = row
           /\ Load(t, r)
           /\ UNCHANGED <<cur, job>>
  <2>1. OthersKeep(t)
    BY <1>4 DEF TypeOK, Goto, Load, OthersKeep
  <2>2. /\ pc'[t] = "fail_cas" /\ cur'[t] = r
        /\ held'[t] = [held[t] EXCEPT ![r] = row[r]]
        /\ held'[t][r] = row[r]
    BY <1>1, <1>4 DEF TypeOK, Goto, Load
  <2>3. CopiesOK(t)'
    BY <1>1, <1>4, <2>2, LoadedCopies
  <2>4. row[r].state # "absent"
    BY <1>1 DEF ExecutorInv, FrameInv, NotAtWork
  <2>5. FrameInv(t)'
    BY <1>4, <2>2, <2>4 DEF FrameInv, LoopSteps
  <2>6. QED
    BY <1>1, <1>4, <2>1, <2>2, <2>3, <2>5, QuietStep
<1>5. CASE /\ pc[t] = "fail_cas"
           /\ Terminate(r, c, {"running"}, "error")
           /\ Goto(t, "emit_error")
           /\ Forget(t)
           /\ UNCHANGED <<cur, job>>
  <2>1. pc'[t] = "emit_error" /\ cur'[t] = r /\ held'[t] = NoCopies
    BY <1>5 DEF TypeOK, Goto, Forget
  <2>2. OthersKeep(t)
    BY <1>5 DEF TypeOK, Goto, Forget, OthersKeep
  <2>3. CopiesOK(t)'
    BY <2>1, Forgotten
  <2>4. row'[r].state = "error"
    BY <1>1, <1>5 DEF TypeOK, Terminate, Written
  <2>5. FrameInv(t)'
    BY <2>1, <2>4 DEF FrameInv, WriteSteps, LoopSteps
  <2>6. pc'[t] \notin ExecSteps
    BY <2>1 DEF ExecSteps, LoopSteps
  <2>7. row[r].state = "running"
    BY <1>5 DEF Terminate, Matches
  <2>8. c.state # "absent"
    BY <1>5, <2>7 DEF ExecutorInv, FrameInv, WriteSteps
  <2>9. QED
    BY <1>1, <1>5, <2>2, <2>3, <2>5, <2>6, <2>8, TerminateStep DEF Terminal
<1>6. QED
  BY <1>2, <1>3, <1>4, <1>5 DEF FailLoad, FailCas

LEMMA InitExecutor == Init => ExecutorInv
<1> SUFFICES ASSUME Init PROVE ExecutorInv
  OBVIOUS
<1>1. AbsentOK
  BY DEF Init, StoreInit, AbsentOK, AbsentRow
<1>2. ASSUME NEW t \in Threads PROVE CopiesOK(t) /\ FrameInv(t)
  <2>1. pc[t] = "idle" /\ held[t] = NoCopies
    BY DEF Init
  <2>2. QED
    BY <2>1 DEF CopiesOK, FrameInv, NoCopies, AbsentRow, WriteSteps, LoopSteps
<1>3. OneExecutor
  BY DEF Init, OneExecutor, ExecSteps, LoopSteps
<1>4. QED
  BY <1>1, <1>2, <1>3 DEF ExecutorInv

LEMMA StepExecutor == TypeOK /\ ExecutorInv /\ [Next]_evars => ExecutorInv'
<1> SUFFICES ASSUME TypeOK, ExecutorInv, [Next]_evars PROVE ExecutorInv'
  OBVIOUS
<1>1. CASE UNCHANGED evars
  BY <1>1 DEF evars, ExecutorInv, AbsentOK, CopiesOK, FrameInv, OneExecutor, IsActive
<1>2. CASE Crash
  BY <1>2, CrashInv
<1>3. ASSUME NEW t \in Threads, BeginBuild(t) \/ Request(t) \/ Execute(t)
      PROVE  ExecutorInv'
  BY <1>3, BundleInv, BeginInv, EmitInv, LoadInv, ReplyInv, CancelInv, RoundInv, SettleInv,
     CallInv, SaveInv, RaceInv, FailInv
  DEF Request, Execute
<1>4. QED
  BY <1>1, <1>2, <1>3 DEF Next

\* ExecutorInv holds of every reachable state, for any number of threads, runs and
\* sessions and any number of crashes.
THEOREM ExecutorInvariant == Spec => []ExecutorInv
<1>1. QED
  BY InitExecutor, StepExecutor, TypeCorrect, PTL DEF Spec

\* While a run is running one thread at most executes it, and what that thread is
\* about to write over is what it last read (_run_loop, resume, recover_stale_running).
THEOREM OneExecutorPerRun == Spec => []SoleExecutor
<1>1. TypeOK /\ ExecutorInv => SoleExecutor
  BY DEF ExecutorInv, FrameInv, OneExecutor, SoleExecutor, IsActive, Active, ExecSteps
<1>2. QED
  BY <1>1, TypeCorrect, ExecutorInvariant, PTL

-----------------------------------------------------------------------------
(* The executor implements the life of a turn. *)

\* A write of one run, as TurnLifecycle sees it.
Moved(r, w) ==
  /\ row' = [row EXCEPT ![r] = w]
  /\ w.session = row[r].session
  /\ \/ /\ row[r].state = "running"
        /\ w.state \in {"running", "waiting_input", "completed"}
        /\ w.text >= row[r].text
     \/ /\ row[r].state = "waiting_input"
        /\ w.state = "running"
        /\ w.text = row[r].text
     \/ /\ row[r].state \in Active
        /\ w.state = "cancelled"
        /\ w.text = row[r].text
     \/ /\ row[r].state = "running"
        /\ w.state = "error"
        /\ w.text = row[r].text

\* Ending a run commits the answer the row holds.
LEMMA TerminateMoves ==
  ASSUME TypeOK, ExecutorInv, NEW t \in Threads, NEW r \in Runs, held[t][r].state # "absent",
         NEW to \in {"cancelled", "error"}, NEW from \in SUBSET Active,
         to = "error" => from = {"running"}, Terminate(r, held[t][r], from, to)
  PROVE  \E w \in Row : Moved(r, w)
<1> DEFINE c == held[t][r]
           w == Written(r, to, c.text, row[r].results, row[r].grants)
<1>1. c = row[r] /\ row[r].state \in from
  BY MatchingCopy DEF Terminate
<1>2. w \in Row
  BY <1>1, WrittenType DEF TypeOK, Row, States, Terminal
<1>3. /\ w.state = to /\ w.text = row[r].text /\ w.session = row[r].session
      /\ row' = [row EXCEPT ![r] = w]
  BY <1>1, WrittenFields DEF Terminate
<1>4. row[r].state \in Active /\ (to = "error" => row[r].state = "running")
  BY <1>1
<1> HIDE DEF w
<1>5. QED
  BY <1>2, <1>3, <1>4 DEF Moved

\* The only ways a step changes the table of runs, with the answers.
LEMMA RowMoves ==
  ASSUME TypeOK, ExecutorInv, [Next]_evars
  PROVE  \/ UNCHANGED row
         \/ \E r \in Runs, s \in Sessions, g \in Grants, p \in Runs \cup {NoRun} :
               CreateRun(r, s, g, p)
         \/ \E r \in Runs, w \in Row : Moved(r, w)
<1>1. CASE UNCHANGED evars \/ Crash
  BY <1>1 DEF evars, Crash
<1>2. ASSUME NEW t \in Threads, BeginBuild(t) \/ Request(t) \/ Execute(t), ~ UNCHANGED row
      PROVE  \/ \E r \in Runs, s \in Sessions, g \in Grants, p \in Runs \cup {NoRun} :
                   CreateRun(r, s, g, p)
             \/ \E r \in Runs, w \in Row : Moved(r, w)
  <2> DEFINE r == cur[t]
             c == held[t][r]
  <2>1. CASE Start(t)
    BY <2>1 DEF Start, Begin
  <2>2. CASE Regenerate(t)
    BY <2>2 DEF Regenerate, Begin, TypeOK, Row
  <2>3. CASE RecoverRun(t)
    <3>1. PICK q \in Runs : /\ held[t][q].state = "running"
                            /\ Terminate(q, held[t][q], {"running"}, "error")
      BY <1>2, <2>3 DEF RecoverRun
    <3>2. {"running"} \in SUBSET Active
      BY DEF Active
    <3>3. \E w \in Row : Moved(q, w)
      BY <3>1, <3>2, TerminateMoves
    <3>4. QED
      BY <3>3
  <2>4. CASE ResumeCas(t)
    <3> DEFINE w == Written(r, "running", c.text, job[t].results, job[t].grants)
    <3>1. r \in Runs /\ c \in Row /\ job[t] \in Job
      BY <2>4, RowsOfThread DEF ResumeCas
    <3>2. Transition(r, c, {"waiting_input"}, "running", c.text, job[t].results, job[t].grants)
      BY <1>2, <2>4 DEF ResumeCas
    <3>3. c.state # "absent"
      BY <2>4 DEF ResumeCas, ExecutorInv, FrameInv
    <3>4. c = row[r] /\ row[r].state = "waiting_input"
      BY <3>1, <3>2, <3>3, MatchingCopy DEF Transition
    <3>5. w \in Row
      BY <3>1, WrittenType, JobFields, RowFields DEF States, Active
    <3>6. /\ w.state = "running" /\ w.text = row[r].text /\ w.session = row[r].session
          /\ row' = [row EXCEPT ![r] = w]
      BY <3>2, <3>4, WrittenFields DEF Transition
    <3> HIDE DEF w
    <3>7. Moved(r, w)
      BY <3>4, <3>6 DEF Moved
    <3>8. QED
      BY <3>1, <3>5, <3>7
  <2>5. CASE CancelCas(t)
    <3>1. r \in Runs /\ c.state \in Active
      BY <2>5, RowsOfThread DEF CancelCas, ExecutorInv, FrameInv
    <3>2. Terminate(r, c, {c.state}, "cancelled")
      BY <1>2, <2>5 DEF CancelCas
    <3>3. {c.state} \in SUBSET Active /\ c.state # "absent"
      BY <3>1 DEF Active
    <3>4. \E w \in Row : Moved(r, w)
      BY <3>1, <3>2, <3>3, TerminateMoves
    <3>5. QED
      BY <3>1, <3>4
  <2>6. CASE FailCas(t)
    <3>1. r \in Runs
      BY <2>6, RowsOfThread DEF FailCas
    <3>2. Terminate(r, c, {"running"}, "error")
      BY <1>2, <2>6 DEF FailCas
    <3>3. c.state # "absent" /\ {"running"} \in SUBSET Active
      BY <2>6, <3>2
      DEF FailCas, ExecutorInv, FrameInv, WriteSteps, Terminate, Matches, Active
    <3>4. \E w \in Row : Moved(r, w)
      BY <3>1, <3>2, <3>3, TerminateMoves
    <3>5. QED
      BY <3>1, <3>4
  <2>7. CASE Continue(t) \/ SaveResult(t) \/ Finish(t) \/ Ask(t)
    <3>1. r \in Runs /\ c \in Row /\ job[t] \in Job /\ pc[t] \in LoopSteps
      BY <2>7, RowsOfThread DEF Continue, SaveResult, Finish, Ask, LoopSteps
    <3>2. PICK to \in {"running", "completed", "waiting_input"} :
            Transition(r, c, {"running"}, to, job[t].acc, job[t].results, job[t].grants)
      BY <1>2, <2>7
      DEF Continue, SaveResult, Finish, Ask, SaveOr, TransitionOrRace, UpdateSnapshot
    <3> DEFINE w == Written(r, to, job[t].acc, job[t].results, job[t].grants)
    <3>3. w \in Row
      BY <3>1, WrittenType, JobFields DEF States, Active, Terminal
    <3>4. /\ row[r].state = "running"
          /\ w.state = to /\ w.text = job[t].acc /\ w.session = row[r].session
          /\ row' = [row EXCEPT ![r] = w]
      BY <3>2, WrittenFields DEF Transition, Matches
    <3>5. job[t].acc >= row[r].text
      <4>1. row[r].text <= job[t].acc
        BY <3>1 DEF ExecutorInv, FrameInv
      <4>2. row[r].text \in Nat /\ job[t].acc \in Nat
        BY <3>1, JobFields DEF TypeOK, Row
      <4>3. QED
        BY <4>1, <4>2
    <3> HIDE DEF w
    <3>6. Moved(r, w)
      BY <3>4, <3>5 DEF Moved
    <3>7. QED
      BY <3>1, <3>3, <3>6
  <2>8. QED
    BY <1>2, <2>1, <2>2, <2>3, <2>4, <2>5, <2>6, <2>7
    DEF BeginBuild, Request, Execute, ResumeLoad, CancelLoad, ReadStale, EndBuild,
        EmitBegun, EmitCancelled, BeginRound, StreamItem, EmitDelta, StreamEnd, Flush,
        StreamTypeError, Complete, ProviderError, Settle, EmitResult, NextCall, RunTool,
        Asked, EmitWait, FailLoad, EmitError, Emit, EmitLast, StopIfCancelled
<1>3. QED
  BY <1>1, <1>2 DEF Next

LEMMA InitLifecycle == Init => Lifecycle!Init
<1> SUFFICES ASSUME Init PROVE Lifecycle!Init
  OBVIOUS
<1>1. \A r \in Runs : row[r] = AbsentRow
  BY DEF Init, StoreInit
<1>2. AbsentRow.state = "absent" /\ AbsentRow.text = 0 /\ AbsentRow.session \in Sessions
  BY AbsentRowType DEF AbsentRow, Row
<1>3. QED
  BY <1>1, <1>2 DEF Lifecycle!Init

LEMMA StepLifecycle ==
  TypeOK /\ ExecutorInv /\ [Next]_evars => [Lifecycle!Next]_(Lifecycle!tvars)
<1> SUFFICES ASSUME TypeOK, ExecutorInv, [Next]_evars
             PROVE  Lifecycle!Next \/ UNCHANGED Lifecycle!tvars
  OBVIOUS
<1>1. CASE UNCHANGED row
  BY <1>1 DEF Lifecycle!tvars
<1>2. ASSUME NEW r \in Runs, NEW s \in Sessions, NEW g \in Grants, NEW p \in Runs \cup {NoRun},
             CreateRun(r, s, g, p)
      PROVE  Lifecycle!Open(r, s)
  <2>1. /\ row[r].state = "absent" /\ row[r].text = 0
        /\ \A q \in Runs : ~ (row[q].state \in Active /\ row[q].session = s)
    BY <1>2 DEF CreateRun, IsActive, ExecutorInv, AbsentOK
  <2>2. /\ row'[r].state = "running" /\ row'[r].session = s /\ row'[r].text = 0
        /\ \A q \in Runs \ {r} : row'[q] = row[q]
    BY <1>2 DEF CreateRun, TypeOK
  <2>3. QED
    BY <2>1, <2>2 DEF Lifecycle!Open, Lifecycle!InProgress, Active
<1>3. ASSUME NEW r \in Runs, NEW w \in Row, Moved(r, w)
      PROVE  Lifecycle!Advance(r) \/ Lifecycle!Reply(r) \/ Lifecycle!Abort(r)
  <2>1. /\ row'[r] = w /\ w.session = row[r].session
        /\ \A q \in Runs \ {r} : row'[q] = row[q]
    BY <1>3 DEF Moved, TypeOK
  <2>2. CASE /\ row[r].state = "running"
             /\ w.state \in {"running", "waiting_input", "completed"}
             /\ w.text >= row[r].text
    <3>1. w.text \in Nat
      BY DEF Row
    <3>2. Lifecycle!Advance(r)
      BY <2>1, <2>2, <3>1 DEF Lifecycle!Advance
    <3>3. QED
      BY <3>2
  <2>3. CASE row[r].state = "waiting_input" /\ w.state = "running" /\ w.text = row[r].text
    BY <2>1, <2>3 DEF Lifecycle!Reply
  <2>4. CASE /\ w.text = row[r].text
             /\ \/ row[r].state \in Active /\ w.state = "cancelled"
                \/ row[r].state = "running" /\ w.state = "error"
    BY <2>1, <2>4 DEF Lifecycle!Abort, Lifecycle!InProgress, Active
  <2>5. QED
    BY <1>3, <2>2, <2>3, <2>4 DEF Moved
<1>4. QED
  BY <1>1, <1>2, <1>3, RowMoves DEF Lifecycle!Next

\* The executor implements TurnLifecycle: an answer only grows, and only while its
\* turn runs; an outcome is final; a cancellation, a failure or a recovery commits
\* nothing, however old the copy is it was decided on (tutor.py, execution_store.py).
THEOREM LifecycleImplemented == Spec => ImplementsLifecycle
<1>1. QED
  BY InitLifecycle, StepLifecycle, TypeCorrect, ExecutorInvariant, PTL
  DEF Spec, ImplementsLifecycle, Lifecycle!Spec

-----------------------------------------------------------------------------
(* What the life of a turn promises, whoever implements it. *)

EndedTurnsRest ==
  [][\A r \in Runs : row[r].state \in Terminal =>
       /\ row'[r].state = row[r].state
       /\ row'[r].text = row[r].text
       /\ row'[r].session = row[r].session]_(Lifecycle!tvars)

AnswersGrow ==
  [][\A r \in Runs : /\ row'[r].text # row[r].text => row[r].state = "running"
                     /\ row[r].text \in Nat => row'[r].text >= row[r].text]_(Lifecycle!tvars)

\* One step of the life of a turn, for any run.
LEMMA LifecycleStep ==
  ASSUME Lifecycle!Next, NEW r \in Runs
  PROVE  /\ row[r].state \in Terminal => /\ row'[r].state = row[r].state
                                         /\ row'[r].text = row[r].text
                                         /\ row'[r].session = row[r].session
         /\ row'[r].text # row[r].text => row[r].state = "running"
         /\ row[r].text \in Nat => row'[r].text >= row[r].text
<1>1. PICK q \in Runs : (\E s \in Sessions : Lifecycle!Open(q, s)) \/ Lifecycle!Advance(q)
                        \/ Lifecycle!Reply(q) \/ Lifecycle!Abort(q)
  BY DEF Lifecycle!Next
<1>2. CASE r # q
  <2>1. /\ row'[r].state = row[r].state
        /\ row'[r].text = row[r].text
        /\ row'[r].session = row[r].session
    <3>1. CASE \E s \in Sessions : Lifecycle!Open(q, s)
      BY <1>2, <3>1 DEF Lifecycle!Open
    <3>2. CASE Lifecycle!Advance(q)
      BY <1>2, <3>2 DEF Lifecycle!Advance
    <3>3. CASE Lifecycle!Reply(q)
      BY <1>2, <3>3 DEF Lifecycle!Reply
    <3>4. CASE Lifecycle!Abort(q)
      BY <1>2, <3>4 DEF Lifecycle!Abort
    <3>5. QED
      BY <1>1, <3>1, <3>2, <3>3, <3>4
  <2>2. row[r].text \in Nat => row[r].text >= row[r].text
    OBVIOUS
  <2>3. QED
    BY <2>1, <2>2
<1>3. CASE r = q
  <2>1. row[r].state \notin Terminal
    BY <1>1, <1>3 DEF Lifecycle!Open, Lifecycle!Advance, Lifecycle!Reply, Lifecycle!Abort,
                      Lifecycle!InProgress, Terminal
  <2>2. \/ row'[r].text = row[r].text
        \/ row[r].state = "running" /\ row'[r].text >= row[r].text
    BY <1>1, <1>3 DEF Lifecycle!Open, Lifecycle!Advance, Lifecycle!Reply, Lifecycle!Abort
  <2>3. row[r].text \in Nat => row[r].text >= row[r].text
    OBVIOUS
  <2>4. QED
    BY <2>1, <2>2, <2>3
<1>4. QED
  BY <1>2, <1>3

\* Whatever implements the life of a turn leaves an ended turn alone, with its answer, and lengthens an
\* answer only while its turn runs: what a client has been shown of an answer is not taken back
\* (migrations/0011: the states; tutor.py: assistant_text).
THEOREM LifecycleKeepsAnswers == ImplementsLifecycle => EndedTurnsRest /\ AnswersGrow
<1>1. [Lifecycle!Next]_(Lifecycle!tvars) =>
        [\A r \in Runs : row[r].state \in Terminal =>
           /\ row'[r].state = row[r].state
           /\ row'[r].text = row[r].text
           /\ row'[r].session = row[r].session]_(Lifecycle!tvars)
  BY LifecycleStep
<1>2. [Lifecycle!Next]_(Lifecycle!tvars) =>
        [\A r \in Runs : /\ row'[r].text # row[r].text => row[r].state = "running"
                         /\ row[r].text \in Nat => row'[r].text >= row[r].text]_(Lifecycle!tvars)
  BY LifecycleStep
<1>3. QED
  BY <1>1, <1>2, PTL DEF ImplementsLifecycle, Lifecycle!Spec, EndedTurnsRest, AnswersGrow

-----------------------------------------------------------------------------
(* No write is lost. *)

NoLostUpdate ==
  [][\A r \in Runs : row[r].state # "absent" /\ row'[r] # row[r] =>
       /\ row'[r].version = row[r].version + 1
       /\ \E t \in Threads : held[t][r] = row[r]]_evars

\* A row that was drawn is written by one who holds a copy of it, and nobody writes two rows.
LEMMA WriterHoldsRow ==
  ASSUME TypeOK, ExecutorInv, [Next]_evars, NEW r \in Runs, row[r].state # "absent", row'[r] # row[r]
  PROVE  /\ row'[r].version = row[r].version + 1
         /\ \E t \in Threads : held[t][r] = row[r]
<1>1. CASE UNCHANGED evars \/ Crash
  BY <1>1 DEF evars, Crash
<1>2. ASSUME NEW t \in Threads, BeginBuild(t) \/ Request(t) \/ Execute(t)
      PROVE  held[t][r] = row[r] /\ row'[r].version = row[r].version + 1
  <2> DEFINE p == cur[t]
             c == held[t][p]
  <2>0. ASSUME NEW q \in Runs, NEW from, NEW to, NEW text, NEW results, NEW grants,
               held[t][q].state # "absent", Matches(q, held[t][q], from),
               row' = [row EXCEPT ![q] = Written(q, to, text, results, grants)]
        PROVE  held[t][r] = row[r] /\ row'[r].version = row[r].version + 1
    <3>1. q = r
      BY <2>0 DEF TypeOK
    <3>2. held[t][r] = row[r]
      BY <2>0, <3>1, MatchingCopy
    <3>3. row'[r] = Written(r, to, text, results, grants)
      BY <2>0, <3>1 DEF TypeOK
    <3>4. QED
      BY <3>2, <3>3 DEF Written
  <2>1. CASE Start(t) \/ Regenerate(t)
    <3>1. \E q \in Runs : q # r /\ row'[r] = row[r]
      BY <2>1 DEF Start, Regenerate, Begin, CreateRun, TypeOK
    <3>2. QED
      BY <3>1
  <2>3. CASE RecoverRun(t)
    <3>1. PICK q \in Runs : /\ held[t][q].state = "running"
                            /\ Terminate(q, held[t][q], {"running"}, "error")
      BY <2>3 DEF RecoverRun
    <3>2. QED
      BY <2>0, <3>1 DEF Terminate
  <2>4. CASE ResumeCas(t)
    <3>1. p \in Runs
      BY <2>4, RowsOfThread DEF ResumeCas
    <3>2. Transition(p, c, {"waiting_input"}, "running", c.text, job[t].results, job[t].grants)
      BY <2>4 DEF ResumeCas
    <3>3. c.state # "absent"
      BY <2>4 DEF ResumeCas, ExecutorInv, FrameInv
    <3>4. QED
      BY <2>0, <3>1, <3>2, <3>3 DEF Transition
  <2>5. CASE CancelCas(t)
    <3>1. p \in Runs /\ c.state \in Active
      BY <2>5, RowsOfThread DEF CancelCas, ExecutorInv, FrameInv
    <3>2. Terminate(p, c, {c.state}, "cancelled")
      BY <2>5 DEF CancelCas
    <3>3. QED
      BY <2>0, <3>1, <3>2 DEF Terminate, Active
  <2>6. CASE FailCas(t)
    <3>1. p \in Runs
      BY <2>6, RowsOfThread DEF FailCas
    <3>2. Terminate(p, c, {"running"}, "error")
      BY <2>6 DEF FailCas
    <3>3. c.state # "absent"
      BY <2>6, <3>2 DEF FailCas, ExecutorInv, FrameInv, WriteSteps, Terminate, Matches
    <3>4. QED
      BY <2>0, <3>1, <3>2, <3>3 DEF Terminate
  <2>7. CASE Continue(t) \/ SaveResult(t) \/ Finish(t) \/ Ask(t)
    <3>1. p \in Runs /\ pc[t] \in LoopSteps /\ pc[t] \in WriteSteps
      BY <2>7, RowsOfThread DEF Continue, SaveResult, Finish, Ask, LoopSteps, WriteSteps
    <3>2. PICK to \in {"running", "completed", "waiting_input"} :
            Transition(p, c, {"running"}, to, job[t].acc, job[t].results, job[t].grants)
      BY <2>7 DEF Continue, SaveResult, Finish, Ask, SaveOr, TransitionOrRace, UpdateSnapshot
    <3>3. c = row[p] /\ c.state # "absent"
      BY <3>1, <3>2 DEF ExecutorInv, FrameInv, Transition, Matches
    <3>4. QED
      BY <2>0, <3>1, <3>2, <3>3 DEF Transition
  <2>8. QED
    BY <1>2, <2>1, <2>3, <2>4, <2>5, <2>6, <2>7
    DEF BeginBuild, Request, Execute, ResumeLoad, CancelLoad, ReadStale, EndBuild,
        EmitBegun, EmitCancelled, BeginRound, StreamItem, EmitDelta, StreamEnd, Flush,
        StreamTypeError, Complete, ProviderError, Settle, EmitResult, NextCall, RunTool,
        Asked, EmitWait, FailLoad, EmitError, Emit, EmitLast, StopIfCancelled
<1>3. QED
  BY <1>1, <1>2 DEF Next

\* No write of a run is lost: whoever changes a row holds a copy that is the row, to the last field, and
\* leaves the next version; a request or a recovery that read earlier changes nothing (execution_store.py:
\* transition, update_snapshot).
THEOREM NothingOverwritten == Spec => NoLostUpdate
<1>1. TypeOK /\ ExecutorInv /\ [Next]_evars =>
        [\A r \in Runs : row[r].state # "absent" /\ row'[r] # row[r] =>
           /\ row'[r].version = row[r].version + 1
           /\ \E t \in Threads : held[t][r] = row[r]]_evars
  BY WriterHoldsRow
<1>2. QED
  BY <1>1, TypeCorrect, ExecutorInvariant, PTL DEF Spec, NoLostUpdate
=============================================================================
