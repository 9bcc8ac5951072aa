--------------------------- MODULE TutorExecutor ---------------------------
(***************************************************************************)
(* The tutor executor of the native core (interest_growth_native/tutor.py) *)
(* run by the request threads of one server process over the shared        *)
(* ExecutionStore, with the lazily built bundle that owns it               *)
(* (bundle.py, pg_api/native_execution.py) and crashes of the process.     *)
(*                                                                         *)
(* A thread serves one request at a time: start, resume, cancel,           *)
(* regenerate, or the construction of the bundle a first request finds     *)
(* missing.  `pc' is where the thread stands, between two calls of the     *)
(* store; `held' is the copy of each row it loaded last; `job' is the rest *)
(* of its frame.                                                           *)
(***************************************************************************)
EXTENDS ExecutionStore

CONSTANTS
  Threads,     \* request threads of the server's pool
  MaxRounds,   \* max_tool_rounds
  MaxConts,    \* max_stream_continuations
  MaxChunks,   \* bound: answer segments a provider streams in one round
  MaxCalls,    \* bound: tool calls a provider requests in one round
  MaxCrashes,  \* bound: process crashes
  MaxVersion   \* bound: a run this many writes old is not resumed again

ASSUME ExecutorAssumption == {MaxRounds, MaxConts, MaxChunks, MaxCalls,
                              MaxCrashes, MaxVersion} \subseteq Nat

VARIABLES
  pc,          \* thread -> the step it takes next
  cur,         \* thread -> the run its request is about
  held,        \* thread -> run -> the row as the thread last loaded it
  job,         \* thread -> the locals of _run_loop and _call_round
  bundle,      \* native_execution._bundle is set
  crashes      \* crashes so far

evars == <<row, log, pc, cur, held, job, bundle, crashes>>

\* A tool name no context granted: the model may ask for anything.
Ungranted == "ungranted"

Job == [acc     : Nat,        \* accumulated
        chunks  : Nat,        \* answer_chunks of this round
        calls   : Seq(Tools \cup {AskUser, Ungranted}),
        finish  : {"stop", "length"},
        results : Nat,        \* tool messages in `messages'
        grants  : SUBSET (Tools \cup {AskUser}),
        rounds  : Nat,        \* rounds begun
        conts   : Nat]        \* continuation_count

NoJob == [acc |-> 0, chunks |-> 0, calls |-> << >>, finish |-> "stop",
          results |-> 0, grants |-> {}, rounds |-> 0, conts |-> 0]

NoCopies == [r \in Runs |-> AbsentRow]

\* Where a thread stands inside _run_loop, before it has tried to end or pause
\* the run.
LoopSteps == {"started", "regenerated", "resumed", "round", "stream", "delta", "flush", "complete",
              "settle", "continue", "finish", "calls", "tool", "save", "ask"}

\* After the run left "running", or on the way there through _fail.
TailSteps == {"asked", "emit_wait", "emit_result", "emit_done",
              "fail", "fail_cas", "emit_error", "emit_error_done"}

Steps == LoopSteps \cup TailSteps \cup
         {"idle", "build", "recover", "resume", "cancel", "emit_cancel", "emit_cancel_done"}

Init == /\ StoreInit
        /\ pc = [t \in Threads |-> "idle"]
        /\ cur = [t \in Threads |-> NoRun]
        /\ held = [t \in Threads |-> NoCopies]
        /\ job = [t \in Threads |-> NoJob]
        /\ bundle = FALSE
        /\ crashes = 0

-----------------------------------------------------------------------------
(* Helpers on a thread's frame. *)

Goto(t, step) == pc' = [pc EXCEPT ![t] = step]

\* The request is over: the frame is gone.
Return(t) == /\ pc' = [pc EXCEPT ![t] = "idle"]
             /\ cur' = [cur EXCEPT ![t] = NoRun]
             /\ held' = [held EXCEPT ![t] = NoCopies]
             /\ job' = [job EXCEPT ![t] = NoJob]

SetJob(t, j) == job' = [job EXCEPT ![t] = j]

\* held' after the thread loads run r.
Load(t, r) == held' = [held EXCEPT ![t][r] = row[r]]

\* A copy no later step uses is not kept.
Forget(t) == held' = [held EXCEPT ![t] = NoCopies]

\* An exception inside the loop: _fail needs to know only the run.
Raise(t) == Goto(t, "fail") /\ Forget(t) /\ SetJob(t, NoJob) /\ UNCHANGED cur

\* Append one event about the thread's run and go on.
Emit(t, step, kind) ==
  /\ Append1(cur[t], kind)
  /\ Goto(t, step)
  /\ UNCHANGED <<row, cur, held, job>>

\* ... and the request is over.
EmitLast(t, kind) ==
  /\ Append1(cur[t], kind)
  /\ Return(t)
  /\ UNCHANGED row

\* What a step of an executing thread never touches.
Process == <<bundle, crashes>>

-----------------------------------------------------------------------------
(* The bundle.  get_native_bundle tests _bundle without a lock, so several  *)
(* threads may construct one at once; each construction recovers the runs   *)
(* it finds running.                                                        *)

BeginBuild(t) ==
  /\ pc[t] = "idle"
  /\ ~ bundle
  /\ Goto(t, "build")
  /\ UNCHANGED <<row, log, cur, held, job, Process>>

\* Mutant of ReadStale: it looks for the runs that wait for the user.
ReadStaleWaiting(t) ==
  /\ pc[t] = "build"
  /\ held' = [held EXCEPT ![t] = [r \in Runs |->
                IF row[r].state = "waiting_input" THEN row[r] ELSE AbsentRow]]
  /\ Goto(t, "recover")
  /\ UNCHANGED <<row, log, cur, job, Process>>

\* stale_running: the rows are selected, and then loaded, some time after the test.
ReadStale(t) ==
  /\ pc[t] = "build"
  /\ held' = [held EXCEPT ![t] = [r \in Runs |->
                IF row[r].state = "running" THEN row[r] ELSE AbsentRow]]
  /\ Goto(t, "recover")
  /\ UNCHANGED <<row, log, cur, job, Process>>

\* One iteration of recover_stale_running: a rejected compare-and-set is passed
\* over, and no event is appended.
RecoverRun(t) ==
  /\ pc[t] = "recover"
  /\ \E r \in Runs :
       /\ held[t][r].state = "running"
       /\ \/ Terminate(r, held[t][r], {"running"}, "error")
          \/ ~ Matches(r, held[t][r], {"running"}) /\ UNCHANGED row
       /\ held' = [held EXCEPT ![t][r] = AbsentRow]
  /\ UNCHANGED <<log, pc, cur, job, Process>>

EndBuild(t) ==
  /\ pc[t] = "recover"
  /\ held[t] = NoCopies
  /\ bundle' = TRUE
  /\ Return(t)
  /\ UNCHANGED <<row, log, crashes>>

\* The process dies: the threads and the bundle are gone, the database stays.
Crash ==
  /\ crashes < MaxCrashes
  /\ crashes' = crashes + 1
  /\ bundle' = FALSE
  /\ pc' = [t \in Threads |-> "idle"]
  /\ cur' = [t \in Threads |-> NoRun]
  /\ held' = [t \in Threads |-> NoCopies]
  /\ job' = [t \in Threads |-> NoJob]
  /\ UNCHANGED <<row, log>>

-----------------------------------------------------------------------------
(* Requests. *)

\* start and regenerate up to the INSERT; a rejected INSERT changes nothing.
Begin(t, r, s, grants, parent, step) ==
  /\ pc[t] = "idle"
  /\ bundle
  /\ CreateRun(r, s, grants, parent)
  /\ Goto(t, step)
  /\ cur' = [cur EXCEPT ![t] = r]
  /\ SetJob(t, [NoJob EXCEPT !.grants = grants])
  /\ UNCHANGED <<log, held, Process>>

Start(t) ==
  \E r \in Runs, s \in Sessions, g \in Grants : Begin(t, r, s, g, NoRun, "started")

\* A new run of the same session.  A terminal run stays terminal, so its load and
\* the INSERT are one step here.
Regenerate(t) ==
  \E p \in Runs, r \in Runs, g \in Grants :
    /\ row[p].state \in Terminal
    /\ Begin(t, r, row[p].session, g, p, "regenerated")

EmitBegun(t) ==
  /\ \/ pc[t] = "started" /\ Emit(t, "round", "run_started")
     \/ pc[t] = "regenerated" /\ Emit(t, "round", "run_regenerated")
     \/ pc[t] = "resumed" /\ Emit(t, "round", "run_resumed")
  /\ UNCHANGED Process

\* Mutant of ResumeLoad: the turn takes the grants of the request.
ResumeLoadRegrants(t) ==
  \E r \in Runs, g \in Grants :
    /\ pc[t] = "idle"
    /\ bundle
    /\ row[r].state = "waiting_input"
    /\ row[r].version < MaxVersion
    /\ Goto(t, "resume")
    /\ cur' = [cur EXCEPT ![t] = r]
    /\ Load(t, r)
    /\ SetJob(t, [NoJob EXCEPT !.acc = row[r].text, !.results = row[r].results + 1, !.grants = g])
    /\ UNCHANGED <<row, log, Process>>

\* Mutant of ResumeLoad: the answer starts again at the reply.
ResumeLoadRestarts(t) ==
  \E r \in Runs, g \in Grants :
    /\ pc[t] = "idle"
    /\ bundle
    /\ row[r].state = "waiting_input"
    /\ row[r].version < MaxVersion
    /\ Goto(t, "resume")
    /\ cur' = [cur EXCEPT ![t] = r]
    /\ Load(t, r)
    /\ SetJob(t, [NoJob EXCEPT !.results = row[r].results + 1, !.grants = row[r].grants \cap g])
    /\ UNCHANGED <<row, log, Process>>

\* resume up to its compare-and-set.  The turn keeps the tools its snapshot
\* granted that the context of this request still grants; the user's answer is
\* one more tool message.
ResumeLoad(t) ==
  \E r \in Runs, g \in Grants :
    /\ pc[t] = "idle"
    /\ bundle
    /\ row[r].state = "waiting_input"
    /\ row[r].version < MaxVersion
    /\ Goto(t, "resume")
    /\ cur' = [cur EXCEPT ![t] = r]
    /\ Load(t, r)
    /\ SetJob(t, [NoJob EXCEPT !.acc = row[r].text,
                               !.results = row[r].results + 1,
                               !.grants = row[r].grants \cap g])
    /\ UNCHANGED <<row, log, Process>>

\* Mutant of ResumeCas: a blind write in place of the compare-and-set.
ResumeBlindly(t) ==
  /\ pc[t] = "resume"
  /\ LET r == cur[t]
         c == held[t][r]
     IN row' = [row EXCEPT ![r] = Written(r, "running", c.text, job[t].results, job[t].grants)]
  /\ Goto(t, "resumed")
  /\ Forget(t)
  /\ UNCHANGED <<log, cur, job, Process>>

ResumeCas(t) ==
  /\ pc[t] = "resume"
  /\ LET r == cur[t]
         c == held[t][r]
     IN \/ /\ Transition(r, c, {"waiting_input"}, "running",
                         c.text, job[t].results, job[t].grants)
           /\ Goto(t, "resumed")
           /\ Forget(t)
           /\ UNCHANGED <<cur, job>>
        \/ /\ ~ Matches(r, c, {"waiting_input"})
           /\ Return(t)
           /\ UNCHANGED row
  /\ UNCHANGED <<log, Process>>

CancelLoad(t) ==
  \E r \in Runs :
    /\ pc[t] = "idle"
    /\ bundle
    /\ IsActive(r)
    /\ Goto(t, "cancel")
    /\ cur' = [cur EXCEPT ![t] = r]
    /\ Load(t, r)
    /\ UNCHANGED <<row, log, job, Process>>

CancelCas(t) ==
  /\ pc[t] = "cancel"
  /\ LET r == cur[t]
         c == held[t][r]
     IN \/ /\ Terminate(r, c, {c.state}, "cancelled")
           /\ Goto(t, "emit_cancel")
           /\ Forget(t)
           /\ UNCHANGED <<cur, job>>
        \/ /\ ~ Matches(r, c, {c.state})
           /\ Return(t)
           /\ UNCHANGED row
  /\ UNCHANGED <<log, Process>>

\* Mutant of EmitCancelled: no done event.
EmitCancelledOnly(t) ==
  /\ pc[t] = "emit_cancel"
  /\ EmitLast(t, "run_cancelled")
  /\ UNCHANGED Process

EmitCancelled(t) ==
  /\ \/ pc[t] = "emit_cancel" /\ Emit(t, "emit_cancel_done", "run_cancelled")
     \/ pc[t] = "emit_cancel_done" /\ EmitLast(t, "done_cancelled")
  /\ UNCHANGED Process

-----------------------------------------------------------------------------
(* _run_loop and _call_round. *)

Cancelled(t) == row[cur[t]].state = "cancelled"

\* A check the loop makes between two calls: a cancelled run ends the request.
StopIfCancelled(t) == Cancelled(t) /\ Return(t) /\ UNCHANGED <<row, log>>

\* The top of the loop.  Past max_tool_rounds + 1 rounds, or when the run is not
\* running, the loop raises.
BeginRound(t) ==
  /\ pc[t] = "round"
  /\ \/ /\ job[t].rounds > MaxRounds
        /\ Raise(t)
        /\ UNCHANGED <<row, log>>
     \/ job[t].rounds <= MaxRounds /\ StopIfCancelled(t)
     \/ /\ job[t].rounds <= MaxRounds
        /\ ~ Cancelled(t)
        /\ IF row[cur[t]].state = "running"
           THEN /\ Goto(t, "stream")
                /\ SetJob(t, [job[t] EXCEPT !.rounds = @ + 1])
                /\ UNCHANGED <<cur, held>>
           ELSE Raise(t)
        /\ UNCHANGED <<row, log>>
  /\ UNCHANGED Process

\* _call_round returned "cancelled": no chunks, no calls.
DropRound(t) ==
  /\ Cancelled(t)
  /\ Goto(t, "settle")
  /\ SetJob(t, [job[t] EXCEPT !.chunks = 0])

\* An item of the stream that is a segment of the answer: the cancellation check,
\* then the segment, which the next step appends to the log.  The other items
\* only collect the calls and the text StreamEnd chooses.
StreamItem(t) ==
  /\ pc[t] = "stream"
  /\ \/ DropRound(t)
     \/ /\ ~ Cancelled(t)
        /\ job[t].chunks < MaxChunks
        /\ Goto(t, "delta")
        /\ SetJob(t, [job[t] EXCEPT !.chunks = @ + 1])
  /\ UNCHANGED <<row, log, cur, held, Process>>

EmitDelta(t) ==
  /\ pc[t] = "delta"
  /\ Emit(t, "stream", "answer_delta")
  /\ UNCHANGED Process

\* What a round ends with: the calls, the finish reason, and text held back so
\* far, which is one more segment of the answer if it is visible (the next step
\* appends it) and narration if not.
EndRound(t, visible, calls, finish) ==
  /\ SetJob(t, [job[t] EXCEPT !.calls = calls, !.finish = finish,
                              !.chunks = IF visible THEN job[t].chunks + 1 ELSE job[t].chunks])
  /\ Goto(t, IF visible THEN "flush" ELSE "settle")

CallLists == UNION {[1..n -> Tools \cup {AskUser, Ungranted}] : n \in 0..MaxCalls}

\* The done item.  Text of no declared visibility is an answer only when the
\* round calls no tool.
StreamEnd(t) ==
  /\ pc[t] = "stream"
  /\ ~ Cancelled(t)
  /\ \E visible \in BOOLEAN, calls \in CallLists, f \in {"stop", "length"} :
       /\ visible => calls = << >>
       /\ EndRound(t, visible, calls, f)
  /\ UNCHANGED <<row, log, cur, held, Process>>

\* A TypeError inside the stream: what was held back is dropped, the segments
\* already in the answer are not, and the round is asked again whole.
StreamTypeError(t) ==
  /\ pc[t] = "stream"
  /\ Goto(t, "complete")
  /\ UNCHANGED <<row, log, cur, held, job, Process>>

\* llm.complete has returned; its text may be declared visible beside calls.
Complete(t) ==
  /\ pc[t] = "complete"
  /\ \/ DropRound(t)
     \/ /\ ~ Cancelled(t)
        /\ \E visible \in BOOLEAN, calls \in CallLists, f \in {"stop", "length"} :
             EndRound(t, visible, calls, f)
  /\ UNCHANGED <<row, log, cur, held, Process>>

Flush(t) ==
  /\ pc[t] = "flush"
  /\ Emit(t, "settle", "answer_delta")
  /\ UNCHANGED Process

\* A call of the provider raised.
ProviderError(t) ==
  /\ pc[t] \in {"stream", "complete"}
  /\ Raise(t)
  /\ UNCHANGED <<row, log, Process>>

\* Mutant of Settle: the chunks of the round replace the answer.
SettleReplaces(t) ==
  /\ pc[t] = "settle"
  /\ \/ StopIfCancelled(t)
     \/ /\ ~ Cancelled(t)
        /\ Load(t, cur[t])
        /\ LET more == job[t].calls = << >> /\ job[t].finish = "length" /\ job[t].conts < MaxConts
           IN /\ SetJob(t, [job[t] EXCEPT !.acc = job[t].chunks, !.chunks = 0, !.finish = "stop",
                                          !.conts = IF more THEN job[t].conts + 1 ELSE job[t].conts])
              /\ Goto(t, IF job[t].calls # << >> THEN "calls"
                         ELSE IF more THEN "continue" ELSE "finish")
        /\ UNCHANGED <<row, log, cur>>
  /\ UNCHANGED Process

\* The round is over: its chunks join the answer and the row is loaded again.
Settle(t) ==
  /\ pc[t] = "settle"
  /\ \/ StopIfCancelled(t)
     \/ /\ ~ Cancelled(t)
        /\ Load(t, cur[t])
        /\ LET more == job[t].calls = << >> /\ job[t].finish = "length" /\ job[t].conts < MaxConts
           IN /\ SetJob(t, [job[t] EXCEPT !.acc = job[t].acc + job[t].chunks, !.chunks = 0,
                                          !.finish = "stop",
                                          !.conts = IF more THEN job[t].conts + 1 ELSE job[t].conts])
              /\ Goto(t, IF job[t].calls # << >> THEN "calls"
                         ELSE IF more THEN "continue" ELSE "finish")
        /\ UNCHANGED <<row, log, cur>>
  /\ UNCHANGED Process

\* update_snapshot with the answer and the messages so far.  A rejected
\* compare-and-set raises.
SaveOr(t, step) ==
  LET r == cur[t]
      c == held[t][r]
  IN \/ /\ UpdateSnapshot(r, c, job[t].acc, job[t].results, job[t].grants)
        /\ Goto(t, step)
        /\ Forget(t)
        /\ UNCHANGED <<cur, job>>
     \/ /\ ~ Matches(r, c, {"running"})
        /\ Raise(t)
        /\ UNCHANGED row

Continue(t) ==
  /\ pc[t] = "continue"
  /\ SaveOr(t, "round")
  /\ UNCHANGED <<log, Process>>

\* Mutant of TransitionOrRace: the callers treat a cancelled row like any other.
TransitionOrAny(t, to, step) ==
  LET r == cur[t]
      c == held[t][r]
      Leave == Goto(t, step) /\ Forget(t) /\ SetJob(t, NoJob) /\ UNCHANGED cur
  IN \/ /\ Transition(r, c, {"running"}, to, job[t].acc, job[t].results, job[t].grants)
        /\ Leave
     \/ /\ ~ Matches(r, c, {"running"})
        /\ \/ row[r].state \in Terminal /\ Leave
           \/ row[r].state \notin Terminal /\ Raise(t)
        /\ UNCHANGED row

\* _transition_or_race: when the compare-and-set is rejected and the run is
\* terminal, the caller gets the terminal row, and only a cancelled one stops it.
\* (Nothing but a terminal row is possible then, and it stays so.)
TransitionOrRace(t, to, step) ==
  LET r == cur[t]
      c == held[t][r]
      Leave == Goto(t, step) /\ Forget(t) /\ SetJob(t, NoJob) /\ UNCHANGED cur
  IN \/ /\ Transition(r, c, {"running"}, to, job[t].acc, job[t].results, job[t].grants)
        /\ Leave
     \/ /\ ~ Matches(r, c, {"running"})
        /\ \/ Cancelled(t) /\ Return(t)
           \/ row[r].state \in Terminal \ {"cancelled"} /\ Leave
           \/ row[r].state \notin Terminal /\ Raise(t)
        /\ UNCHANGED row

Finish(t) ==
  /\ pc[t] = "finish"
  /\ TransitionOrRace(t, "completed", "emit_result")
  /\ UNCHANGED <<log, Process>>

EmitResult(t) ==
  /\ \/ pc[t] = "emit_result" /\ Emit(t, "emit_done", "result")
     \/ pc[t] = "emit_done" /\ EmitLast(t, "done_completed")
  /\ UNCHANGED Process

\* The next tool call of the round: load, then re-authorize the name.
NextCall(t) ==
  /\ pc[t] = "calls"
  /\ \/ /\ job[t].calls = << >>
        /\ Goto(t, "round")
        /\ UNCHANGED <<row, log, cur, held, job>>
     \/ job[t].calls # << >> /\ StopIfCancelled(t)
     \/ /\ job[t].calls # << >>
        /\ ~ Cancelled(t)
        /\ LET n == Head(job[t].calls) IN
             IF n \notin job[t].grants
             THEN Raise(t)
             ELSE /\ Load(t, cur[t])
                  /\ Goto(t, IF n = AskUser THEN "ask" ELSE "tool")
                  /\ UNCHANGED <<cur, job>>
        /\ UNCHANGED <<row, log>>
  /\ UNCHANGED Process

\* The tool ran, or raised.
RunTool(t) ==
  /\ pc[t] = "tool"
  /\ \/ /\ Append1(cur[t], "tool_result")
        /\ SetJob(t, [job[t] EXCEPT !.results = job[t].results + 1,
                                    !.calls = Tail(job[t].calls)])
        /\ Goto(t, "save")
        /\ UNCHANGED <<cur, held>>
     \/ Raise(t) /\ UNCHANGED log
  /\ UNCHANGED <<row, Process>>

\* Mutant of SaveResult: the next call is not loaded and authorized.
SaveAndRun(t) ==
  /\ pc[t] = "save"
  /\ SaveOr(t, "tool")
  /\ UNCHANGED <<log, Process>>

SaveResult(t) ==
  /\ pc[t] = "save"
  /\ SaveOr(t, "calls")
  /\ UNCHANGED <<log, Process>>

\* ask_user: the run waits.  The rest of the round's calls are dropped.
Ask(t) ==
  /\ pc[t] = "ask"
  /\ TransitionOrRace(t, "waiting_input", "asked")
  /\ UNCHANGED <<log, Process>>

\* The row transition returns is loaded after its commit: a cancellation in
\* between is seen here, a reply is not looked for.
Asked(t) ==
  /\ pc[t] = "asked"
  /\ \/ StopIfCancelled(t)
     \/ /\ ~ Cancelled(t)
        /\ Goto(t, "emit_wait")
        /\ UNCHANGED <<row, log, cur, held, job>>
  /\ UNCHANGED Process

EmitWait(t) ==
  /\ pc[t] = "emit_wait"
  /\ EmitLast(t, "wait_for_input")
  /\ UNCHANGED Process

\* Mutant of FailLoad: an error of a cancelled run is announced.
FailLoadAlways(t) ==
  /\ pc[t] = "fail"
  /\ IF row[cur[t]].state = "running"
     THEN Goto(t, "fail_cas") /\ Load(t, cur[t]) /\ UNCHANGED <<cur, job>>
     ELSE Goto(t, "emit_error") /\ UNCHANGED <<cur, held, job>>
  /\ UNCHANGED <<row, log, Process>>

\* _fail: a cancelled run is left alone, a running one becomes an error, and an
\* error, whoever made it one, is announced.
FailLoad(t) ==
  /\ pc[t] = "fail"
  /\ CASE row[cur[t]].state = "running" ->
            Goto(t, "fail_cas") /\ Load(t, cur[t]) /\ UNCHANGED <<cur, job>>
       [] row[cur[t]].state = "error" ->
            Goto(t, "emit_error") /\ UNCHANGED <<cur, held, job>>
       [] OTHER -> Return(t)
  /\ UNCHANGED <<row, log, Process>>

FailCas(t) ==
  /\ pc[t] = "fail_cas"
  /\ LET r == cur[t]
         c == held[t][r]
     IN \/ /\ Terminate(r, c, {"running"}, "error")
           /\ Goto(t, "emit_error")
           /\ Forget(t)
           /\ UNCHANGED <<cur, job>>
        \/ /\ ~ Matches(r, c, {"running"})
           /\ IF row[r].state = "error"
              THEN Goto(t, "emit_error") /\ Forget(t) /\ UNCHANGED <<cur, job>>
              ELSE Return(t)
           /\ UNCHANGED row
  /\ UNCHANGED <<log, Process>>

EmitError(t) ==
  /\ \/ pc[t] = "emit_error" /\ Emit(t, "emit_error_done", "error")
     \/ pc[t] = "emit_error_done" /\ EmitLast(t, "done_error")
  /\ UNCHANGED Process

-----------------------------------------------------------------------------

\* What a thread does by itself once its request has been admitted.
Execute(t) ==
  \/ ReadStale(t) \/ RecoverRun(t) \/ EndBuild(t) \/ EmitBegun(t) \/ ResumeCas(t)
  \/ CancelCas(t) \/ EmitCancelled(t) \/ BeginRound(t) \/ StreamItem(t)
  \/ EmitDelta(t) \/ StreamEnd(t) \/ Flush(t) \/ StreamTypeError(t)
  \/ Complete(t) \/ ProviderError(t) \/ Settle(t)
  \/ Continue(t) \/ Finish(t) \/ EmitResult(t) \/ NextCall(t) \/ RunTool(t)
  \/ SaveResult(t) \/ Ask(t) \/ Asked(t) \/ EmitWait(t) \/ FailLoad(t)
  \/ FailCas(t) \/ EmitError(t)

Request(t) == Start(t) \/ Regenerate(t) \/ ResumeLoad(t) \/ CancelLoad(t)

Next == \/ \E t \in Threads : BeginBuild(t) \/ Request(t) \/ Execute(t)
        \/ Crash

Spec == Init /\ [][Next]_evars

\* A thread that has work runs; the provider's transport has a timeout, so a call
\* of it ends.  No user is obliged to do anything: not to ask, answer or cancel,
\* nor to make the request that constructs the bundle (the start of the process
\* and the client's health poll do not).
Fairness == \A t \in Threads : WF_evars(Execute(t))

FairSpec == Spec /\ Fairness

-----------------------------------------------------------------------------
(* Properties. *)

\* The types of the store and of the threads' frames (execution_store.py,
\* tutor.py): a thread at work has a run, one at a call has a call.
TypeOK ==
  /\ row \in [Runs -> Row]
  /\ log \in [Runs -> Seq(EventKinds)]
  /\ pc \in [Threads -> Steps]
  /\ cur \in [Threads -> Runs \cup {NoRun}]
  /\ held \in [Threads -> [Runs -> Row]]
  /\ job \in [Threads -> Job]
  /\ bundle \in BOOLEAN
  /\ crashes \in 0..MaxCrashes
  /\ \A t \in Threads : /\ pc[t] \notin {"idle", "build", "recover"} => cur[t] \in Runs
                        /\ pc[t] \in {"tool", "ask"} => job[t].calls # << >>

\* A session never has two turns in progress, whatever start, regenerate, resume
\* and recovery do at once (create_run and the unique partial index).
OneActivePerSession ==
  \A q, r \in Runs : /\ IsActive(q)
                      /\ IsActive(r)
                      /\ row[q].session = row[r].session
                      => q = r

\* While a run is running, one thread at most is in its loop, and the row that
\* thread is about to write is the row it read: its compare-and-set can fail only
\* because the run has ended (_run_loop, resume, _transition_or_race).
WriteSteps == {"continue", "finish", "save", "ask", "fail_cas"}

SoleExecutor ==
  \A t \in Threads : LET r == cur[t] IN
    pc[t] \in LoopSteps \cup {"fail", "fail_cas"} /\ row[r].state = "running" =>
      /\ \A u \in Threads \ {t} :
            cur[u] = r => pc[u] \notin LoopSteps \cup {"fail", "fail_cas"}
      /\ pc[t] \in WriteSteps => held[t][r] = row[r]

\* Why a compare-and-set is enough: what a thread must know of the row it is going
\* to write, between any two steps of the others.  This is the invariant the proofs
\* of SoleExecutor and of ImplementsLifecycle are by induction on.
ExecSteps == LoopSteps \cup {"fail", "fail_cas"}

\* Nobody has drawn the run: there is nothing in it and no copy of it.
AbsentOK == \A r \in Runs : row[r].state = "absent" => row[r].text = 0

\* A copy is at most as old as its version says.
CopiesOK(t) ==
  \A r \in Runs : held[t][r].state # "absent" =>
    /\ row[r].state # "absent"
    /\ held[t][r].version <= row[r].version
    /\ held[t][r].version = row[r].version => held[t][r] = row[r]

FrameInv(t) == LET r == cur[t] IN
  /\ pc[t] \notin {"idle", "build", "recover"} => row[r].state # "absent"
  /\ pc[t] \in WriteSteps \cup {"tool"} /\ row[r].state = "running" => held[t][r] = row[r]
  /\ pc[t] \in LoopSteps => row[r].text <= job[t].acc
  /\ pc[t] = "resume" => held[t][r].state = "waiting_input" /\ job[t].acc = held[t][r].text
  /\ pc[t] = "cancel" => held[t][r].state \in Active

\* Of the threads that may still write an active run as its executor there is one,
\* and the run is not waiting.
OneExecutor ==
  \A t, u \in Threads :
    /\ pc[t] \in ExecSteps
    /\ IsActive(cur[t])
    => /\ row[cur[t]].state = "running"
       /\ cur[u] = cur[t] /\ pc[u] \in ExecSteps => u = t

ExecutorInv == /\ AbsentOK
               /\ \A t \in Threads : CopiesOK(t) /\ FrameInv(t)
               /\ OneExecutor

\* A run that pauses or completes has lost nothing: the answer holds every
\* segment streamed to the client, the snapshot every tool result and every
\* answer of the user, across waits, continuations and provider fallbacks.
SnapshotComplete ==
  \A r \in Runs : row[r].state \in {"waiting_input", "completed"} =>
    /\ row[r].text = Count(r, {"answer_delta"})
    /\ row[r].results = Count(r, {"tool_result", "run_resumed"})

\* A cancelled run never announces a result, however late the provider or a tool
\* returns (cancel, _transition_or_race).
CancelWins ==
  \A r \in Runs : row[r].state = "cancelled" =>
    ~ Logged(r, "result") /\ ~ Logged(r, "done_completed")

\* At most one done event is ever published for a run.
OneDone ==
  \A r \in Runs : Count(r, {"done_completed", "done_cancelled", "done_error"}) <= 1

\* A turn never gains a tool: not when it is resumed in a context that grants
\* more (resume), and no tool outside its snapshot runs (execute_granted).
GrantsNeverExpand ==
  [][\A r \in Runs : IsActive(r) =>
       /\ row'[r].grants \subseteq row[r].grants
       /\ \A t \in Threads : /\ cur[t] = r
                             /\ pc[t] = "tool"
                             /\ pc'[t] = "save"
                             => Head(job[t].calls) \in row[r].grants]_evars

\* The executor implements the abstract life of a turn.
Lifecycle == INSTANCE TurnLifecycle WITH
               phase  <- [r \in Runs |-> row[r].state],
               owner  <- [r \in Runs |-> row[r].session],
               answer <- [r \in Runs |-> row[r].text]

ImplementsLifecycle == Lifecycle!Spec

\* If after every crash somebody's request constructs the bundle again, no run
\* stays running: its executor ends or pauses it, or the recovery does
\* (_run_loop's bound, _fail, get_native_bundle, recover_stale_running).
RunsEnd ==
  []<>bundle =>
    \A r \in Runs : (row[r].state = "running") ~> (row[r].state # "running")

\* Unless the process dies, a cancelled run is announced to its readers.
CancelAnnounced ==
  \A r \in Runs :
    (row[r].state = "cancelled") ~> (Logged(r, "done_cancelled") \/ crashes > 0)

\* What the documents promise and the code does not keep: a done event that says
\* "completed" is published only for a completed run (no fake success).
NoFakeSuccess ==
  \A r \in Runs : Logged(r, "done_completed") => row[r].state = "completed"

\* Likewise: once a cancellation has been announced no answer segment follows.
NoAnswerAfterCancel ==
  \A r \in Runs : \A i, j \in DOMAIN log[r] :
    log[r][i] = "done_cancelled" /\ log[r][j] = "answer_delta" => j < i
=============================================================================
