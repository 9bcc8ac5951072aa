----------------------------- MODULE HostTutor -----------------------------
(***************************************************************************)
(* The host's tutor sessions and turns (pg_api/tutor.py and                *)
(* pg_api/routes/tutor.py) over the native executor.                       *)
(*                                                                         *)
(* The host keeps a row of its own for each turn and learns what the       *)
(* native run did only from the run's events: a request thread calls the   *)
(* executor, which runs to its end (TutorExecutor), then reads the events  *)
(* and records them one after another, each in a database session that     *)
(* reads the row and writes the changed columns back without a lock.  The  *)
(* executor and the host share no transaction.                             *)
(*                                                                         *)
(* A session's status (closed, archived) only refuses requests and is left *)
(* out: any session that exists admits a turn.                             *)
(***************************************************************************)
EXTENDS TutorExecutor

CONSTANTS
  Turns,       \* ids of TutorTurnModel, never drawn twice
  NoTurn,      \* "no turn" in a thread's frame
  EventsLimit, \* events start and resume return at most (5000)
  ReplayLimit  \* events replay returns to cancel at most (1000)

ASSUME HostAssumption == /\ NoTurn \notin Turns
                         /\ EventsLimit \in Nat \ {0}
                         /\ ReplayLimit \in Nat

VARIABLES
  exists,      \* session -> its TutorSessionModel row is there
  turn,        \* turn -> its TutorTurnModel row
  hpc,         \* thread -> where it stands in the route's handler
  req,         \* thread -> the locals of the handler
  disturbed    \* turns two requests were about at once, or the process died in one

hvars == <<exists, turn, hpc, req, disturbed>>
vars == <<evars, hvars>>

Ended == {"completed", "failed", "cancelled"}
Open  == {"running", "awaiting_input"}

HostRow == [state   : {"absent", "deleted"} \cup Open \cup Ended,
            session : Sessions,
            run     : Runs \cup {NoRun},    \* upstream_turn_id
            seq     : Nat,                  \* last_seq
            text    : Nat]                  \* answer segments in answer_text

NoTurnRow == [state |-> "absent", session |-> CHOOSE s \in Sessions : TRUE,
              run |-> NoRun, seq |-> 0, text |-> 0]

Req == [kind   : {"none", "start", "resume", "cancel", "delete"},
        turn   : Turns \cup {NoTurn},
        run    : Runs \cup {NoRun},
        next   : Nat,             \* number in the log of the next event to record
        last   : Nat,             \* ... and of the last one
        copy   : HostRow,         \* the row as record_upstream_event has read it
        linked : BOOLEAN,         \* ... and it found the session
        seen   : SUBSET Turns]    \* the turns delete_session has read

NoReq == [kind |-> "none", turn |-> NoTurn, run |-> NoRun, next |-> 1, last |-> 0,
          copy |-> NoTurnRow, linked |-> FALSE, seen |-> {}]

HostSteps == {"free", "bind", "cancel", "native", "mark", "marking",
              "record", "recording", "delete"}

HostInit == /\ Init
            /\ exists = [s \in Sessions |-> TRUE]
            /\ turn = [k \in Turns |-> NoTurnRow]
            /\ hpc = [t \in Threads |-> "free"]
            /\ req = [t \in Threads |-> NoReq]
            /\ disturbed = {}

-----------------------------------------------------------------------------
(* Helpers. *)

HGoto(t, step) == hpc' = [hpc EXCEPT ![t] = step]

\* The response is sent, or the handler raised.
Reply(t) == HGoto(t, "free") /\ req' = [req EXCEPT ![t] = NoReq]

AtMost(n, m) == IF n <= m THEN n ELSE m

Free(t) == hpc[t] = "free" /\ pc[t] = "idle"

Stored(k) == turn[k].state \notin {"absent", "deleted"}

\* A request about turn k is admitted.
Admit(k) == disturbed' = IF \E u \in Threads : req[u].turn = k
                         THEN disturbed \cup {k} ELSE disturbed

-----------------------------------------------------------------------------
(* Requests. *)

\* native_turn_start up to create_tutor_turn.
PostTurn(t) ==
  \E k \in Turns, s \in Sessions :
    /\ Free(t)
    /\ exists[s]
    /\ turn[k].state = "absent"
    /\ turn' = [turn EXCEPT ![k].state = "running", ![k].session = s]
    /\ req' = [req EXCEPT ![t] = [NoReq EXCEPT !.kind = "start", !.turn = k]]
    /\ HGoto(t, "bind")
    /\ UNCHANGED <<evars, exists, disturbed>>

\* The context is built and the executor starts.  A context that is refused (a
\* persona that has gone) or a session that is busy ends the request, and the
\* row stays as it is.
Bind(t) ==
  LET s == turn[req[t].turn].session IN
  /\ hpc[t] = "bind"
  /\ pc[t] = "idle"
  /\ \/ Reply(t) /\ UNCHANGED evars
     \/ \E r \in Runs, g \in Grants :
          /\ Begin(t, r, s, g, NoRun, "started")
          /\ req' = [req EXCEPT ![t].run = r]
          /\ HGoto(t, "native")
  /\ UNCHANGED <<exists, turn, disturbed>>

\* Mutant of PostReply: the events of the whole run are recorded again.
PostReplyFromStart(t) ==
  \E k \in Turns :
    /\ Free(t)
    /\ Stored(k)
    /\ turn[k].run # NoRun
    /\ exists[turn[k].session]
    /\ ResumeLoad(t)
    /\ cur'[t] = turn[k].run
    /\ req' = [req EXCEPT ![t] = [NoReq EXCEPT !.kind = "resume", !.turn = k,
                                               !.run = turn[k].run]]
    /\ HGoto(t, "native")
    /\ Admit(k)
    /\ UNCHANGED <<exists, turn>>

\* native_turn_resume: the row tells the run, and resume reads how many events
\* it already has, if they fit one read.
PostReply(t) ==
  \E k \in Turns :
    /\ Free(t)
    /\ Stored(k)
    /\ turn[k].run # NoRun
    /\ exists[turn[k].session]
    /\ ResumeLoad(t)
    /\ cur'[t] = turn[k].run
    /\ req' = [req EXCEPT ![t] = [NoReq EXCEPT !.kind = "resume", !.turn = k,
                                               !.run = turn[k].run,
                                               !.next = AtMost(Len(log[turn[k].run]), EventsLimit) + 1]]
    /\ HGoto(t, "native")
    /\ Admit(k)
    /\ UNCHANGED <<exists, turn>>

\* Mutant of PostCancel: a turn that is not bound to a run yet is cancelled too.
PostCancelUnbound(t) ==
  \E k \in Turns :
    /\ Free(t)
    /\ Stored(k)
    /\ req' = [req EXCEPT ![t] = [NoReq EXCEPT !.kind = "cancel", !.turn = k,
                                               !.run = turn[k].run,
                                               !.next = turn[k].seq + 1]]
    /\ HGoto(t, "cancel")
    /\ Admit(k)
    /\ UNCHANGED <<evars, exists, turn>>

\* native_turn_cancel reads the row, and what it has recorded, first.
PostCancel(t) ==
  \E k \in Turns :
    /\ Free(t)
    /\ Stored(k)
    /\ turn[k].run # NoRun
    /\ req' = [req EXCEPT ![t] = [NoReq EXCEPT !.kind = "cancel", !.turn = k,
                                               !.run = turn[k].run,
                                               !.next = turn[k].seq + 1]]
    /\ HGoto(t, "cancel")
    /\ Admit(k)
    /\ UNCHANGED <<evars, exists, turn>>

Cancel(t) ==
  /\ hpc[t] = "cancel"
  /\ pc[t] = "idle"
  /\ \/ /\ CancelLoad(t)
        /\ cur'[t] = req[t].run
        /\ HGoto(t, "native")
        /\ UNCHANGED req
     \/ /\ bundle
        /\ ~ IsActive(req[t].run)
        /\ Reply(t)
        /\ UNCHANGED evars
  /\ UNCHANGED <<exists, turn, disturbed>>

\* delete_session reads the turns and refuses when one is active ...
PostDelete(t) ==
  \E s \in Sessions :
    LET of == {k \in Turns : Stored(k) /\ turn[k].session = s} IN
    /\ Free(t)
    /\ exists[s]
    /\ \A k \in of : turn[k].run = NoRun \/ turn[k].state \notin Open
    /\ req' = [req EXCEPT ![t] = [NoReq EXCEPT !.kind = "delete", !.seen = of,
                                               !.copy.session = s]]
    /\ HGoto(t, "delete")
    /\ UNCHANGED <<evars, exists, turn, disturbed>>

\* ... and deletes them and the session.
Delete(t) ==
  /\ hpc[t] = "delete"
  /\ turn' = [k \in Turns |-> IF k \in req[t].seen
                              THEN [turn[k] EXCEPT !.state = "deleted"] ELSE turn[k]]
  /\ exists' = [exists EXCEPT ![req[t].copy.session] = FALSE]
  /\ Reply(t)
  /\ UNCHANGED <<evars, disturbed>>

-----------------------------------------------------------------------------
(* The executor, called by a handler or building its bundle. *)

\* Mutant of Native: a cancellation that came too late is recorded as one.
NativeIgnoresRefusal(t) ==
  /\ Execute(t)
  /\ IF pc[t] = "cancel" /\ pc'[t] = "idle"
     THEN Reply(t) /\ turn' = [turn EXCEPT ![req[t].turn].state = "cancelled"]
     ELSE IF pc[t] = "resume" /\ pc'[t] = "idle"
          THEN Reply(t) /\ UNCHANGED turn
          ELSE UNCHANGED <<hpc, req, turn>>
  /\ UNCHANGED <<exists, disturbed>>

\* A reply or a cancellation that loses its compare-and-set raises: the handler
\* records nothing.
Native(t) ==
  /\ Execute(t)
  /\ IF pc[t] \in {"resume", "cancel"} /\ pc'[t] = "idle"
     THEN Reply(t)
     ELSE UNCHANGED <<hpc, req>>
  /\ UNCHANGED <<exists, turn, disturbed>>

\* get_native_bundle, in a handler.
Construct(t) == /\ hpc[t] \in {"free", "bind", "cancel"}
                /\ BeginBuild(t)
                /\ UNCHANGED hvars

\* The executor has returned with the events of the run so far: start and resume
\* with those after a point, cancel with the first ones of the whole run.
Page(q) == IF q.kind = "cancel" THEN ReplayLimit ELSE q.next - 1 + EventsLimit

Collect(t) ==
  /\ hpc[t] = "native"
  /\ pc[t] = "idle"
  /\ req' = [req EXCEPT ![t].last = AtMost(Len(log[req[t].run]), Page(req[t]))]
  /\ HGoto(t, IF req[t].kind = "resume" THEN "mark" ELSE "record")
  /\ UNCHANGED <<evars, exists, turn, disturbed>>

-----------------------------------------------------------------------------
(* Writing the host's row.  A database session reads it in one step and     *)
(* writes the columns it changed in another; it raises when the row, or the *)
(* session it had found, has gone.                                          *)

ReadRow(t, step) ==
  LET k == req[t].turn IN
  IF Stored(k)
  THEN /\ req' = [req EXCEPT ![t].copy = turn[k], ![t].linked = exists[turn[k].session]]
       /\ HGoto(t, step)
  ELSE Reply(t)

Gone(t) == LET k == req[t].turn IN
  ~ Stored(k) \/ (req[t].linked /\ ~ exists[turn[k].session])

\* Row k after a write of `new' by a session that had read `old'.
Merged(k, old, new) ==
  [f \in DOMAIN turn[k] |-> IF new[f] = old[f] THEN turn[k][f] ELSE new[f]]

\* mark_turn_resumed.
ReadMark(t) ==
  /\ hpc[t] = "mark"
  /\ ReadRow(t, "marking")
  /\ UNCHANGED <<evars, exists, turn, disturbed>>

WriteMark(t) ==
  /\ hpc[t] = "marking"
  /\ IF ~ Stored(req[t].turn)
     THEN Reply(t) /\ UNCHANGED turn
     ELSE LET k == req[t].turn
              c == req[t].copy
          IN /\ turn' = IF c.state = "awaiting_input"
                        THEN [turn EXCEPT ![k].state = "running"] ELSE turn
             /\ HGoto(t, "record")
             /\ UNCHANGED req
  /\ UNCHANGED <<evars, exists, disturbed>>

\* The states record_upstream_event may give a turn for an event.  A done event of
\* status "error" is none of the four it knows.  The sources some tool results
\* come with make a waiting turn run.
StatesAfter(c, event) ==
  CASE event = "wait_for_input" -> {"awaiting_input"}
    [] event = "error" -> {"failed"}
    [] event = "done_cancelled" -> {"cancelled"}
    [] event \in {"done_completed", "done_error"} -> {"completed"}
    [] event = "tool_result" /\ c.state = "awaiting_input" -> {c.state, "running"}
    [] OTHER -> {c.state}

Recorded(c, r, n, state) ==
  [c EXCEPT !.run = r,
            !.seq = IF n > c.seq THEN n ELSE c.seq,
            !.text = IF log[r][n] = "answer_delta" THEN c.text + 1 ELSE c.text,
            !.state = state]

ReadRecord(t) ==
  /\ hpc[t] = "record"
  /\ IF req[t].next > req[t].last THEN Reply(t) ELSE ReadRow(t, "recording")
  /\ UNCHANGED <<evars, exists, turn, disturbed>>

WriteRecord(t) ==
  /\ hpc[t] = "recording"
  /\ IF Gone(t)
     THEN Reply(t) /\ UNCHANGED turn
     ELSE LET k == req[t].turn
              c == req[t].copy
              r == req[t].run
              n == req[t].next
          IN /\ \E state \in StatesAfter(c, log[r][n]) :
                  turn' = [turn EXCEPT ![k] = Merged(k, c, Recorded(c, r, n, state))]
             /\ req' = [req EXCEPT ![t].next = @ + 1, ![t].copy = NoTurnRow, ![t].linked = FALSE]
             /\ HGoto(t, "record")
  /\ UNCHANGED <<evars, exists, disturbed>>

-----------------------------------------------------------------------------

HostCrash ==
  /\ Crash
  /\ hpc' = [t \in Threads |-> "free"]
  /\ req' = [t \in Threads |-> NoReq]
  /\ disturbed' = disturbed \cup ({req[t].turn : t \in Threads} \cap Turns)
  /\ UNCHANGED <<exists, turn>>

HostNext ==
  \/ \E t \in Threads :
       \/ PostTurn(t) \/ PostReply(t) \/ PostCancel(t) \/ PostDelete(t)
       \/ Bind(t) \/ Cancel(t) \/ Delete(t)
       \/ Construct(t) \/ Native(t) \/ Collect(t)
       \/ ReadMark(t) \/ WriteMark(t) \/ ReadRecord(t) \/ WriteRecord(t)
  \/ HostCrash

HostSpec == HostInit /\ [][HostNext]_vars

-----------------------------------------------------------------------------
(* Properties. *)

\* The types of the host's rows and of the handlers' locals (pg_api/tutor.py).
HostTypeOK ==
  /\ exists \in [Sessions -> BOOLEAN]
  /\ turn \in [Turns -> HostRow]
  /\ hpc \in [Threads -> HostSteps]
  /\ req \in [Threads -> Req]
  /\ disturbed \subseteq Turns
  /\ \A t \in Threads :
       /\ hpc[t] \notin {"free", "delete"} => /\ req[t].turn \in Turns
                                             /\ turn[req[t].turn].state # "absent"
       /\ hpc[t] \notin {"free", "delete", "bind"} => req[t].run \in Runs

\* A turn the host shows as ended has an ended run, and one it shows as cancelled
\* a cancelled run, whichever requests recorded its events in whichever order.
EndedTurnEndedRun ==
  \A k \in Turns : turn[k].state \in Ended =>
    /\ row[turn[k].run].state \in Terminal
    /\ turn[k].state = "cancelled" => row[turn[k].run].state = "cancelled"

\* The requests about turn k came one at a time, were not cut off by a crash, and
\* are answered.
Quiet(k) == /\ Stored(k)
            /\ turn[k].run # NoRun
            /\ exists[turn[k].session]
            /\ k \notin disturbed
            /\ \A t \in Threads : req[t].turn # k

\* Between its requests a turn mirrors its run, as far as the reads of its events
\* go: it shows every answer segment once, and waits, has completed or is cancelled
\* when the run is (start's, resume's and cancel's ranges of events fit together).
Mirrors ==
  \A k \in Turns :
    LET r == turn[k].run IN
    /\ Quiet(k)
    /\ Len(log[r]) <= EventsLimit
    /\ row[r].state = "cancelled" => Len(log[r]) <= ReplayLimit
    => /\ turn[k].seq = Len(log[r])
       /\ turn[k].text = Count(r, {"answer_delta"})
       /\ row[r].state # "error" =>
            turn[k].state = IF row[r].state = "waiting_input" THEN "awaiting_input"
                            ELSE row[r].state

\* What the documents promise and the code does not keep: a turn is shown as
\* completed only if its run completed (failures terminalize explicitly).
NoHostFakeSuccess ==
  \A k \in Turns : turn[k].state = "completed" => row[turn[k].run].state = "completed"

\* Likewise: a turn that was cancelled is shown as cancelled.
CancelShown ==
  \A k \in Turns : Quiet(k) /\ row[turn[k].run].state = "cancelled"
                     => turn[k].state = "cancelled"

\* Likewise: a session is deleted only when none of its runs is active.
NoRunWithoutSession ==
  \A r \in Runs : IsActive(r) => exists[row[r].session]
=============================================================================
