-------------------------- MODULE TutorLog_proofs --------------------------
EXTENDS TutorExecutor_proofs, FiniteSetTheorems

-----------------------------------------------------------------------------
(* What an appended event does to the log. *)

\* The events an append leaves where they were, and the one it adds.
LEMMA AppendedEvents ==
  ASSUME TypeOK, NEW r \in Runs, NEW k \in EventKinds, Append1(r, k)
  PROVE  /\ \A q \in Runs \ {r} : log'[q] = log[q]
         /\ Len(log[r]) \in Nat
         /\ DOMAIN log[r] = 1..Len(log[r])
         /\ DOMAIN log'[r] = 1..(Len(log[r]) + 1)
         /\ \A i \in 1..Len(log[r]) : log'[r][i] = log[r][i]
         /\ log'[r][Len(log[r]) + 1] = k
<1>1. log[r] \in Seq(EventKinds) /\ log'[r] = Append(log[r], k)
  BY DEF TypeOK, Append1
<1>2. \A q \in Runs \ {r} : log'[q] = log[q]
  BY DEF TypeOK, Append1
<1>3. QED
  BY <1>1, <1>2

\* Count counts.
LEMMA CountAppended ==
  ASSUME TypeOK, NEW r \in Runs, NEW k \in EventKinds, Append1(r, k), NEW kinds
  PROVE  /\ Count(r, kinds)' = IF k \in kinds THEN Count(r, kinds) + 1 ELSE Count(r, kinds)
         /\ \A q \in Runs \ {r} : Count(q, kinds)' = Count(q, kinds)
<1>1. PICK n \in Nat : n = Len(log[r])
  BY DEF TypeOK
<1>2. PICK S : S = {i \in DOMAIN log[r] : log[r][i] \in kinds}
  OBVIOUS
<1>3. S \subseteq 1..n /\ n + 1 \notin S
  BY <1>1, <1>2, AppendedEvents
<1>4. IsFiniteSet(S)
  <2>1. 1 \in Int /\ n \in Int
    OBVIOUS
  <2>2. IsFiniteSet(1..n)
    BY <2>1, FS_Interval
  <2>3. QED
    BY <1>3, <2>2, FS_Subset
<1>5. PICK T : T = {i \in DOMAIN log'[r] : log'[r][i] \in kinds}
  OBVIOUS
<1>6. T = IF k \in kinds THEN S \cup {n + 1} ELSE S
  BY <1>1, <1>2, <1>5, AppendedEvents
<1>7. Cardinality(T) = IF k \in kinds THEN Cardinality(S) + 1 ELSE Cardinality(S)
  BY <1>3, <1>4, <1>6, FS_AddElement
<1>8. Count(r, kinds) = Cardinality(S) /\ Count(r, kinds)' = Cardinality(T)
  BY <1>2, <1>5 DEF Count
<1>9. ASSUME NEW q \in Runs \ {r} PROVE Count(q, kinds)' = Count(q, kinds)
  <2>1. log'[q] = log[q]
    BY AppendedEvents
  <2>2. QED
    BY <2>1 DEF Count
<1>10. QED
  BY <1>7, <1>8, <1>9

LEMMA CountType ==
  ASSUME TypeOK, NEW r \in Runs, NEW kinds
  PROVE  Count(r, kinds) \in Nat
<1>1. DOMAIN log[r] = 1..Len(log[r]) /\ Len(log[r]) \in Nat
  BY DEF TypeOK
<1>2. {i \in DOMAIN log[r] : log[r][i] \in kinds} \subseteq 1..Len(log[r])
  BY <1>1
<1>3. 1 \in Int /\ Len(log[r]) \in Int
  BY <1>1
<1>4. IsFiniteSet(1..Len(log[r]))
  BY <1>3, FS_Interval
<1>5. IsFiniteSet({i \in DOMAIN log[r] : log[r][i] \in kinds})
  BY <1>2, <1>4, FS_Subset
<1>6. QED
  BY <1>5, FS_CardinalityType DEF Count

LEMMA CountKept ==
  ASSUME log' = log, NEW r, NEW kinds
  PROVE  Count(r, kinds)' = Count(r, kinds)
  BY DEF Count

LEMMA LoggedAppended ==
  ASSUME TypeOK, NEW r \in Runs, NEW k \in EventKinds, Append1(r, k), NEW q \in Runs, NEW kind
  PROVE  Logged(q, kind)' <=> Logged(q, kind) \/ (q = r /\ kind = k)
<1>1. CASE q # r
  <2>1. log'[q] = log[q]
    BY <1>1, AppendedEvents
  <2>2. QED
    BY <1>1, <2>1 DEF Logged
<1>2. CASE q = r
  <2>1. PICK n \in Nat : n = Len(log[r])
    BY AppendedEvents
  <2>2. DOMAIN log[r] = 1..n /\ DOMAIN log'[r] = 1..(n + 1)
    BY <2>1, AppendedEvents
  <2>3. (\A i \in 1..n : log'[r][i] = log[r][i]) /\ log'[r][n + 1] = k
    BY <2>1, AppendedEvents
  <2>4. 1..(n + 1) = 1..n \cup {n + 1}
    BY <2>1
  <2>5. QED
    BY <1>2, <2>2, <2>3, <2>4 DEF Logged
<1>3. QED
  BY <1>1, <1>2

LEMMA LoggedKept ==
  ASSUME log' = log, NEW r, NEW kind
  PROVE  Logged(r, kind)' <=> Logged(r, kind)
  BY DEF Logged

-----------------------------------------------------------------------------
(* Who may still close a run: its executor while it is in the loop or announces *)
(* an outcome, and the one cancellation that won its compare-and-set.           *)

Closing == ExecSteps \cup {"emit_result", "emit_done", "emit_error", "emit_error_done"}
CancelSteps == {"emit_cancel", "emit_cancel_done"}
Dones == {"done_completed", "done_cancelled", "done_error"}

SoleCloser ==
  \A t, u \in Threads : t # u /\ cur[t] = cur[u] =>
    /\ ~ (pc[t] \in Closing /\ pc[u] \in Closing)
    /\ ~ (pc[t] \in CancelSteps /\ pc[u] \in CancelSteps)

\* What a thread announces is what the row says.
AnnouncesOK(t) == LET r == cur[t] IN
  /\ pc[t] \in {"emit_result", "emit_done"} => row[r].state \in {"completed", "error"}
  /\ pc[t] \in {"emit_error", "emit_error_done"} => row[r].state = "error"
  /\ pc[t] \in CancelSteps => row[r].state = "cancelled"
  /\ pc[t] \in ExecSteps => row[r].state # "completed"

\* A done event is the last act of its closer, and an answer is announced only for
\* a run nobody cancelled.
ClosedOK(r) ==
  /\ Count(r, Dones) <= 1
  /\ Count(r, Dones) # 0 =>
       /\ row[r].state \in Terminal
       /\ \A t \in Threads : cur[t] = r =>
            IF row[r].state = "cancelled" THEN pc[t] \notin CancelSteps ELSE pc[t] \notin Closing
  /\ Logged(r, "result") \/ Logged(r, "done_completed") => row[r].state \in {"completed", "error"}

CloserInv == /\ SoleCloser
             /\ \A t \in Threads : AnnouncesOK(t)
             /\ \A r \in Runs : ClosedOK(r)

LEMMA StepSets ==
  /\ ExecSteps \subseteq Closing
  /\ Closing \cap CancelSteps = {}
  /\ ExecSteps \cap {"emit_result", "emit_done", "emit_error", "emit_error_done"} = {}
  /\ Closing \cap NotAtWork = {} /\ CancelSteps \cap NotAtWork = {}
  /\ Closing \cap {"resume", "cancel", "asked", "emit_wait"} = {}
  /\ CancelSteps \cap {"resume", "cancel", "asked", "emit_wait"} = {}
  BY DEF Closing, CancelSteps, ExecSteps, LoopSteps, NotAtWork

\* A step that writes no row and publishes no done event.
LEMMA CloserStill ==
  ASSUME TypeOK, CloserInv, NEW t \in Threads, OthersKeep(t), row' = row,
         \A q \in Runs :
           /\ Count(q, Dones)' = Count(q, Dones)
           /\ Logged(q, "done_completed")' <=> Logged(q, "done_completed")
           /\ Logged(q, "result")' =>
                Logged(q, "result") \/ row[q].state \in {"completed", "error"},
         pc'[t] \in Closing => pc[t] \in Closing /\ cur'[t] = cur[t],
         pc'[t] \in CancelSteps => pc[t] \in CancelSteps /\ cur'[t] = cur[t],
         AnnouncesOK(t)'
  PROVE  CloserInv'
<1>1. \A u \in Threads \ {t} : pc'[u] = pc[u] /\ cur'[u] = cur[u]
  BY DEF OthersKeep
<1>2. SoleCloser'
  BY <1>1 DEF CloserInv, SoleCloser
<1>3. ASSUME NEW u \in Threads PROVE AnnouncesOK(u)'
  BY <1>1 DEF CloserInv, AnnouncesOK
<1>4. ASSUME NEW r \in Runs PROVE ClosedOK(r)'
  <2>1. ClosedOK(r)
    BY DEF CloserInv
  <2>2. \A u \in Threads :
          /\ pc'[u] \in Closing => pc[u] \in Closing /\ cur'[u] = cur[u]
          /\ pc'[u] \in CancelSteps => pc[u] \in CancelSteps /\ cur'[u] = cur[u]
    BY <1>1
  <2>3. /\ Count(r, Dones)' <= 1
        /\ Count(r, Dones)' # 0 => row'[r].state \in Terminal
        /\ Logged(r, "result")' \/ Logged(r, "done_completed")'
             => row'[r].state \in {"completed", "error"}
    BY <2>1 DEF ClosedOK
  <2>4. ASSUME Count(r, Dones)' # 0, NEW u \in Threads, cur'[u] = r
        PROVE  IF row'[r].state = "cancelled" THEN pc'[u] \notin CancelSteps
                                              ELSE pc'[u] \notin Closing
    <3>1. \A v \in Threads : cur[v] = r =>
            IF row[r].state = "cancelled" THEN pc[v] \notin CancelSteps ELSE pc[v] \notin Closing
      BY <2>1, <2>4 DEF ClosedOK
    <3>2. QED
      BY <2>2, <2>4, <3>1
  <2>5. QED
    BY <2>3, <2>4 DEF ClosedOK
<1>5. QED
  BY <1>2, <1>3, <1>4 DEF CloserInv

\* A write of a run that had not ended.
LEMMA CloserWrite ==
  ASSUME TypeOK, ExecutorInv, CloserInv, NEW t \in Threads, NEW r \in Runs, NEW w \in Row,
         OthersKeep(t), row' = [row EXCEPT ![r] = w], log' = log,
         row[r].state \notin Terminal,
         pc'[t] \in Closing =>
           cur'[t] = r /\ ((pc[t] \in Closing /\ cur[t] = r) \/ row[r].state # "running"),
         pc'[t] \in CancelSteps => cur'[t] = r,
         w.state = "completed" => pc[t] \in ExecSteps /\ cur[t] = r /\ pc'[t] \notin ExecSteps,
         AnnouncesOK(t)'
  PROVE  CloserInv'
<1>1. \A u \in Threads \ {t} : pc'[u] = pc[u] /\ cur'[u] = cur[u]
  BY DEF OthersKeep
<1>2. row'[r] = w /\ \A q \in Runs \ {r} : row'[q] = row[q]
  BY DEF TypeOK
<1>3. \A u \in Threads : pc[u] \in Closing \cup CancelSteps => cur[u] \in Runs
  BY StepSets DEF TypeOK, NotAtWork
<1>4. \A u \in Threads : cur[u] = r =>
        /\ pc[u] \notin CancelSteps
        /\ pc[u] \in Closing => pc[u] \in ExecSteps
        /\ row[r].state # "running" => pc[u] \notin Closing
  <2>1. ASSUME NEW u \in Threads, cur[u] = r
        PROVE  /\ pc[u] \notin CancelSteps
               /\ pc[u] \in Closing => pc[u] \in ExecSteps
    BY <2>1 DEF CloserInv, AnnouncesOK, Terminal, Closing
  <2>2. ASSUME NEW u \in Threads, cur[u] = r, row[r].state # "running", pc[u] \in ExecSteps
        PROVE  FALSE
    <3>1. row[r].state # "absent"
      BY <2>2 DEF ExecutorInv, FrameInv, ExecSteps, LoopSteps
    <3>2. row[r].state \in Active
      BY <3>1 DEF TypeOK, Row, States
    <3>3. QED
      BY <2>2, <3>2 DEF ExecutorInv, OneExecutor, IsActive
  <2>3. QED
    BY <2>1, <2>2
<1>5. SoleCloser'
  <2> SUFFICES ASSUME NEW u \in Threads, NEW v \in Threads, u # v, cur'[u] = cur'[v]
               PROVE  /\ ~ (pc'[u] \in Closing /\ pc'[v] \in Closing)
                      /\ ~ (pc'[u] \in CancelSteps /\ pc'[v] \in CancelSteps)
    BY DEF SoleCloser
  <2>1. CASE u # t /\ v # t
    BY <1>1, <2>1 DEF CloserInv, SoleCloser
  <2>2. ASSUME NEW x \in Threads \ {t}, cur'[x] = cur'[t]
        PROVE  /\ ~ (pc'[t] \in Closing /\ pc'[x] \in Closing)
               /\ ~ (pc'[t] \in CancelSteps /\ pc'[x] \in CancelSteps)
    <3>1. pc'[x] = pc[x] /\ cur[x] = cur'[t]
      BY <1>1, <2>2
    <3>2. CASE pc'[t] \in CancelSteps
      <4>1. pc[x] \notin CancelSteps
        BY <1>4, <3>1, <3>2
      <4>2. pc'[t] \notin Closing
        BY <3>2, StepSets
      <4>3. QED
        BY <3>1, <4>1, <4>2
    <3>3. CASE pc'[t] \in Closing
      <4>1. pc[x] \notin Closing
        BY <1>4, <2>2, <3>1, <3>3 DEF CloserInv, SoleCloser
      <4>2. pc'[t] \notin CancelSteps
        BY <3>3, StepSets
      <4>3. QED
        BY <3>1, <4>1, <4>2
    <3>4. QED
      BY <3>2, <3>3
  <2>3. QED
    BY <2>1, <2>2
<1>6. ASSUME NEW u \in Threads PROVE AnnouncesOK(u)'
  <2>1. CASE u = t
    BY <2>1
  <2>2. CASE u # t
    <3>1. AnnouncesOK(u) /\ pc'[u] = pc[u] /\ cur'[u] = cur[u]
      BY <1>1, <2>2 DEF CloserInv
    <3>2. CASE cur[u] # r
      <4>1. cur[u] \in Runs => row'[cur[u]] = row[cur[u]]
        BY <1>2, <3>2
      <4>2. cur[u] \notin Runs => pc[u] \notin Closing \cup CancelSteps
        BY <1>3
      <4>3. QED
        BY <3>1, <4>1, <4>2 DEF AnnouncesOK, Closing
    <3>3. CASE cur[u] = r
      <4>1. pc[u] \in ExecSteps => w.state # "completed"
        BY <2>2, <3>3, StepSets DEF CloserInv, SoleCloser
      <4>2. pc[u] \notin CancelSteps /\ (pc[u] \in Closing => pc[u] \in ExecSteps)
        BY <1>4, <3>3
      <4>3. pc[u] \notin {"emit_result", "emit_done", "emit_error", "emit_error_done"}
        BY <4>2, StepSets DEF Closing
      <4>4. QED
        BY <1>2, <3>1, <3>3, <4>1, <4>2, <4>3 DEF AnnouncesOK
    <3>4. QED
      BY <3>2, <3>3
  <2>3. QED
    BY <2>1, <2>2
<1>7. ASSUME NEW q \in Runs PROVE ClosedOK(q)'
  <2>1. ClosedOK(q)
    BY DEF CloserInv
  <2>2. /\ Count(q, Dones)' = Count(q, Dones)
        /\ Logged(q, "result")' <=> Logged(q, "result")
        /\ Logged(q, "done_completed")' <=> Logged(q, "done_completed")
    BY CountKept, LoggedKept
  <2>3. CASE q = r
    <3>1. Count(r, Dones) = 0 /\ ~ Logged(r, "result") /\ ~ Logged(r, "done_completed")
      BY <2>1, <2>3, CountType DEF ClosedOK, Terminal
    <3>2. QED
      BY <2>2, <2>3, <3>1 DEF ClosedOK
  <2>4. CASE q # r
    <3>1. row'[q] = row[q]
      BY <1>2, <2>4
    <3>2. \A u \in Threads : cur'[u] = q /\ pc'[u] \in Closing \cup CancelSteps =>
                              cur[u] = q /\ pc'[u] = pc[u]
      BY <1>1, <2>4
    <3>3. QED
      BY <2>1, <2>2, <3>1, <3>2 DEF ClosedOK
  <2>5. QED
    BY <2>3, <2>4
<1>8. QED
  BY <1>5, <1>6, <1>7 DEF CloserInv

\* The done event: its closer is done with the run.
LEMMA CloserDone ==
  ASSUME TypeOK, CloserInv, NEW t \in Threads, NEW k \in Dones, EmitLast(t, k), cur[t] \in Runs,
         k = "done_cancelled" <=> pc[t] \in CancelSteps,
         k # "done_cancelled" => pc[t] \in {"emit_done", "emit_error_done"}
  PROVE  CloserInv'
<1>0. PICK r \in Runs : r = cur[t]
  OBVIOUS
<1>1. OthersKeep(t) /\ pc'[t] = "idle" /\ row' = row /\ Append1(r, k)
  BY <1>0 DEF TypeOK, EmitLast, Return, OthersKeep
<1>2. \A u \in Threads \ {t} : pc'[u] = pc[u] /\ cur'[u] = cur[u]
  BY <1>1 DEF OthersKeep
<1>3. pc'[t] \notin Closing \cup CancelSteps
  BY <1>1, StepSets DEF NotAtWork
<1>4. SoleCloser'
  BY <1>2, <1>3 DEF CloserInv, SoleCloser
<1>5. ASSUME NEW u \in Threads PROVE AnnouncesOK(u)'
  BY <1>1, <1>2, <1>3 DEF CloserInv, AnnouncesOK, Closing
<1>6. k \in EventKinds
  BY DEF Dones, EventKinds
<1>7. IF k = "done_cancelled" THEN row[r].state = "cancelled"
                              ELSE row[r].state \in {"completed", "error"}
  BY <1>0 DEF CloserInv, AnnouncesOK
<1>8. Count(r, Dones) = 0
  <2>1. ClosedOK(r)
    BY DEF CloserInv
  <2>2. CASE k = "done_cancelled"
    BY <1>0, <1>7, <2>1, <2>2 DEF ClosedOK
  <2>3. CASE k # "done_cancelled"
    BY <1>0, <1>7, <2>1, <2>3 DEF ClosedOK, Closing
  <2>4. QED
    BY <2>2, <2>3
<1>9. ASSUME NEW q \in Runs PROVE ClosedOK(q)'
  <2>1. ClosedOK(q)
    BY DEF CloserInv
  <2>2. CASE q # r
    <3>1. Count(q, Dones)' = Count(q, Dones)
      BY <1>1, <1>6, <2>2, CountAppended
    <3>2. /\ Logged(q, "result")' <=> Logged(q, "result")
          /\ Logged(q, "done_completed")' <=> Logged(q, "done_completed")
      BY <1>1, <1>6, <2>2, LoggedAppended
    <3>3. QED
      BY <1>1, <1>2, <1>3, <2>1, <3>1, <3>2 DEF ClosedOK
  <2>3. CASE q = r
    <3>1. Count(r, Dones)' = 1
      BY <1>1, <1>6, <1>8, CountAppended
    <3>2. /\ Logged(r, "result")' <=> Logged(r, "result")
          /\ Logged(r, "done_completed")' <=> Logged(r, "done_completed") \/ k = "done_completed"
      <4>1. k # "result"
        BY DEF Dones
      <4>2. QED
        BY <1>1, <1>6, <4>1, LoggedAppended
    <3>3. row[r].state \in Terminal
      BY <1>7 DEF Terminal
    <3>4. ASSUME NEW u \in Threads, cur'[u] = r
          PROVE  IF row[r].state = "cancelled" THEN pc'[u] \notin CancelSteps
                                               ELSE pc'[u] \notin Closing
      <4>1. CASE u = t
        BY <1>3, <4>1
      <4>2. CASE u # t
        <5>1. pc'[u] = pc[u] /\ cur[u] = r
          BY <1>2, <3>4, <4>2
        <5>2. CASE k = "done_cancelled"
          BY <1>0, <1>7, <4>2, <5>1, <5>2 DEF CloserInv, SoleCloser
        <5>3. CASE k # "done_cancelled"
          <6>1. pc[t] \in Closing
            BY <5>3 DEF Closing
          <6>2. QED
            BY <1>0, <1>7, <4>2, <5>1, <5>3, <6>1 DEF CloserInv, SoleCloser
        <5>4. QED
          BY <5>2, <5>3
      <4>3. QED
        BY <4>1, <4>2
    <3>5. Logged(r, "result")' \/ Logged(r, "done_completed")' => row[r].state \in {"completed", "error"}
      BY <1>7, <2>1, <2>3, <3>2 DEF ClosedOK
    <3>6. QED
      BY <1>1, <2>3, <3>1, <3>3, <3>4, <3>5 DEF ClosedOK
  <2>4. QED
    BY <2>2, <2>3
<1>10. QED
  BY <1>4, <1>5, <1>9 DEF CloserInv

\* A step about an event that closes nothing, or about none.
LEMMA Unclosed ==
  ASSUME TypeOK, NEW r \in Runs, NEW k \in EventKinds \ (Dones \cup {"result"}),
         Append1(r, k) \/ log' = log, NEW q \in Runs
  PROVE  /\ Count(q, Dones)' = Count(q, Dones)
         /\ Logged(q, "done_completed")' <=> Logged(q, "done_completed")
         /\ Logged(q, "result")' <=> Logged(q, "result")
<1>1. CASE log' = log
  BY <1>1, CountKept, LoggedKept
<1>2. CASE Append1(r, k)
  <2>1. k # "done_completed" /\ k # "result" /\ k \notin Dones
    BY DEF Dones
  <2>2. Count(q, Dones)' = Count(q, Dones)
    BY <1>2, <2>1, CountAppended
  <2>3. QED
    BY <1>2, <2>1, <2>2, LoggedAppended
<1>3. QED
  BY <1>1, <1>2

\* The thread is not a closer afterwards.
LEMMA CloserLeaves ==
  ASSUME TypeOK, CloserInv, NEW t \in Threads, OthersKeep(t), row' = row, log' = log,
         pc'[t] \notin Closing \cup CancelSteps
  PROVE  CloserInv'
<1>1. AnnouncesOK(t)'
  BY DEF AnnouncesOK, Closing
<1>2. QED
  BY <1>1, CloserStill, CountKept, LoggedKept

\* The thread goes on in the loop.
LEMMA CloserLoops ==
  ASSUME TypeOK, CloserInv, NEW t \in Threads, OthersKeep(t), row' = row, log' = log,
         pc[t] \in ExecSteps, pc'[t] \in ExecSteps, cur'[t] = cur[t]
  PROVE  CloserInv'
<1>1. AnnouncesOK(t)'
  BY StepSets DEF CloserInv, AnnouncesOK
<1>2. QED
  BY <1>1, CloserStill, CountKept, LoggedKept, StepSets

LEMMA CloserReturns ==
  ASSUME TypeOK, CloserInv, NEW t \in Threads, row' = row, log' = log, Return(t)
  PROVE  CloserInv'
<1>1. OthersKeep(t) /\ pc'[t] = "idle"
  BY DEF TypeOK, Return, OthersKeep
<1>2. QED
  BY <1>1, CloserLeaves, StepSets DEF NotAtWork

LEMMA CloserRaises ==
  ASSUME TypeOK, CloserInv, NEW t \in Threads, row' = row, log' = log, Raise(t),
         pc[t] \in LoopSteps
  PROVE  CloserInv'
<1>1. OthersKeep(t) /\ pc'[t] = "fail" /\ cur'[t] = cur[t]
  BY DEF TypeOK, Raise, Goto, Forget, SetJob, OthersKeep
<1>2. pc[t] \in ExecSteps /\ pc'[t] \in ExecSteps
  BY <1>1 DEF ExecSteps
<1>3. QED
  BY <1>1, <1>2, CloserLoops

\* An event of the loop, or of an announcement that has another one to make.
LEMMA CloserEmits ==
  ASSUME TypeOK, CloserInv, NEW t \in Threads, cur[t] \in Runs, NEW s, NEW k, Emit(t, s, k),
         \/ pc[t] \in ExecSteps /\ s \in ExecSteps /\ k \in EventKinds \ (Dones \cup {"result"})
         \/ pc[t] = "emit_result" /\ s = "emit_done" /\ k = "result"
         \/ pc[t] = "emit_error" /\ s = "emit_error_done" /\ k = "error"
         \/ pc[t] = "emit_cancel" /\ s = "emit_cancel_done" /\ k = "run_cancelled"
  PROVE  CloserInv'
<1>1. /\ OthersKeep(t) /\ row' = row /\ pc'[t] = s /\ cur'[t] = cur[t]
      /\ Append1(cur[t], k) /\ k \in EventKinds
  BY DEF TypeOK, Emit, Goto, OthersKeep, EventKinds
<1>2. AnnouncesOK(t)'
  <2>1. AnnouncesOK(t)
    BY DEF CloserInv
  <2>2. CASE s \in ExecSteps /\ pc[t] \in ExecSteps
    BY <1>1, <2>1, <2>2, StepSets DEF AnnouncesOK
  <2>3. CASE pc[t] = "emit_result" /\ s = "emit_done"
    BY <1>1, <2>1, <2>3, StepSets DEF AnnouncesOK, CancelSteps
  <2>4. CASE pc[t] = "emit_error" /\ s = "emit_error_done"
    BY <1>1, <2>1, <2>4, StepSets DEF AnnouncesOK, CancelSteps
  <2>5. CASE pc[t] = "emit_cancel" /\ s = "emit_cancel_done"
    <3>1. s \notin ExecSteps
      BY <2>5, StepSets DEF CancelSteps, ExecSteps, LoopSteps
    <3>2. QED
      BY <1>1, <2>1, <2>5, <3>1 DEF AnnouncesOK, CancelSteps
  <2>6. QED
    BY <2>2, <2>3, <2>4, <2>5
<1>3. /\ pc'[t] \in Closing => pc[t] \in Closing
      /\ pc'[t] \in CancelSteps => pc[t] \in CancelSteps
  BY <1>1, StepSets DEF Closing, CancelSteps
<1>4. ASSUME NEW q \in Runs
      PROVE  /\ Count(q, Dones)' = Count(q, Dones)
             /\ Logged(q, "done_completed")' <=> Logged(q, "done_completed")
             /\ Logged(q, "result")' =>
                  Logged(q, "result") \/ row[q].state \in {"completed", "error"}
  <2>1. CASE k = "result"
    <3>1. row[cur[t]].state \in {"completed", "error"}
      BY <2>1 DEF CloserInv, AnnouncesOK
    <3>2. k \notin Dones /\ k # "done_completed"
      BY <2>1 DEF Dones
    <3>3. Count(q, Dones)' = Count(q, Dones)
      BY <1>1, <3>2, CountAppended
    <3>4. Logged(q, "done_completed")' <=> Logged(q, "done_completed")
      BY <1>1, <3>2, LoggedAppended
    <3>5. Logged(q, "result")' <=> Logged(q, "result") \/ q = cur[t]
      BY <1>1, <2>1, LoggedAppended
    <3>6. QED
      BY <3>1, <3>3, <3>4, <3>5
  <2>2. CASE k # "result"
    <3>1. k \in EventKinds \ (Dones \cup {"result"})
      BY <1>1, <2>2 DEF Dones
    <3>2. QED
      BY <1>1, <3>1, Unclosed
  <2>3. QED
    BY <2>1, <2>2
<1>5. QED
  BY <1>1, <1>2, <1>3, <1>4, CloserStill

LEMMA CloserBundle ==
  ASSUME TypeOK, ExecutorInv, CloserInv, NEW t \in Threads,
         BeginBuild(t) \/ ReadStale(t) \/ RecoverRun(t) \/ EndBuild(t)
  PROVE  CloserInv'
<1>1. CASE EndBuild(t)
  BY <1>1, CloserReturns DEF EndBuild
<1>2. CASE BeginBuild(t) \/ ReadStale(t)
  <2>1. OthersKeep(t) /\ pc'[t] \in {"build", "recover"} /\ row' = row /\ log' = log
    BY <1>2 DEF TypeOK, BeginBuild, ReadStale, Goto, OthersKeep
  <2>2. QED
    BY <2>1, CloserLeaves, StepSets DEF NotAtWork
<1>3. CASE RecoverRun(t)
  <2>1. PICK r \in Runs :
          /\ held[t][r].state = "running"
          /\ \/ Terminate(r, held[t][r], {"running"}, "error")
             \/ ~ Matches(r, held[t][r], {"running"}) /\ UNCHANGED row
          /\ held' = [held EXCEPT ![t][r] = AbsentRow]
    BY <1>3 DEF RecoverRun
  <2>2. OthersKeep(t) /\ pc'[t] = "recover" /\ log' = log
    BY <1>3, <2>1 DEF TypeOK, RecoverRun, OthersKeep
  <2>3. pc'[t] \notin Closing \cup CancelSteps
    BY <2>2, StepSets DEF NotAtWork
  <2>4. CASE UNCHANGED row
    BY <2>2, <2>3, <2>4, CloserLeaves
  <2>5. CASE Terminate(r, held[t][r], {"running"}, "error")
    <3>1. PICK w : w = Written(r, "error", held[t][r].text, row[r].results, row[r].grants)
      OBVIOUS
    <3>2. w \in Row
      BY <3>1, WrittenType DEF TypeOK, Row, States, Terminal
    <3>3. row' = [row EXCEPT ![r] = w] /\ row[r].state = "running" /\ w.state = "error"
      BY <2>5, <3>1, WrittenFields DEF Terminate, Matches
    <3>4. AnnouncesOK(t)'
      BY <2>3 DEF AnnouncesOK, Closing
    <3>5. row[r].state \notin Terminal
      BY <3>3 DEF Terminal
    <3>6. QED
      BY <2>2, <2>3, <3>2, <3>3, <3>4, <3>5, CloserWrite
  <2>6. QED
    BY <2>1, <2>4, <2>5
<1>4. QED
  BY <1>1, <1>2, <1>3

LEMMA CloserCrash ==
  ASSUME TypeOK, CloserInv, Crash
  PROVE  CloserInv'
<1>1. \A t \in Threads : pc'[t] = "idle"
  BY DEF Crash
<1>2. row' = row /\ log' = log
  BY DEF Crash
<1>3. \A t \in Threads : pc'[t] \notin Closing \cup CancelSteps
  BY <1>1, StepSets DEF NotAtWork
<1>4. SoleCloser'
  BY <1>3 DEF SoleCloser
<1>5. ASSUME NEW t \in Threads PROVE AnnouncesOK(t)'
  BY <1>3 DEF AnnouncesOK, Closing
<1>6. ASSUME NEW r \in Runs PROVE ClosedOK(r)'
  <2>1. ClosedOK(r)
    BY DEF CloserInv
  <2>2. /\ Count(r, Dones)' = Count(r, Dones)
        /\ Logged(r, "result")' <=> Logged(r, "result")
        /\ Logged(r, "done_completed")' <=> Logged(r, "done_completed")
    BY <1>2, CountKept, LoggedKept
  <2>3. QED
    BY <1>2, <1>3, <2>1, <2>2 DEF ClosedOK
<1>7. QED
  BY <1>4, <1>5, <1>6 DEF CloserInv

LEMMA CloserBegin ==
  ASSUME TypeOK, ExecutorInv, CloserInv, NEW t \in Threads, Start(t) \/ Regenerate(t)
  PROVE  CloserInv'
<1>1. PICK r \in Runs, s \in Sessions, g \in Grants, p \in Runs \cup {NoRun},
           step \in {"started", "regenerated"} : Begin(t, r, s, g, p, step)
  <2>1. CASE Start(t)
    BY <2>1 DEF Start
  <2>2. CASE Regenerate(t)
    BY <2>2 DEF Regenerate, TypeOK, Row
  <2>3. QED
    BY <2>1, <2>2
<1>2. PICK w : w = [state |-> "running", session |-> s, version |-> 0, text |-> 0,
                    results |-> 0, grants |-> g, parent |-> p]
  OBVIOUS
<1>3. w \in Row /\ w.state = "running"
  BY <1>2 DEF Row, States, Active, Grants
<1>4. row[r].state = "absent" /\ row' = [row EXCEPT ![r] = w] /\ log' = log
  BY <1>1, <1>2 DEF Begin, CreateRun
<1>5. OthersKeep(t) /\ pc'[t] = step /\ cur'[t] = r
  BY <1>1 DEF TypeOK, Begin, Goto, SetJob, OthersKeep
<1>6. pc'[t] \in ExecSteps
  BY <1>5 DEF ExecSteps, LoopSteps
<1>7. AnnouncesOK(t)'
  BY <1>3, <1>4, <1>5, <1>6, StepSets DEF TypeOK, AnnouncesOK
<1>8. pc'[t] \notin CancelSteps
  BY <1>6, StepSets
<1>9. row[r].state \notin Terminal
  BY <1>4 DEF Terminal
<1>10. QED
  BY <1>3, <1>4, <1>5, <1>7, <1>8, <1>9, CloserWrite

LEMMA CloserEvents ==
  ASSUME TypeOK, CloserInv, NEW t \in Threads,
         \/ EmitBegun(t) \/ EmitDelta(t) \/ Flush(t) \/ EmitCancelled(t)
         \/ EmitResult(t) \/ EmitWait(t) \/ EmitError(t)
  PROVE  CloserInv'
<1>1. cur[t] \in Runs
  BY RowsOfThread DEF EmitBegun, EmitCancelled, EmitDelta, Flush, EmitResult, EmitWait, EmitError
<1>2. CASE EmitBegun(t) \/ EmitDelta(t) \/ Flush(t)
  <2>1. PICK s \in {"round", "stream", "settle"},
             k \in {"run_started", "run_regenerated", "run_resumed", "answer_delta"} :
          Emit(t, s, k) /\ pc[t] \in LoopSteps
    BY <1>2 DEF EmitBegun, EmitDelta, Flush, LoopSteps
  <2>2. pc[t] \in ExecSteps /\ s \in ExecSteps /\ k \in EventKinds \ (Dones \cup {"result"})
    BY <2>1 DEF ExecSteps, LoopSteps, EventKinds, Dones
  <2>3. QED
    BY <1>1, <2>1, <2>2, CloserEmits
<1>3. CASE EmitWait(t)
  <2>1. /\ OthersKeep(t) /\ pc'[t] = "idle" /\ row' = row
        /\ Append1(cur[t], "wait_for_input")
    BY <1>3 DEF TypeOK, EmitWait, EmitLast, Return, OthersKeep
  <2>2. "wait_for_input" \in EventKinds \ (Dones \cup {"result"})
    BY DEF EventKinds, Dones
  <2>3. pc'[t] \notin Closing \cup CancelSteps
    BY <2>1, StepSets DEF NotAtWork
  <2>4. AnnouncesOK(t)'
    BY <2>3 DEF AnnouncesOK, Closing
  <2>5. QED
    BY <1>1, <2>1, <2>2, <2>3, <2>4, Unclosed, CloserStill
<1>4. CASE EmitCancelled(t)
  <2>1. CASE pc[t] = "emit_cancel" /\ Emit(t, "emit_cancel_done", "run_cancelled")
    BY <1>1, <2>1, CloserEmits
  <2>2. CASE pc[t] = "emit_cancel_done" /\ EmitLast(t, "done_cancelled")
    BY <1>1, <2>2, CloserDone DEF CancelSteps, Dones
  <2>3. QED
    BY <1>4, <2>1, <2>2 DEF EmitCancelled
<1>5. CASE EmitResult(t)
  <2>1. CASE pc[t] = "emit_result" /\ Emit(t, "emit_done", "result")
    BY <1>1, <2>1, CloserEmits
  <2>2. CASE pc[t] = "emit_done" /\ EmitLast(t, "done_completed")
    BY <1>1, <2>2, CloserDone DEF CancelSteps, Dones
  <2>3. QED
    BY <1>5, <2>1, <2>2 DEF EmitResult
<1>6. CASE EmitError(t)
  <2>1. CASE pc[t] = "emit_error" /\ Emit(t, "emit_error_done", "error")
    BY <1>1, <2>1, CloserEmits
  <2>2. CASE pc[t] = "emit_error_done" /\ EmitLast(t, "done_error")
    BY <1>1, <2>2, CloserDone DEF CancelSteps, Dones
  <2>3. QED
    BY <1>6, <2>1, <2>2 DEF EmitError
<1>7. QED
  BY <1>2, <1>3, <1>4, <1>5, <1>6

LEMMA CloserReply ==
  ASSUME TypeOK, ExecutorInv, CloserInv, NEW t \in Threads,
         ResumeLoad(t) \/ CancelLoad(t) \/ ResumeCas(t) \/ CancelCas(t)
  PROVE  CloserInv'
<1>1. CASE ResumeLoad(t) \/ CancelLoad(t)
  <2>1. OthersKeep(t) /\ pc'[t] \in {"resume", "cancel"} /\ row' = row /\ log' = log
    BY <1>1 DEF TypeOK, ResumeLoad, CancelLoad, Goto, Load, SetJob, OthersKeep
  <2>2. QED
    BY <2>1, CloserLeaves, StepSets
<1>2. CASE ResumeCas(t)
  <2> DEFINE r == cur[t]
             c == held[t][r]
  <2>1. r \in Runs /\ c \in Row /\ job[t] \in Job /\ log' = log
    BY <1>2, RowsOfThread DEF ResumeCas
  <2>2. CASE Return(t) /\ row' = row
    BY <2>1, <2>2, CloserReturns
  <2>3. CASE /\ Transition(r, c, {"waiting_input"}, "running", c.text, job[t].results, job[t].grants)
             /\ Goto(t, "resumed")
             /\ Forget(t)
             /\ UNCHANGED <<cur, job>>
    <3>1. PICK w : w = Written(r, "running", c.text, job[t].results, job[t].grants)
      OBVIOUS
    <3>2. w \in Row
      BY <2>1, <3>1, WrittenType, JobFields, RowFields DEF States, Active
    <3>3. row' = [row EXCEPT ![r] = w] /\ row[r].state = "waiting_input" /\ w.state = "running"
      BY <2>3, <3>1, WrittenFields DEF Transition, Matches
    <3>4. OthersKeep(t) /\ pc'[t] = "resumed" /\ cur'[t] = r
      BY <2>3 DEF TypeOK, Goto, Forget, OthersKeep
    <3>5. pc'[t] \in ExecSteps
      BY <3>4 DEF ExecSteps, LoopSteps
    <3>6. AnnouncesOK(t)'
      BY <2>1, <3>3, <3>4, <3>5, StepSets DEF TypeOK, AnnouncesOK
    <3>7. pc'[t] \notin CancelSteps /\ row[r].state \notin Terminal
      BY <3>3, <3>5, StepSets DEF Terminal
    <3>8. QED
      BY <2>1, <3>2, <3>3, <3>4, <3>6, <3>7, CloserWrite
  <2>4. QED
    BY <1>2, <2>2, <2>3 DEF ResumeCas
<1>3. CASE CancelCas(t)
  <2> DEFINE r == cur[t]
             c == held[t][r]
  <2>1. r \in Runs /\ c \in Row /\ log' = log /\ c.state \in Active
    BY <1>3, RowsOfThread DEF CancelCas, ExecutorInv, FrameInv
  <2>2. CASE Return(t) /\ row' = row
    BY <2>1, <2>2, CloserReturns
  <2>3. CASE /\ Terminate(r, c, {c.state}, "cancelled")
             /\ Goto(t, "emit_cancel")
             /\ Forget(t)
             /\ UNCHANGED <<cur, job>>
    <3>1. PICK w : w = Written(r, "cancelled", c.text, row[r].results, row[r].grants)
      OBVIOUS
    <3>2. w \in Row
      BY <2>1, <3>1, WrittenType, RowFields DEF TypeOK, States, Terminal
    <3>3. row' = [row EXCEPT ![r] = w] /\ row[r].state \notin Terminal /\ w.state = "cancelled"
      BY <2>1, <2>3, <3>1, WrittenFields DEF Terminate, Matches, Active, Terminal
    <3>4. OthersKeep(t) /\ pc'[t] = "emit_cancel" /\ cur'[t] = r
      BY <2>3 DEF TypeOK, Goto, Forget, OthersKeep
    <3>5. pc'[t] \in CancelSteps /\ pc'[t] \notin Closing
      BY <3>4, StepSets DEF CancelSteps
    <3>6. AnnouncesOK(t)'
      BY <2>1, <3>3, <3>4, <3>5, StepSets DEF TypeOK, AnnouncesOK
    <3>7. QED
      BY <2>1, <3>2, <3>3, <3>4, <3>5, <3>6, CloserWrite
  <2>4. QED
    BY <1>3, <2>2, <2>3 DEF CancelCas
<1>4. QED
  BY <1>1, <1>2, <1>3

\* The steps of the loop between its writes.
LEMMA CloserRound ==
  ASSUME TypeOK, CloserInv, NEW t \in Threads,
         \/ BeginRound(t) \/ StreamItem(t) \/ StreamEnd(t) \/ StreamTypeError(t)
         \/ Complete(t) \/ ProviderError(t) \/ Settle(t) \/ NextCall(t)
  PROVE  CloserInv'
<1>1. pc[t] \in LoopSteps /\ row' = row /\ log' = log
  BY DEF BeginRound, StreamItem, StreamEnd, StreamTypeError, Complete, ProviderError, Settle,
         NextCall, StopIfCancelled, LoopSteps
<1>2. CASE Return(t)
  BY <1>1, <1>2, CloserReturns
<1>3. CASE Raise(t)
  BY <1>1, <1>3, CloserRaises
<1>4. ASSUME NEW s \in LoopSteps, Goto(t, s), SetJob(t, job'[t]) \/ UNCHANGED job,
             UNCHANGED held \/ Load(t, cur[t]), UNCHANGED cur
      PROVE  CloserInv'
  <2>1. OthersKeep(t) /\ pc'[t] = s /\ cur'[t] = cur[t]
    BY <1>4 DEF TypeOK, Goto, SetJob, Load, OthersKeep
  <2>2. pc[t] \in ExecSteps /\ s \in ExecSteps
    BY <1>1 DEF ExecSteps
  <2>3. QED
    BY <1>1, <2>1, <2>2, CloserLoops
<1>5. ASSUME NEW j, SetJob(t, j)
      PROVE  SetJob(t, job'[t])
  BY <1>5 DEF TypeOK, SetJob
<1>6. CASE BeginRound(t)
  BY <1>1, <1>2, <1>3, <1>4, <1>5, <1>6 DEF BeginRound, StopIfCancelled, LoopSteps
<1>7. CASE StreamItem(t)
  BY <1>1, <1>4, <1>5, <1>7 DEF StreamItem, DropRound, LoopSteps
<1>8. ASSUME NEW v \in BOOLEAN, NEW k \in CallLists, NEW f \in {"stop", "length"},
             EndRound(t, v, k, f), UNCHANGED <<cur, held>>
      PROVE  CloserInv'
  <2>1. PICK s \in {"flush", "settle"} : Goto(t, s)
    BY <1>8 DEF EndRound
  <2>2. SetJob(t, job'[t])
    BY <1>5, <1>8 DEF EndRound
  <2>3. QED
    BY <1>4, <1>8, <2>1, <2>2 DEF LoopSteps
<1>9. CASE StreamEnd(t)
  BY <1>8, <1>9 DEF StreamEnd
<1>10. CASE StreamTypeError(t)
  BY <1>4, <1>10 DEF StreamTypeError, LoopSteps
<1>11. CASE Complete(t)
  BY <1>4, <1>5, <1>8, <1>11 DEF Complete, DropRound, LoopSteps
<1>12. CASE ProviderError(t)
  BY <1>3, <1>12 DEF ProviderError
<1>13. CASE Settle(t)
  <2>1. CASE StopIfCancelled(t)
    BY <1>2, <2>1 DEF StopIfCancelled
  <2>2. CASE ~ Cancelled(t)
    <3>1. /\ Load(t, cur[t]) /\ UNCHANGED cur
          /\ \E s \in {"calls", "continue", "finish"} : Goto(t, s)
          /\ SetJob(t, job'[t])
      BY <1>5, <1>13, <2>2 DEF Settle, StopIfCancelled
    <3>2. QED
      BY <1>4, <3>1 DEF LoopSteps
  <2>3. QED
    BY <1>13, <2>1, <2>2 DEF Settle
<1>14. CASE NextCall(t)
  <2>1. CASE StopIfCancelled(t)
    BY <1>2, <2>1 DEF StopIfCancelled
  <2>2. CASE Goto(t, "round") /\ UNCHANGED <<cur, held, job>>
    BY <1>4, <2>2 DEF LoopSteps
  <2>3. CASE /\ Load(t, cur[t])
             /\ \E s \in {"ask", "tool"} : Goto(t, s)
             /\ UNCHANGED <<cur, job>>
    BY <1>4, <2>3 DEF LoopSteps
  <2>4. QED
    BY <1>3, <1>14, <2>1, <2>2, <2>3 DEF NextCall
<1>15. QED
  BY <1>6, <1>7, <1>9, <1>10, <1>11, <1>12, <1>13, <1>14

LEMMA CloserTool ==
  ASSUME TypeOK, CloserInv, NEW t \in Threads, RunTool(t) \/ Asked(t)
  PROVE  CloserInv'
<1>1. cur[t] \in Runs /\ row' = row
  BY RowsOfThread DEF RunTool, Asked, StopIfCancelled
<1>2. CASE RunTool(t)
  <2>1. pc[t] \in LoopSteps
    BY <1>2 DEF RunTool, LoopSteps
  <2>2. CASE Raise(t) /\ log' = log
    BY <1>1, <2>1, <2>2, CloserRaises
  <2>3. CASE Append1(cur[t], "tool_result") /\ Goto(t, "save") /\ SetJob(t, job'[t])
             /\ UNCHANGED <<cur, held>>
    <3>1. OthersKeep(t) /\ pc'[t] = "save" /\ cur'[t] = cur[t]
      BY <2>3 DEF TypeOK, Goto, SetJob, OthersKeep
    <3>2. "tool_result" \in EventKinds \ (Dones \cup {"result"})
      BY DEF EventKinds, Dones
    <3>3. pc[t] \in ExecSteps /\ pc'[t] \in ExecSteps
      BY <2>1, <3>1 DEF ExecSteps, LoopSteps
    <3>4. AnnouncesOK(t)'
      BY <1>1, <3>1, <3>3, StepSets DEF CloserInv, AnnouncesOK
    <3>5. QED
      BY <1>1, <2>3, <3>1, <3>2, <3>3, <3>4, StepSets, Unclosed, CloserStill
  <2>4. QED
    BY <1>2, <2>2, <2>3 DEF RunTool, TypeOK, SetJob
<1>3. CASE Asked(t)
  <2>1. CASE StopIfCancelled(t)
    BY <2>1, CloserReturns DEF StopIfCancelled
  <2>2. CASE Goto(t, "emit_wait") /\ UNCHANGED <<row, log, cur, held, job>>
    <3>1. OthersKeep(t) /\ pc'[t] = "emit_wait"
      BY <2>2 DEF TypeOK, Goto, OthersKeep
    <3>2. QED
      BY <2>2, <3>1, CloserLeaves, StepSets
  <2>3. QED
    BY <1>3, <2>1, <2>2 DEF Asked
<1>4. QED
  BY <1>2, <1>3

\* The write of the executor: what it announces next is what it has written.
LEMMA CloserExecutes ==
  ASSUME TypeOK, ExecutorInv, CloserInv, NEW t \in Threads, log' = log,
         pc[t] \in ExecSteps, cur[t] \in Runs, row[cur[t]].state = "running",
         NEW w \in Row, row' = [row EXCEPT ![cur[t]] = w],
         NEW step, Goto(t, step), Forget(t), UNCHANGED cur, SetJob(t, job'[t]),
         \/ w.state = "running" /\ step \in LoopSteps
         \/ w.state = "waiting_input" /\ step = "asked"
         \/ w.state = "completed" /\ step = "emit_result"
         \/ w.state = "error" /\ step = "emit_error"
  PROVE  CloserInv'
<1>1. OthersKeep(t) /\ pc'[t] = step /\ cur'[t] = cur[t]
  BY DEF TypeOK, Goto, Forget, SetJob, OthersKeep
<1>2. pc'[t] \notin CancelSteps
  BY <1>1, StepSets DEF CancelSteps, LoopSteps
<1>3. row'[cur[t]] = w
  BY DEF TypeOK
<1>4. step \in LoopSteps => step \in ExecSteps
  BY DEF ExecSteps
<1>5. AnnouncesOK(t)'
  BY <1>1, <1>2, <1>3, <1>4, StepSets DEF AnnouncesOK
<1>6. w.state = "completed" => pc'[t] \notin ExecSteps
  BY <1>1, StepSets
<1>7. pc[t] \in Closing /\ row[cur[t]].state \notin Terminal
  BY StepSets DEF Terminal
<1>8. QED
  BY <1>1, <1>2, <1>5, <1>6, <1>7, CloserWrite

LEMMA CloserRace ==
  ASSUME TypeOK, ExecutorInv, CloserInv, NEW t \in Threads,
         Continue(t) \/ SaveResult(t) \/ Finish(t) \/ Ask(t)
  PROVE  CloserInv'
<1> DEFINE r == cur[t]
           c == held[t][r]
           Leave(step) == Goto(t, step) /\ Forget(t) /\ SetJob(t, NoJob) /\ UNCHANGED cur
<1>1. r \in Runs /\ job[t] \in Job /\ pc[t] \in LoopSteps /\ log' = log
  BY RowsOfThread DEF Continue, SaveResult, Finish, Ask, LoopSteps
<1>2. pc[t] \in ExecSteps
  BY <1>1 DEF ExecSteps
<1>3. ASSUME NEW j, SetJob(t, j) \/ UNCHANGED job
      PROVE  SetJob(t, job'[t])
  BY <1>3 DEF TypeOK, SetJob
<1>4. ASSUME NEW to \in {"running", "waiting_input", "completed"}, NEW step,
             Transition(r, c, {"running"}, to, job[t].acc, job[t].results, job[t].grants),
             Goto(t, step), Forget(t), UNCHANGED cur, SetJob(t, job'[t]),
             \/ to = "running" /\ step \in LoopSteps
             \/ to = "waiting_input" /\ step = "asked"
             \/ to = "completed" /\ step = "emit_result"
      PROVE  CloserInv'
  <2>1. PICK w : w = Written(r, to, job[t].acc, job[t].results, job[t].grants)
    OBVIOUS
  <2>2. w \in Row
    BY <1>1, <2>1, WrittenType, JobFields DEF States, Active, Terminal
  <2>3. row' = [row EXCEPT ![r] = w] /\ row[r].state = "running" /\ w.state = to
    BY <1>4, <2>1, WrittenFields DEF Transition, Matches
  <2>4. QED
    BY <1>1, <1>2, <1>4, <2>2, <2>3, CloserExecutes
<1>5. CASE Return(t) /\ row' = row
  BY <1>1, <1>5, CloserReturns
<1>6. CASE Raise(t) /\ row' = row
  BY <1>1, <1>6, CloserRaises
<1>7. CASE Continue(t) \/ SaveResult(t)
  <2>1. PICK step \in {"round", "calls"} : SaveOr(t, step)
    BY <1>7 DEF Continue, SaveResult
  <2>2. step \in LoopSteps
    BY DEF LoopSteps
  <2>3. QED
    BY <1>3, <1>4, <1>6, <2>1, <2>2 DEF SaveOr, UpdateSnapshot
<1>8. CASE Finish(t) \/ Ask(t)
  <2>1. PICK to \in {"completed", "waiting_input"}, step \in {"emit_result", "asked"} :
          /\ TransitionOrRace(t, to, step)
          /\ to = "completed" <=> step = "emit_result"
    BY <1>8 DEF Finish, Ask
  <2>2. CASE Leave(step) /\ row' = row /\ row[r].state \in Terminal \ {"cancelled"}
    <3>1. OthersKeep(t) /\ pc'[t] = step /\ cur'[t] = r
      BY <2>2 DEF TypeOK, Goto, Forget, SetJob, OthersKeep
    <3>2. CASE step = "asked"
      BY <1>1, <2>2, <3>1, <3>2, CloserLeaves, StepSets
    <3>3. CASE step = "emit_result"
      <4>1. AnnouncesOK(t)'
        BY <2>2, <3>1, <3>3, StepSets DEF AnnouncesOK, CancelSteps, Terminal
      <4>2. pc[t] \in Closing /\ pc'[t] \notin CancelSteps
        BY <1>2, <3>1, <3>3, StepSets DEF CancelSteps
      <4>3. QED
        BY <1>1, <2>2, <3>1, <4>1, <4>2, CountKept, LoggedKept, CloserStill
    <3>4. QED
      BY <3>2, <3>3
  <2>3. CASE /\ Transition(r, c, {"running"}, to, job[t].acc, job[t].results, job[t].grants)
             /\ Leave(step)
    BY <1>3, <1>4, <2>1, <2>3
  <2>4. QED
    BY <1>5, <1>6, <2>1, <2>2, <2>3 DEF TransitionOrRace
<1>9. QED
  BY <1>7, <1>8

LEMMA CloserFail ==
  ASSUME TypeOK, ExecutorInv, CloserInv, NEW t \in Threads, FailLoad(t) \/ FailCas(t)
  PROVE  CloserInv'
<1> DEFINE r == cur[t]
           c == held[t][r]
<1>1. r \in Runs /\ c \in Row /\ pc[t] \in ExecSteps /\ log' = log
  BY RowsOfThread DEF FailLoad, FailCas, ExecSteps
<1>2. CASE Return(t) /\ row' = row
  BY <1>1, <1>2, CloserReturns
<1>3. CASE /\ Goto(t, "emit_error")
           /\ row' = row
           /\ row[r].state = "error"
           /\ UNCHANGED held \/ Forget(t)
           /\ UNCHANGED <<cur, job>>
  <2>1. OthersKeep(t) /\ pc'[t] = "emit_error" /\ cur'[t] = r
    BY <1>3 DEF TypeOK, Goto, Forget, OthersKeep
  <2>2. AnnouncesOK(t)'
    BY <1>3, <2>1, StepSets DEF AnnouncesOK, CancelSteps
  <2>3. pc[t] \in Closing /\ pc'[t] \notin CancelSteps
    BY <1>1, <2>1, StepSets DEF CancelSteps
  <2>4. QED
    BY <1>1, <1>3, <2>1, <2>2, <2>3, CountKept, LoggedKept, CloserStill
<1>4. CASE /\ Goto(t, "fail_cas")
           /\ row' = row
           /\ Load(t, r)
           /\ UNCHANGED <<cur, job>>
  <2>1. OthersKeep(t) /\ pc'[t] = "fail_cas" /\ cur'[t] = r
    BY <1>4 DEF TypeOK, Goto, Load, OthersKeep
  <2>2. pc'[t] \in ExecSteps
    BY <2>1 DEF ExecSteps
  <2>3. QED
    BY <1>1, <1>4, <2>1, <2>2, CloserLoops
<1>5. CASE /\ Terminate(r, c, {"running"}, "error")
           /\ Goto(t, "emit_error")
           /\ Forget(t)
           /\ UNCHANGED <<cur, job>>
  <2>1. PICK w : w = Written(r, "error", c.text, row[r].results, row[r].grants)
    OBVIOUS
  <2>2. w \in Row
    BY <1>1, <2>1, WrittenType, RowFields DEF TypeOK, States, Terminal
  <2>3. row' = [row EXCEPT ![r] = w] /\ row[r].state = "running" /\ w.state = "error"
    BY <1>5, <2>1, WrittenFields DEF Terminate, Matches
  <2>4. SetJob(t, job'[t])
    BY <1>5 DEF TypeOK, SetJob
  <2>5. QED
    BY <1>1, <1>5, <2>2, <2>3, <2>4, CloserExecutes
<1>6. QED
  BY <1>2, <1>3, <1>4, <1>5 DEF FailLoad, FailCas

LEMMA InitCloser == Init => CloserInv
<1> SUFFICES ASSUME Init PROVE CloserInv
  OBVIOUS
<1>1. \A t \in Threads : pc[t] \notin Closing \cup CancelSteps
  BY StepSets DEF Init, NotAtWork
<1>2. \A r \in Runs : log[r] = << >>
  BY DEF Init, StoreInit
<1>3. ASSUME NEW r \in Runs PROVE ClosedOK(r)
  <2>1. DOMAIN log[r] = {}
    BY <1>2
  <2>2. Count(r, Dones) = 0 /\ ~ Logged(r, "result") /\ ~ Logged(r, "done_completed")
    BY <2>1, FS_EmptySet DEF Count, Logged
  <2>3. QED
    BY <2>2 DEF ClosedOK
<1>4. SoleCloser /\ \A t \in Threads : AnnouncesOK(t)
  BY <1>1 DEF SoleCloser, AnnouncesOK, Closing
<1>5. QED
  BY <1>3, <1>4 DEF CloserInv

LEMMA StepCloser == TypeOK /\ ExecutorInv /\ CloserInv /\ [Next]_evars => CloserInv'
<1> SUFFICES ASSUME TypeOK, ExecutorInv, CloserInv, [Next]_evars PROVE CloserInv'
  OBVIOUS
<1>1. CASE UNCHANGED evars
  BY <1>1 DEF evars, CloserInv, SoleCloser, AnnouncesOK, ClosedOK, Count, Logged
<1>2. CASE Crash
  BY <1>2, CloserCrash
<1>3. ASSUME NEW t \in Threads, BeginBuild(t) \/ Request(t) \/ Execute(t)
      PROVE  CloserInv'
  <2>1. CASE BeginBuild(t) \/ ReadStale(t) \/ RecoverRun(t) \/ EndBuild(t)
    BY <2>1, CloserBundle
  <2>2. CASE Start(t) \/ Regenerate(t)
    BY <2>2, CloserBegin
  <2>3. CASE \/ EmitBegun(t) \/ EmitDelta(t) \/ Flush(t) \/ EmitCancelled(t)
           \/ EmitResult(t) \/ EmitWait(t) \/ EmitError(t)
    BY <2>3, CloserEvents
  <2>4. CASE ResumeLoad(t) \/ CancelLoad(t) \/ ResumeCas(t) \/ CancelCas(t)
    BY <2>4, CloserReply
  <2>5. CASE \/ BeginRound(t) \/ StreamItem(t) \/ StreamEnd(t)
           \/ StreamTypeError(t) \/ Complete(t) \/ ProviderError(t)
           \/ Settle(t) \/ NextCall(t)
    BY <2>5, CloserRound
  <2>6. CASE RunTool(t) \/ Asked(t)
    BY <2>6, CloserTool
  <2>7. CASE Continue(t) \/ SaveResult(t) \/ Finish(t) \/ Ask(t)
    BY <2>7, CloserRace
  <2>8. CASE FailLoad(t) \/ FailCas(t)
    BY <2>8, CloserFail
  <2>9. QED
    BY <1>3, <2>1, <2>2, <2>3, <2>4, <2>5, <2>6, <2>7, <2>8 DEF Request, Execute
<1>4. QED
  BY <1>1, <1>2, <1>3 DEF Next

\* The closers of every run, in every reachable state.
THEOREM CloserInvariant == Spec => []CloserInv
<1>1. QED
  BY InitCloser, StepCloser, TypeCorrect, ExecutorInvariant, PTL DEF Spec

\* A cancelled run never announces a result, however late the provider or a tool
\* returns (cancel, _transition_or_race).
THEOREM CancellationWins == Spec => []CancelWins
<1>1. CloserInv => CancelWins
  BY DEF CloserInv, ClosedOK, CancelWins
<1>2. QED
  BY <1>1, CloserInvariant, PTL

\* However a run ends, and whoever raced to end it, one done event at most is
\* published for it (_run_loop, cancel, _fail).
THEOREM OneDoneEvent == Spec => []OneDone
<1>1. CloserInv => OneDone
  BY DEF CloserInv, ClosedOK, OneDone, Dones
<1>2. QED
  BY <1>1, CloserInvariant, PTL

-----------------------------------------------------------------------------
(* The events that close a run, and the outcome its row has for good. *)

EventsOK(r) ==
  /\ Logged(r, "error") \/ Logged(r, "done_error") => row[r].state = "error"
  /\ Logged(r, "done_cancelled") => row[r].state = "cancelled"
  /\ Logged(r, "done_completed") => row[r].state \in {"completed", "error"}

EventsInv == \A r \in Runs : EventsOK(r)

\* The only ways a step changes the log.
LEMMA LogMoves ==
  ASSUME TypeOK, [Next]_evars
  PROVE  \/ log' = log
         \/ \E t \in Threads, r \in Runs, k \in EventKinds :
              /\ Append1(r, k) /\ cur[t] = r /\ row' = row
              /\ k \in {"error", "done_error"} => pc[t] \in {"emit_error", "emit_error_done"}
              /\ k = "done_cancelled" => pc[t] = "emit_cancel_done"
              /\ k = "done_completed" => pc[t] = "emit_done"
<1>1. CASE UNCHANGED evars \/ Crash
  BY <1>1 DEF evars, Crash
<1>2. ASSUME NEW t \in Threads, BeginBuild(t) \/ Request(t) \/ Execute(t), log' # log
      PROVE  \E r \in Runs, k \in EventKinds :
               /\ Append1(r, k) /\ cur[t] = r /\ row' = row
               /\ k \in {"error", "done_error"} => pc[t] \in {"emit_error", "emit_error_done"}
               /\ k = "done_cancelled" => pc[t] = "emit_cancel_done"
               /\ k = "done_completed" => pc[t] = "emit_done"
  <2>1. PICK k \in EventKinds :
          /\ Append1(cur[t], k) /\ row' = row
          /\ pc[t] \notin {"idle", "build", "recover"}
          /\ k \in {"error", "done_error"} => pc[t] \in {"emit_error", "emit_error_done"}
          /\ k = "done_cancelled" => pc[t] = "emit_cancel_done"
          /\ k = "done_completed" => pc[t] = "emit_done"
    <3>1. CASE BeginBuild(t) \/ Request(t)
      BY <1>2, <3>1 DEF BeginBuild, Request, Start, Regenerate, Begin, ResumeLoad, CancelLoad
    <3>2. CASE EmitBegun(t) \/ EmitDelta(t) \/ Flush(t) \/ EmitWait(t)
      BY <3>2 DEF EmitBegun, EmitDelta, Flush, EmitWait, Emit, EmitLast, EventKinds
    <3>3. CASE EmitCancelled(t) \/ EmitResult(t) \/ EmitError(t)
      BY <3>3 DEF EmitCancelled, EmitResult, EmitError, Emit, EmitLast, EventKinds
    <3>4. CASE RunTool(t)
      BY <1>2, <3>4 DEF RunTool, EventKinds
    <3>5. QED
      BY <1>2, <3>1, <3>2, <3>3, <3>4
      DEF Execute, ReadStale, RecoverRun, EndBuild, ResumeCas, CancelCas, BeginRound,
          StreamItem, StreamEnd, StreamTypeError, Complete, ProviderError, Settle,
          Continue, Finish, NextCall, SaveResult, Ask, Asked, FailLoad, FailCas,
          StopIfCancelled
  <2>2. cur[t] \in Runs
    BY <2>1 DEF TypeOK
  <2>3. QED
    BY <2>1, <2>2
<1>3. QED
  BY <1>1, <1>2 DEF Next

\* A log only grows.
LEMMA LogGrows ==
  ASSUME TypeOK, [Next]_evars, NEW r \in Runs
  PROVE  /\ Len(log[r]) \in Nat /\ Len(log'[r]) \in Nat
         /\ Len(log'[r]) >= Len(log[r])
         /\ \A kind : Logged(r, kind) => Logged(r, kind)'
<1>1. Len(log[r]) \in Nat
  BY DEF TypeOK
<1>2. CASE log' = log
  BY <1>1, <1>2, LoggedKept
<1>3. ASSUME NEW q \in Runs, NEW k \in EventKinds, Append1(q, k)
      PROVE  /\ Len(log'[r]) \in Nat /\ Len(log'[r]) >= Len(log[r])
             /\ \A kind : Logged(r, kind) => Logged(r, kind)'
  <2>1. Len(log'[r]) = IF r = q THEN Len(log[r]) + 1 ELSE Len(log[r])
    BY <1>3 DEF TypeOK, Append1
  <2>2. \A kind : Logged(r, kind) => Logged(r, kind)'
    BY <1>3, LoggedAppended
  <2>3. QED
    BY <1>1, <2>1, <2>2
<1>4. QED
  BY <1>1, <1>2, <1>3, LogMoves

\* An outcome is final.
LEMMA FinalRow ==
  ASSUME TypeOK, ExecutorInv, [Next]_evars, NEW r \in Runs, row[r].state \in Terminal
  PROVE  row'[r].state = row[r].state
<1>1. CASE UNCHANGED row
  BY <1>1
<1>2. ASSUME NEW q \in Runs, NEW s \in Sessions, NEW g \in Grants, NEW p \in Runs \cup {NoRun},
             CreateRun(q, s, g, p)
      PROVE  row'[r] = row[r]
  BY <1>2 DEF CreateRun, TypeOK, Terminal
<1>3. ASSUME NEW q \in Runs, NEW w \in Row, Moved(q, w)
      PROVE  row'[r] = row[r]
  BY <1>3 DEF Moved, TypeOK, Terminal, Active
<1>4. QED
  BY <1>1, <1>2, <1>3, RowMoves

LEMMA StepEvents ==
  TypeOK /\ ExecutorInv /\ CloserInv /\ EventsInv /\ [Next]_evars => EventsInv'
<1> SUFFICES ASSUME TypeOK, ExecutorInv, CloserInv, EventsInv, [Next]_evars, NEW r \in Runs
             PROVE  EventsOK(r)'
  BY DEF EventsInv
<1>1. EventsOK(r)
  BY DEF EventsInv
<1>2. CASE log' = log
  <2>1. \A kind : Logged(r, kind)' <=> Logged(r, kind)
    BY <1>2, LoggedKept
  <2>2. row[r].state \in Terminal => row'[r].state = row[r].state
    BY FinalRow
  <2>3. QED
    BY <1>1, <2>1, <2>2 DEF EventsOK, Terminal
<1>3. ASSUME NEW t \in Threads, NEW q \in Runs, NEW k \in EventKinds,
             Append1(q, k), cur[t] = q, row' = row,
             k \in {"error", "done_error"} => pc[t] \in {"emit_error", "emit_error_done"},
             k = "done_cancelled" => pc[t] = "emit_cancel_done",
             k = "done_completed" => pc[t] = "emit_done"
      PROVE  EventsOK(r)'
  <2>1. \A kind : Logged(r, kind)' <=> Logged(r, kind) \/ (r = q /\ kind = k)
    BY <1>3, LoggedAppended
  <2>2. /\ k \in {"error", "done_error"} => row[q].state = "error"
        /\ k = "done_cancelled" => row[q].state = "cancelled"
        /\ k = "done_completed" => row[q].state \in {"completed", "error"}
    BY <1>3 DEF CloserInv, AnnouncesOK, CancelSteps
  <2>3. QED
    BY <1>1, <1>3, <2>1, <2>2 DEF EventsOK
<1>4. QED
  BY <1>2, <1>3, LogMoves

\* Every event that closes a run tells what became of it, for good: an error or a
\* done event of status "error" or "cancelled" is published only for a run whose row
\* says so, and stays true (cancel, _fail, _run_loop).
THEOREM EventsTellOutcome == Spec => []EventsInv
<1>1. Init => EventsInv
  <2> SUFFICES ASSUME Init, NEW r \in Runs PROVE EventsOK(r)
    BY DEF EventsInv
  <2>1. DOMAIN log[r] = {}
    BY DEF Init, StoreInit
  <2>2. QED
    BY <2>1 DEF EventsOK, Logged
<1>2. QED
  BY <1>1, StepEvents, TypeCorrect, ExecutorInvariant, CloserInvariant, PTL DEF Spec

-----------------------------------------------------------------------------
(* What the executor of a running run carries: every answer segment and every  *)
(* tool result of the run's log, and the tools of the run's row.               *)

Deltas(r) == Count(r, {"answer_delta"})
Answers(r) == Count(r, {"tool_result", "run_resumed"})

\* Between the rounds there is no chunk outside the answer.
BetweenRounds == {"started", "regenerated", "resumed", "round", "continue", "finish",
                  "calls", "tool", "save", "ask"}

CarriesAll(t) == LET r == cur[t]
                     j == job[t] IN
  /\ j.acc + j.chunks = Deltas(r) + (IF pc[t] \in {"delta", "flush"} THEN 1 ELSE 0)
  /\ j.results = Answers(r) + (IF pc[t] = "resumed" THEN 1 ELSE 0)
  /\ pc[t] \in BetweenRounds => j.chunks = 0
  /\ j.grants = row[r].grants

FrameData(t) == LET r == cur[t]
                    j == job[t] IN
  /\ pc[t] \in LoopSteps /\ row[r].state = "running" => CarriesAll(t)
  /\ pc[t] = "tool" => Head(j.calls) \in j.grants
  /\ pc[t] = "resume" => /\ j.chunks = 0
                         /\ j.results = held[t][r].results + 1
                         /\ j.grants \subseteq held[t][r].grants

RowData(r) ==
  /\ row[r].state = "absent" => Deltas(r) = 0 /\ Answers(r) = 0
  /\ row[r].state \in {"waiting_input", "completed"} =>
       row[r].text = Deltas(r) /\ row[r].results = Answers(r)

DataInv == /\ \A t \in Threads : FrameData(t)
           /\ \A r \in Runs : RowData(r)

LEMMA TallyType ==
  ASSUME TypeOK, NEW r \in Runs
  PROVE  Deltas(r) \in Nat /\ Answers(r) \in Nat
  BY CountType DEF Deltas, Answers

LEMMA TallyKept ==
  ASSUME log' = log, NEW r
  PROVE  Deltas(r)' = Deltas(r) /\ Answers(r)' = Answers(r)
  BY CountKept DEF Deltas, Answers

LEMMA TallyAppended ==
  ASSUME TypeOK, NEW r \in Runs, NEW k \in EventKinds, Append1(r, k)
  PROVE  /\ Deltas(r)' = IF k = "answer_delta" THEN Deltas(r) + 1 ELSE Deltas(r)
         /\ Answers(r)' = IF k \in {"tool_result", "run_resumed"} THEN Answers(r) + 1
                          ELSE Answers(r)
         /\ \A q \in Runs \ {r} : Deltas(q)' = Deltas(q) /\ Answers(q)' = Answers(q)
<1>1. /\ Count(r, {"answer_delta"})' =
           IF k \in {"answer_delta"} THEN Count(r, {"answer_delta"}) + 1
           ELSE Count(r, {"answer_delta"})
      /\ \A q \in Runs \ {r} : Count(q, {"answer_delta"})' = Count(q, {"answer_delta"})
  BY CountAppended
<1>2. /\ Count(r, {"tool_result", "run_resumed"})' =
           IF k \in {"tool_result", "run_resumed"} THEN Count(r, {"tool_result", "run_resumed"}) + 1
           ELSE Count(r, {"tool_result", "run_resumed"})
      /\ \A q \in Runs \ {r} : Count(q, {"tool_result", "run_resumed"})'
                                = Count(q, {"tool_result", "run_resumed"})
  BY CountAppended
<1>3. QED
  BY <1>1, <1>2 DEF Deltas, Answers

\* A step that writes no row and records nothing the executor carries.
LEMMA DataStill ==
  ASSUME TypeOK, DataInv, NEW t \in Threads, OthersKeep(t), row' = row,
         \A q \in Runs : Deltas(q)' = Deltas(q) /\ Answers(q)' = Answers(q),
         FrameData(t)'
  PROVE  DataInv'
<1>1. ASSUME NEW u \in Threads PROVE FrameData(u)'
  <2>1. CASE u = t
    BY <2>1
  <2>2. CASE u # t
    <3>1. /\ FrameData(u)
          /\ pc'[u] = pc[u] /\ cur'[u] = cur[u] /\ held'[u] = held[u] /\ job'[u] = job[u]
      BY <2>2 DEF DataInv, OthersKeep
    <3>2. ASSUME pc[u] \in LoopSteps, row[cur[u]].state = "running"
          PROVE  CarriesAll(u)'
      <4>1. PICK r \in Runs : r = cur[u]
        BY <3>2, RowsOfThread DEF LoopSteps
      <4>2. Deltas(r)' = Deltas(r) /\ Answers(r)' = Answers(r) /\ cur'[u] = r
        BY <3>1, <4>1
      <4>3. CarriesAll(u)
        BY <3>1, <3>2 DEF FrameData
      <4>4. QED
        BY <3>1, <4>1, <4>2, <4>3 DEF CarriesAll
    <3>3. QED
      BY <3>1, <3>2 DEF FrameData
  <2>3. QED
    BY <2>1, <2>2
<1>2. \A r \in Runs : RowData(r)'
  BY DEF DataInv, RowData
<1>3. QED
  BY <1>1, <1>2 DEF DataInv

\* An event of the loop: the run is running or has been cancelled or failed.
LEMMA DataEvent ==
  ASSUME TypeOK, ExecutorInv, CloserInv, DataInv, NEW t \in Threads, OthersKeep(t), row' = row,
         pc[t] \in LoopSteps, NEW k \in EventKinds, Append1(cur[t], k), FrameData(t)'
  PROVE  DataInv'
<1>1. PICK r \in Runs : r = cur[t]
  BY RowsOfThread DEF LoopSteps
<1>2. \A q \in Runs \ {r} : Deltas(q)' = Deltas(q) /\ Answers(q)' = Answers(q)
  BY <1>1, TallyAppended
<1>3. pc[t] \in Closing /\ pc[t] \in ExecSteps
  BY DEF Closing, ExecSteps
<1>4. ASSUME NEW u \in Threads PROVE FrameData(u)'
  <2>1. CASE u = t
    BY <2>1
  <2>2. CASE u # t
    <3>1. /\ FrameData(u)
          /\ pc'[u] = pc[u] /\ cur'[u] = cur[u] /\ held'[u] = held[u] /\ job'[u] = job[u]
      BY <2>2 DEF DataInv, OthersKeep
    <3>2. ASSUME pc[u] \in LoopSteps, row[cur[u]].state = "running"
          PROVE  CarriesAll(u)'
      <4>1. pc[u] \in Closing
        BY <3>2 DEF Closing, ExecSteps
      <4>2. cur[u] # cur[t]
        BY <1>3, <2>2, <4>1 DEF CloserInv, SoleCloser
      <4>3. PICK q \in Runs \ {r} : q = cur[u]
        BY <1>1, <3>2, <4>2, RowsOfThread DEF LoopSteps
      <4>4. Deltas(q)' = Deltas(q) /\ Answers(q)' = Answers(q) /\ cur'[u] = q
        BY <1>2, <3>1, <4>3
      <4>5. CarriesAll(u)
        BY <3>1, <3>2 DEF FrameData
      <4>6. QED
        BY <3>1, <4>3, <4>4, <4>5 DEF CarriesAll
    <3>3. QED
      BY <3>1, <3>2 DEF FrameData
  <2>3. QED
    BY <2>1, <2>2
<1>5. ASSUME NEW q \in Runs PROVE RowData(q)'
  <2>1. CASE q = r
    <3>1. row[r].state # "absent"
      BY <1>1 DEF ExecutorInv, FrameInv, LoopSteps
    <3>2. row[r].state \notin {"waiting_input", "completed"}
      BY <1>1, <1>3 DEF ExecutorInv, OneExecutor, IsActive, Active, CloserInv, AnnouncesOK
    <3>3. QED
      BY <2>1, <3>1, <3>2 DEF RowData
  <2>2. CASE q # r
    BY <1>2, <2>2 DEF DataInv, RowData
  <2>3. QED
    BY <2>1, <2>2
<1>6. QED
  BY <1>4, <1>5 DEF DataInv

\* A write of a row.
LEMMA DataWrite ==
  ASSUME TypeOK, DataInv, NEW t \in Threads, NEW r \in Runs, NEW w \in Row, OthersKeep(t),
         row' = [row EXCEPT ![r] = w], log' = log, w.state # "absent",
         w.state = "running" => \A u \in Threads \ {t} : cur[u] = r => pc[u] \notin LoopSteps,
         w.state \in {"waiting_input", "completed"} => w.text = Deltas(r) /\ w.results = Answers(r),
         FrameData(t)'
  PROVE  DataInv'
<1>1. row'[r] = w /\ \A q \in Runs \ {r} : row'[q] = row[q]
  BY DEF TypeOK
<1>2. \A q \in Runs : Deltas(q)' = Deltas(q) /\ Answers(q)' = Answers(q)
  BY TallyKept
<1>3. ASSUME NEW u \in Threads PROVE FrameData(u)'
  <2>1. CASE u = t
    BY <2>1
  <2>2. CASE u # t
    <3>1. /\ FrameData(u)
          /\ pc'[u] = pc[u] /\ cur'[u] = cur[u] /\ held'[u] = held[u] /\ job'[u] = job[u]
      BY <2>2 DEF DataInv, OthersKeep
    <3>2. ASSUME pc[u] \in LoopSteps, row'[cur[u]].state = "running"
          PROVE  CarriesAll(u)'
      <4>1. cur[u] # r
        BY <1>1, <2>2, <3>2
      <4>2. PICK q \in Runs \ {r} : q = cur[u]
        BY <3>2, <4>1, RowsOfThread DEF LoopSteps
      <4>3. Deltas(q)' = Deltas(q) /\ Answers(q)' = Answers(q) /\ cur'[u] = q /\ row'[q] = row[q]
        BY <1>1, <1>2, <3>1, <4>2
      <4>4. CarriesAll(u)
        BY <3>1, <3>2, <4>2, <4>3 DEF FrameData
      <4>5. QED
        BY <3>1, <4>2, <4>3, <4>4 DEF CarriesAll
    <3>3. QED
      BY <3>1, <3>2 DEF FrameData
  <2>3. QED
    BY <2>1, <2>2
<1>4. ASSUME NEW q \in Runs PROVE RowData(q)'
  <2>1. Deltas(q)' = Deltas(q) /\ Answers(q)' = Answers(q)
    BY <1>2
  <2>2. CASE q = r
    BY <1>1, <2>1, <2>2 DEF RowData
  <2>3. CASE q # r
    BY <1>1, <2>1, <2>3 DEF DataInv, RowData
  <2>4. QED
    BY <2>2, <2>3
<1>5. QED
  BY <1>3, <1>4 DEF DataInv

\* The thread is not in the loop afterwards, nor about to reply.
LEMMA FrameElsewhere ==
  ASSUME NEW t \in Threads, pc'[t] \notin LoopSteps \cup {"resume"}
  PROVE  FrameData(t)'
  BY DEF FrameData, LoopSteps

LEMMA DataReturns ==
  ASSUME TypeOK, DataInv, NEW t \in Threads, row' = row, log' = log, Return(t)
  PROVE  DataInv'
<1>1. OthersKeep(t) /\ pc'[t] = "idle"
  BY DEF TypeOK, Return, OthersKeep
<1>2. FrameData(t)'
  BY <1>1, FrameElsewhere DEF LoopSteps
<1>3. QED
  BY <1>1, <1>2, TallyKept, DataStill

LEMMA DataRaises ==
  ASSUME TypeOK, DataInv, NEW t \in Threads, row' = row, log' = log, Raise(t)
  PROVE  DataInv'
<1>1. OthersKeep(t) /\ pc'[t] = "fail"
  BY DEF TypeOK, Raise, Goto, Forget, SetJob, OthersKeep
<1>2. FrameData(t)'
  BY <1>1, FrameElsewhere DEF LoopSteps
<1>3. QED
  BY <1>1, <1>2, TallyKept, DataStill

\* A step of the loop that records nothing.
LEMMA DataLoops ==
  ASSUME TypeOK, DataInv, NEW t \in Threads, row' = row, log' = log, pc[t] \in LoopSteps,
         NEW s \in LoopSteps, NEW j \in Job, Goto(t, s), SetJob(t, j), cur' = cur,
         held' = held \/ Load(t, cur[t]),
         row[cur[t]].state = "running" =>
           /\ j.acc + j.chunks = Deltas(cur[t]) + (IF s \in {"delta", "flush"} THEN 1 ELSE 0)
           /\ j.results = Answers(cur[t]) + (IF s = "resumed" THEN 1 ELSE 0)
           /\ s \in BetweenRounds => j.chunks = 0
           /\ j.grants = row[cur[t]].grants,
         s = "tool" => Head(j.calls) \in j.grants
  PROVE  DataInv'
<1>1. OthersKeep(t) /\ pc'[t] = s /\ job'[t] = j /\ cur'[t] = cur[t]
  BY DEF TypeOK, Goto, SetJob, Load, OthersKeep
<1>2. PICK r \in Runs : r = cur[t]
  BY RowsOfThread DEF LoopSteps
<1>3. Deltas(r)' = Deltas(r) /\ Answers(r)' = Answers(r) /\ cur'[t] = r
  BY <1>1, <1>2, TallyKept
<1>4. row'[r].state = "running" => CarriesAll(t)'
  BY <1>1, <1>2, <1>3 DEF CarriesAll
<1>5. s # "resume"
  BY DEF LoopSteps
<1>6. FrameData(t)'
  BY <1>1, <1>3, <1>4, <1>5 DEF FrameData
<1>7. QED
  BY <1>1, <1>6, TallyKept, DataStill

\* What the locals are while the run runs.
LEMMA Carried ==
  ASSUME TypeOK, DataInv, NEW t \in Threads, pc[t] \in LoopSteps
  PROVE  /\ cur[t] \in Runs /\ job[t] \in Job
         /\ Deltas(cur[t]) \in Nat /\ Answers(cur[t]) \in Nat
         /\ row[cur[t]].state = "running" =>
              /\ job[t].acc + job[t].chunks
                   = Deltas(cur[t]) + (IF pc[t] \in {"delta", "flush"} THEN 1 ELSE 0)
              /\ job[t].results = Answers(cur[t]) + (IF pc[t] = "resumed" THEN 1 ELSE 0)
              /\ pc[t] \in BetweenRounds => job[t].chunks = 0
              /\ job[t].grants = row[cur[t]].grants
<1>1. cur[t] \in Runs /\ job[t] \in Job
  BY RowsOfThread DEF LoopSteps
<1>2. QED
  BY <1>1, TallyType DEF DataInv, FrameData, CarriesAll

LEMMA DataBundle ==
  ASSUME TypeOK, ExecutorInv, DataInv, NEW t \in Threads,
         BeginBuild(t) \/ ReadStale(t) \/ RecoverRun(t) \/ EndBuild(t)
  PROVE  DataInv'
<1>1. CASE EndBuild(t)
  BY <1>1, DataReturns DEF EndBuild
<1>2. CASE BeginBuild(t) \/ ReadStale(t)
  <2>1. OthersKeep(t) /\ pc'[t] \in {"build", "recover"} /\ row' = row /\ log' = log
    BY <1>2 DEF TypeOK, BeginBuild, ReadStale, Goto, OthersKeep
  <2>2. FrameData(t)'
    BY <2>1, FrameElsewhere DEF LoopSteps
  <2>3. QED
    BY <2>1, <2>2, TallyKept, DataStill
<1>3. CASE RecoverRun(t)
  <2>1. PICK r \in Runs :
          /\ held[t][r].state = "running"
          /\ \/ Terminate(r, held[t][r], {"running"}, "error")
             \/ ~ Matches(r, held[t][r], {"running"}) /\ UNCHANGED row
          /\ held' = [held EXCEPT ![t][r] = AbsentRow]
    BY <1>3 DEF RecoverRun
  <2>2. OthersKeep(t) /\ pc'[t] = "recover" /\ log' = log
    BY <1>3, <2>1 DEF TypeOK, RecoverRun, OthersKeep
  <2>3. FrameData(t)'
    BY <2>2, FrameElsewhere DEF LoopSteps
  <2>4. CASE UNCHANGED row
    BY <2>2, <2>3, <2>4, TallyKept, DataStill
  <2>5. CASE Terminate(r, held[t][r], {"running"}, "error")
    <3>1. PICK w : w = Written(r, "error", held[t][r].text, row[r].results, row[r].grants)
      OBVIOUS
    <3>2. w \in Row
      BY <3>1, WrittenType DEF TypeOK, Row, States, Terminal
    <3>3. row' = [row EXCEPT ![r] = w] /\ w.state = "error"
      BY <2>5, <3>1, WrittenFields DEF Terminate
    <3>4. QED
      BY <2>2, <2>3, <3>2, <3>3, DataWrite
  <2>6. QED
    BY <2>1, <2>4, <2>5
<1>4. QED
  BY <1>1, <1>2, <1>3

LEMMA DataCrash ==
  ASSUME TypeOK, DataInv, Crash
  PROVE  DataInv'
<1>1. row' = row /\ log' = log /\ \A t \in Threads : pc'[t] = "idle"
  BY DEF Crash
<1>2. \A t \in Threads : FrameData(t)'
  BY <1>1, FrameElsewhere DEF LoopSteps
<1>3. \A r \in Runs : Deltas(r)' = Deltas(r) /\ Answers(r)' = Answers(r)
  BY <1>1, TallyKept
<1>4. \A r \in Runs : RowData(r)'
  BY <1>1, <1>3 DEF DataInv, RowData
<1>5. QED
  BY <1>2, <1>4 DEF DataInv

LEMMA DataBegin ==
  ASSUME TypeOK, ExecutorInv, DataInv, NEW t \in Threads, Start(t) \/ Regenerate(t)
  PROVE  DataInv'
<1>1. PICK r \in Runs, s \in Sessions, g \in Grants, p \in Runs \cup {NoRun},
           step \in {"started", "regenerated"} : Begin(t, r, s, g, p, step)
  <2>1. CASE Start(t)
    BY <2>1 DEF Start
  <2>2. CASE Regenerate(t)
    BY <2>2 DEF Regenerate, TypeOK, Row
  <2>3. QED
    BY <2>1, <2>2
<1>2. PICK w : w = [state |-> "running", session |-> s, version |-> 0, text |-> 0,
                    results |-> 0, grants |-> g, parent |-> p]
  OBVIOUS
<1>3. w \in Row /\ w.state = "running" /\ w.grants = g
  BY <1>2 DEF Row, States, Active, Grants
<1>4. row[r].state = "absent" /\ row' = [row EXCEPT ![r] = w] /\ log' = log
  BY <1>1, <1>2 DEF Begin, CreateRun
<1>5. OthersKeep(t) /\ pc'[t] = step /\ cur'[t] = r /\ job'[t] = [NoJob EXCEPT !.grants = g]
  BY <1>1 DEF TypeOK, Begin, Goto, SetJob, OthersKeep
<1>6. /\ job'[t].acc = 0 /\ job'[t].chunks = 0 /\ job'[t].results = 0
      /\ job'[t].grants = g
  BY <1>5 DEF NoJob
<1>7. Deltas(r)' = 0 /\ Answers(r)' = 0
  BY <1>4, TallyKept DEF DataInv, RowData
<1>8. row'[r].grants = g
  BY <1>3, <1>4 DEF TypeOK
<1>9. CarriesAll(t)'
  <2>1. pc'[t] \notin {"delta", "flush", "resumed"}
    BY <1>5
  <2>2. QED
    BY <1>5, <1>6, <1>7, <1>8, <2>1 DEF CarriesAll
<1>10. FrameData(t)'
  BY <1>5, <1>9 DEF FrameData
<1>11. \A u \in Threads \ {t} : cur[u] = r => pc[u] \notin LoopSteps
  BY <1>4 DEF ExecutorInv, FrameInv, LoopSteps
<1>12. QED
  BY <1>3, <1>4, <1>5, <1>10, <1>11, DataWrite

LEMMA DataEvents ==
  ASSUME TypeOK, ExecutorInv, CloserInv, DataInv, NEW t \in Threads,
         \/ EmitBegun(t) \/ EmitDelta(t) \/ Flush(t) \/ EmitCancelled(t)
         \/ EmitResult(t) \/ EmitWait(t) \/ EmitError(t)
  PROVE  DataInv'
<1>1. PICK r \in Runs : r = cur[t]
  BY RowsOfThread DEF EmitBegun, EmitCancelled, EmitDelta, Flush, EmitResult, EmitWait, EmitError
<1>2. ASSUME NEW s \in {"round", "stream", "settle"},
             NEW k \in {"run_started", "run_regenerated", "run_resumed", "answer_delta"},
             Emit(t, s, k), pc[t] \in LoopSteps,
             k = "answer_delta" <=> pc[t] \in {"delta", "flush"},
             k = "run_resumed" <=> pc[t] = "resumed",
             s = "round" => pc[t] \in BetweenRounds
      PROVE  DataInv'
  <2>1. /\ OthersKeep(t) /\ row' = row /\ pc'[t] = s /\ cur'[t] = r
        /\ job'[t] = job[t] /\ Append1(r, k)
    BY <1>1, <1>2 DEF TypeOK, Emit, Goto, OthersKeep
  <2>2. k \in EventKinds
    BY DEF EventKinds
  <2>3. /\ Deltas(r)' = IF k = "answer_delta" THEN Deltas(r) + 1 ELSE Deltas(r)
        /\ Answers(r)' = IF k = "run_resumed" THEN Answers(r) + 1 ELSE Answers(r)
    BY <2>1, <2>2, TallyAppended
  <2>4. row'[r].state = "running" => CarriesAll(t)'
    <3>1. ASSUME row[r].state = "running"
          PROVE  /\ job[t].acc + job[t].chunks = Deltas(r)'
                 /\ job[t].results = Answers(r)'
                 /\ s \in BetweenRounds => job[t].chunks = 0
                 /\ job[t].grants = row[r].grants
      <4>1. s \in BetweenRounds => s = "round"
        BY DEF BetweenRounds
      <4>2. QED
        BY <1>1, <1>2, <2>3, <3>1, <4>1, Carried
    <3>2. s \notin {"delta", "flush", "resumed"}
      OBVIOUS
    <3>3. Deltas(r)' \in Nat /\ Answers(r)' \in Nat
      BY <2>3, TallyType
    <3>4. QED
      BY <2>1, <3>1, <3>2, <3>3 DEF CarriesAll
  <2>5. FrameData(t)'
    BY <2>1, <2>4 DEF FrameData
  <2>6. QED
    BY <1>1, <1>2, <2>1, <2>2, <2>5, DataEvent
<1>3. ASSUME NEW k \in EventKinds \ {"answer_delta", "tool_result", "run_resumed"},
             row' = row, Append1(r, k), OthersKeep(t), pc'[t] \notin LoopSteps \cup {"resume"}
      PROVE  DataInv'
  <2>1. \A q \in Runs : Deltas(q)' = Deltas(q) /\ Answers(q)' = Answers(q)
    BY <1>3, TallyAppended
  <2>2. QED
    BY <1>3, <2>1, FrameElsewhere, DataStill
<1>4. CASE EmitBegun(t) \/ EmitDelta(t) \/ Flush(t)
  BY <1>2, <1>4 DEF EmitBegun, EmitDelta, Flush, LoopSteps, BetweenRounds
<1>5. CASE EmitCancelled(t) \/ EmitResult(t) \/ EmitWait(t) \/ EmitError(t)
  <2>1. PICK k \in {"run_cancelled", "done_cancelled", "result", "done_completed",
                    "wait_for_input", "error", "done_error"} :
          EmitLast(t, k) \/ \E s \in {"emit_cancel_done", "emit_done", "emit_error_done"} : Emit(t, s, k)
    BY <1>5 DEF EmitCancelled, EmitResult, EmitWait, EmitError
  <2>2. k \in EventKinds \ {"answer_delta", "tool_result", "run_resumed"}
    BY DEF EventKinds
  <2>3. /\ row' = row /\ Append1(r, k) /\ OthersKeep(t)
        /\ pc'[t] \in {"idle", "emit_cancel_done", "emit_done", "emit_error_done"}
    BY <1>1, <2>1 DEF TypeOK, Emit, EmitLast, Goto, Return, OthersKeep
  <2>4. pc'[t] \notin LoopSteps \cup {"resume"}
    BY <2>3 DEF LoopSteps
  <2>5. QED
    BY <1>3, <2>2, <2>3, <2>4
<1>6. QED
  BY <1>4, <1>5

LEMMA DataReply ==
  ASSUME TypeOK, ExecutorInv, DataInv, NEW t \in Threads,
         ResumeLoad(t) \/ CancelLoad(t) \/ ResumeCas(t) \/ CancelCas(t)
  PROVE  DataInv'
<1>1. CASE ResumeLoad(t)
  <2>1. PICK r \in Runs, g \in Grants :
          /\ Goto(t, "resume")
          /\ cur' = [cur EXCEPT ![t] = r]
          /\ Load(t, r)
          /\ SetJob(t, [NoJob EXCEPT !.acc = row[r].text, !.results = row[r].results + 1,
                                     !.grants = row[r].grants \cap g])
          /\ row' = row /\ log' = log
    BY <1>1 DEF ResumeLoad
  <2>2. /\ OthersKeep(t) /\ pc'[t] = "resume" /\ cur'[t] = r /\ held'[t][r] = row[r]
        /\ job'[t] = [NoJob EXCEPT !.acc = row[r].text, !.results = row[r].results + 1,
                                   !.grants = row[r].grants \cap g]
    BY <2>1 DEF TypeOK, Goto, Load, SetJob, OthersKeep
  <2>3. /\ job'[t].results = row[r].results + 1 /\ job'[t].grants = row[r].grants \cap g
        /\ job'[t].chunks = 0
    BY <2>2 DEF NoJob
  <2>4. FrameData(t)'
    BY <2>2, <2>3 DEF FrameData, LoopSteps
  <2>5. QED
    BY <2>1, <2>2, <2>4, TallyKept, DataStill
<1>2. CASE CancelLoad(t)
  <2>1. OthersKeep(t) /\ pc'[t] = "cancel" /\ row' = row /\ log' = log
    BY <1>2 DEF TypeOK, CancelLoad, Goto, Load, OthersKeep
  <2>2. FrameData(t)'
    BY <2>1, FrameElsewhere DEF LoopSteps
  <2>3. QED
    BY <2>1, <2>2, TallyKept, DataStill
<1>3. CASE ResumeCas(t)
  <2> DEFINE c == held[t][cur[t]]
  <2>1. PICK r \in Runs : r = cur[t]
    BY <1>3, RowsOfThread DEF ResumeCas
  <2>2. /\ held[t][r] \in Row /\ job[t] \in Job /\ log' = log /\ pc[t] = "resume"
        /\ held[t][r].state = "waiting_input" /\ job[t].acc = held[t][r].text
        /\ job[t].results = held[t][r].results + 1 /\ job[t].chunks = 0
    BY <1>3, <2>1, RowsOfThread DEF ResumeCas, ExecutorInv, FrameInv, DataInv, FrameData
  <2>3. CASE Return(t) /\ row' = row
    BY <2>2, <2>3, DataReturns
  <2>4. CASE /\ Transition(r, held[t][r], {"waiting_input"}, "running",
                           held[t][r].text, job[t].results, job[t].grants)
             /\ Goto(t, "resumed")
             /\ Forget(t)
             /\ UNCHANGED <<cur, job>>
    <3>1. PICK w : w = Written(r, "running", held[t][r].text, job[t].results, job[t].grants)
      OBVIOUS
    <3>2. w \in Row /\ w.grants = job[t].grants
      BY <2>1, <2>2, <3>1, WrittenType, JobFields, RowFields DEF States, Active, Written
    <3>3. held[t][r] = row[r] /\ row[r].state = "waiting_input"
      BY <2>2, <2>4, MatchingCopy DEF Transition
    <3>4. row' = [row EXCEPT ![r] = w] /\ w.state = "running"
      BY <2>4, <3>1, WrittenFields DEF Transition
    <3>5. OthersKeep(t) /\ pc'[t] = "resumed" /\ cur'[t] = r /\ job'[t] = job[t]
      BY <2>1, <2>4 DEF TypeOK, Goto, Forget, OthersKeep
    <3>6. RowData(r) /\ row'[r] = w
      BY <3>4 DEF DataInv, TypeOK
    <3>7. Deltas(r)' = Deltas(r) /\ Answers(r)' = Answers(r)
      BY <2>2, TallyKept
    <3>8. job[t].acc = Deltas(r) /\ job[t].results = Answers(r) + 1 /\ Deltas(r) \in Nat
      BY <2>2, <3>3, <3>6, TallyType DEF RowData
    <3>9. CarriesAll(t)'
      BY <2>2, <3>2, <3>5, <3>6, <3>7, <3>8 DEF CarriesAll
    <3>10. FrameData(t)'
      BY <3>5, <3>9 DEF FrameData
    <3>11. \A u \in Threads \ {t} : cur[u] = r => pc[u] \notin LoopSteps
      BY <3>3 DEF ExecutorInv, OneExecutor, IsActive, Active, ExecSteps
    <3>12. QED
      BY <2>2, <3>2, <3>4, <3>5, <3>10, <3>11, DataWrite
  <2>5. QED
    BY <1>3, <2>1, <2>3, <2>4 DEF ResumeCas
<1>4. CASE CancelCas(t)
  <2> DEFINE r == cur[t]
             c == held[t][r]
  <2>1. r \in Runs /\ c \in Row /\ log' = log
    BY <1>4, RowsOfThread DEF CancelCas
  <2>2. CASE Return(t) /\ row' = row
    BY <2>1, <2>2, DataReturns
  <2>3. CASE /\ Terminate(r, c, {c.state}, "cancelled")
             /\ Goto(t, "emit_cancel")
             /\ Forget(t)
             /\ UNCHANGED <<cur, job>>
    <3>1. PICK w : w = Written(r, "cancelled", c.text, row[r].results, row[r].grants)
      OBVIOUS
    <3>2. w \in Row
      BY <2>1, <3>1, WrittenType, RowFields DEF TypeOK, States, Terminal
    <3>3. row' = [row EXCEPT ![r] = w] /\ w.state = "cancelled"
      BY <2>3, <3>1, WrittenFields DEF Terminate
    <3>4. OthersKeep(t) /\ pc'[t] = "emit_cancel"
      BY <2>3 DEF TypeOK, Goto, Forget, OthersKeep
    <3>5. FrameData(t)'
      BY <3>4, FrameElsewhere DEF LoopSteps
    <3>6. QED
      BY <2>1, <3>2, <3>3, <3>4, <3>5, DataWrite
  <2>4. QED
    BY <1>4, <2>2, <2>3 DEF CancelCas
<1>5. QED
  BY <1>1, <1>2, <1>3, <1>4

LEMMA DataRound ==
  ASSUME TypeOK, DataInv, NEW t \in Threads,
         \/ BeginRound(t) \/ StreamItem(t) \/ StreamEnd(t) \/ StreamTypeError(t)
         \/ Complete(t) \/ ProviderError(t)
  PROVE  DataInv'
<1>1. pc[t] \in LoopSteps /\ row' = row /\ log' = log
  BY DEF BeginRound, StreamItem, StreamEnd, StreamTypeError, Complete, ProviderError,
         StopIfCancelled, LoopSteps
<1>2. /\ cur[t] \in Runs /\ job[t] \in Job
      /\ Deltas(cur[t]) \in Nat /\ Answers(cur[t]) \in Nat
      /\ job[t].chunks \in Nat /\ job[t].acc \in Nat
  BY <1>1, Carried, JobFields
<1>3. CASE Return(t)
  BY <1>1, <1>3, DataReturns
<1>4. CASE Raise(t)
  BY <1>1, <1>4, DataRaises
<1>5. ASSUME DropRound(t), UNCHANGED <<cur, held>>
      PROVE  DataInv'
  <2>1. PICK j : j = [job[t] EXCEPT !.chunks = 0]
    OBVIOUS
  <2>2. j \in Job
    BY <1>2, <2>1, JobUpdates
  <2>3. row[cur[t]].state # "running"
    BY <1>5 DEF DropRound, Cancelled
  <2>4. "settle" \in LoopSteps
    BY DEF LoopSteps
  <2>5. QED
    BY <1>1, <1>5, <2>1, <2>2, <2>3, <2>4, DataLoops DEF DropRound
<1>6. ASSUME NEW v \in BOOLEAN, NEW k \in CallLists, NEW f \in {"stop", "length"},
             EndRound(t, v, k, f), UNCHANGED <<cur, held>>, pc[t] \in {"stream", "complete"}
      PROVE  DataInv'
  <2>1. PICK n \in Nat : n = IF v THEN job[t].chunks + 1 ELSE job[t].chunks
    BY <1>2
  <2>2. PICK j : j = [job[t] EXCEPT !.calls = k, !.finish = f, !.chunks = n]
    OBVIOUS
  <2>3. /\ j \in Job
        /\ j.acc = job[t].acc /\ j.results = job[t].results /\ j.grants = job[t].grants
        /\ j.chunks = n
    <3>1. k \in Seq(Tools \cup {AskUser, Ungranted})
      BY CallListsType
    <3>2. QED
      BY <1>2, <2>2, <3>1, JobRoundType DEF Job
  <2>4. PICK s \in {"flush", "settle"} : s = IF v THEN "flush" ELSE "settle"
    OBVIOUS
  <2>5. SetJob(t, j) /\ Goto(t, s)
    BY <1>6, <2>1, <2>2, <2>4 DEF EndRound
  <2>6. s \in LoopSteps /\ s \notin BetweenRounds /\ s # "tool"
    BY DEF LoopSteps, BetweenRounds
  <2>7. row[cur[t]].state = "running" =>
           /\ j.acc + j.chunks = Deltas(cur[t]) + (IF s \in {"delta", "flush"} THEN 1 ELSE 0)
           /\ j.results = Answers(cur[t]) + (IF s = "resumed" THEN 1 ELSE 0)
           /\ j.grants = row[cur[t]].grants
    BY <1>1, <1>2, <1>6, <2>1, <2>3, <2>4, Carried
  <2>8. QED
    BY <1>1, <1>6, <2>3, <2>5, <2>6, <2>7, DataLoops
<1>7. CASE BeginRound(t)
  <2>1. CASE /\ Goto(t, "stream")
             /\ SetJob(t, [job[t] EXCEPT !.rounds = @ + 1])
             /\ UNCHANGED <<cur, held>>
    <3>1. PICK j : j = [job[t] EXCEPT !.rounds = @ + 1]
      OBVIOUS
    <3>2. /\ j \in Job
          /\ j.acc = job[t].acc /\ j.results = job[t].results /\ j.grants = job[t].grants
          /\ j.chunks = job[t].chunks
      BY <1>2, <3>1, JobUpdates DEF Job
    <3>3. "stream" \in LoopSteps /\ "stream" \notin BetweenRounds
      BY DEF LoopSteps, BetweenRounds
    <3>4. pc[t] = "round"
      BY <1>7 DEF BeginRound
    <3>5. row[cur[t]].state = "running" =>
             /\ j.acc + j.chunks = Deltas(cur[t])
             /\ j.results = Answers(cur[t])
             /\ j.grants = row[cur[t]].grants
      BY <1>1, <1>2, <3>2, <3>4, Carried
    <3>6. SetJob(t, j)
      BY <2>1, <3>1
    <3>7. QED
      BY <1>1, <1>2, <2>1, <3>2, <3>3, <3>5, <3>6, DataLoops
  <2>2. QED
    BY <1>3, <1>4, <1>7, <2>1 DEF BeginRound, StopIfCancelled
<1>8. CASE StreamItem(t)
  <2>1. CASE /\ Goto(t, "delta")
             /\ SetJob(t, [job[t] EXCEPT !.chunks = @ + 1])
             /\ UNCHANGED <<cur, held>>
    <3>1. PICK j : j = [job[t] EXCEPT !.chunks = @ + 1]
      OBVIOUS
    <3>2. /\ j \in Job
          /\ j.acc = job[t].acc /\ j.results = job[t].results /\ j.grants = job[t].grants
          /\ j.chunks = job[t].chunks + 1
      BY <1>2, <3>1, JobUpdates DEF Job
    <3>3. "delta" \in LoopSteps /\ "delta" \notin BetweenRounds
      BY DEF LoopSteps, BetweenRounds
    <3>4. pc[t] = "stream"
      BY <1>8 DEF StreamItem
    <3>5. row[cur[t]].state = "running" =>
             /\ j.acc + j.chunks = Deltas(cur[t]) + 1
             /\ j.results = Answers(cur[t])
             /\ j.grants = row[cur[t]].grants
      BY <1>1, <1>2, <3>2, <3>4, Carried
    <3>6. SetJob(t, j)
      BY <2>1, <3>1
    <3>7. QED
      BY <1>1, <1>2, <2>1, <3>2, <3>3, <3>5, <3>6, DataLoops
  <2>2. QED
    BY <1>5, <1>8, <2>1 DEF StreamItem
<1>9. CASE StreamEnd(t)
  BY <1>6, <1>9 DEF StreamEnd
<1>10. CASE StreamTypeError(t)
  <2>1. SetJob(t, job[t]) /\ Goto(t, "complete") /\ UNCHANGED <<cur, held>> /\ pc[t] = "stream"
    BY <1>10 DEF StreamTypeError, TypeOK, SetJob
  <2>2. "complete" \in LoopSteps /\ "complete" \notin BetweenRounds
    BY DEF LoopSteps, BetweenRounds
  <2>3. row[cur[t]].state = "running" =>
           /\ job[t].acc + job[t].chunks = Deltas(cur[t])
           /\ job[t].results = Answers(cur[t])
           /\ job[t].grants = row[cur[t]].grants
    BY <1>1, <1>2, <2>1, Carried
  <2>4. QED
    BY <1>1, <1>2, <2>1, <2>2, <2>3, DataLoops
<1>11. CASE Complete(t)
  BY <1>5, <1>6, <1>11 DEF Complete
<1>12. CASE ProviderError(t)
  BY <1>4, <1>12 DEF ProviderError
<1>13. QED
  BY <1>7, <1>8, <1>9, <1>10, <1>11, <1>12

LEMMA DataSettle ==
  ASSUME TypeOK, DataInv, NEW t \in Threads, Settle(t)
  PROVE  DataInv'
<1>1. pc[t] \in LoopSteps /\ pc[t] = "settle" /\ row' = row /\ log' = log
  BY DEF Settle, StopIfCancelled, LoopSteps
<1>2. CASE StopIfCancelled(t)
  BY <1>1, <1>2, DataReturns DEF StopIfCancelled
<1>3. CASE ~ Cancelled(t)
  <2>1. /\ cur[t] \in Runs /\ job[t] \in Job /\ Deltas(cur[t]) \in Nat
        /\ job[t].chunks \in Nat /\ job[t].acc \in Nat /\ job[t].conts \in Nat
    BY <1>1, Carried, JobFields
  <2>2. PICK n \in Nat, s \in {"calls", "continue", "finish"} :
          /\ Load(t, cur[t])
          /\ SetJob(t, [job[t] EXCEPT !.acc = job[t].acc + job[t].chunks, !.chunks = 0,
                                      !.finish = "stop", !.conts = n])
          /\ Goto(t, s)
          /\ UNCHANGED cur
    <3> DEFINE more == job[t].calls = << >> /\ job[t].finish = "length" /\ job[t].conts < MaxConts
               n == IF more THEN job[t].conts + 1 ELSE job[t].conts
               s == IF job[t].calls # << >> THEN "calls" ELSE IF more THEN "continue" ELSE "finish"
    <3>1. n \in Nat
      BY <2>1
    <3>2. s \in {"calls", "continue", "finish"}
      OBVIOUS
    <3>3. /\ Load(t, cur[t])
          /\ SetJob(t, [job[t] EXCEPT !.acc = job[t].acc + job[t].chunks, !.chunks = 0,
                                      !.finish = "stop", !.conts = n])
          /\ Goto(t, s)
          /\ UNCHANGED cur
      BY <1>3 DEF Settle, StopIfCancelled
    <3>4. QED
      BY <3>1, <3>2, <3>3
  <2>3. PICK j : j = [job[t] EXCEPT !.acc = job[t].acc + job[t].chunks, !.chunks = 0,
                                    !.finish = "stop", !.conts = n]
    OBVIOUS
  <2>4. /\ j \in Job
        /\ j.acc = job[t].acc + job[t].chunks /\ j.chunks = 0
        /\ j.results = job[t].results /\ j.grants = job[t].grants
    <3>1. job[t].acc + job[t].chunks \in Nat
      BY <2>1
    <3>2. j \in Job
      BY <2>1, <2>3, <3>1, JobSettled
    <3>3. QED
      BY <2>1, <2>3, <3>2 DEF Job
  <2>5. s \in LoopSteps /\ s \notin {"delta", "flush", "resumed", "tool"}
    BY DEF LoopSteps
  <2>6. row[cur[t]].state = "running" =>
           /\ j.acc + j.chunks = Deltas(cur[t])
           /\ j.results = Answers(cur[t])
           /\ j.grants = row[cur[t]].grants
    BY <1>1, <2>1, <2>4, Carried
  <2>7. j.acc + j.chunks = j.acc + j.chunks + 0
    BY <2>1, <2>4
  <2>8. Answers(cur[t]) + 0 = Answers(cur[t]) /\ Deltas(cur[t]) + 0 = Deltas(cur[t])
    BY <1>1, Carried
  <2>9. QED
    BY <1>1, <2>2, <2>3, <2>4, <2>5, <2>6, <2>8, DataLoops
<1>4. QED
  BY <1>2, <1>3 DEF Settle

LEMMA DataCalls ==
  ASSUME TypeOK, ExecutorInv, CloserInv, DataInv, NEW t \in Threads,
         NextCall(t) \/ RunTool(t) \/ Asked(t)
  PROVE  DataInv'
<1>1. CASE NextCall(t)
  <2>1. pc[t] \in LoopSteps /\ pc[t] = "calls" /\ row' = row /\ log' = log
    BY <1>1 DEF NextCall, StopIfCancelled, LoopSteps
  <2>2. job[t] \in Job /\ Answers(cur[t]) \in Nat /\ Deltas(cur[t]) \in Nat
    BY <2>1, Carried
  <2>3. ASSUME NEW s \in {"round", "ask", "tool"}, Goto(t, s), UNCHANGED <<cur, job>>,
               held' = held \/ Load(t, cur[t]), s = "tool" => Head(job[t].calls) \in job[t].grants
        PROVE  DataInv'
    <3>1. SetJob(t, job[t])
      BY <2>3 DEF TypeOK, SetJob
    <3>2. s \in LoopSteps /\ s \notin {"delta", "flush", "resumed"} /\ s # "resume"
      BY DEF LoopSteps
    <3>3. row[cur[t]].state = "running" =>
             /\ job[t].acc + job[t].chunks = Deltas(cur[t])
             /\ job[t].results = Answers(cur[t])
             /\ job[t].chunks = 0
             /\ job[t].grants = row[cur[t]].grants
      BY <2>1, <2>2, Carried DEF BetweenRounds
    <3>4. QED
      BY <2>1, <2>2, <2>3, <3>1, <3>2, <3>3, DataLoops
  <2>4. CASE Return(t)
    BY <2>1, <2>4, DataReturns
  <2>5. CASE Raise(t)
    BY <2>1, <2>5, DataRaises
  <2>6. QED
    BY <1>1, <2>3, <2>4, <2>5 DEF NextCall, StopIfCancelled
<1>2. CASE RunTool(t)
  <2>1. pc[t] \in LoopSteps /\ pc[t] = "tool" /\ row' = row /\ job[t].calls # << >>
    BY <1>2 DEF RunTool, LoopSteps, TypeOK
  <2>2. CASE Raise(t) /\ log' = log
    BY <2>1, <2>2, DataRaises
  <2>3. CASE /\ Append1(cur[t], "tool_result")
             /\ SetJob(t, [job[t] EXCEPT !.results = job[t].results + 1,
                                         !.calls = Tail(job[t].calls)])
             /\ Goto(t, "save")
             /\ UNCHANGED <<cur, held>>
    <3>1. PICK r \in Runs : r = cur[t]
      BY <2>1, Carried
    <3>2. PICK j : j = [job[t] EXCEPT !.results = job[t].results + 1, !.calls = Tail(job[t].calls)]
      OBVIOUS
    <3>3. /\ j.acc = job[t].acc /\ j.chunks = job[t].chunks
          /\ j.results = job[t].results + 1 /\ j.grants = job[t].grants
      BY <2>1, <3>2, Carried DEF Job
    <3>4. OthersKeep(t) /\ pc'[t] = "save" /\ cur'[t] = r /\ job'[t] = j
      BY <2>3, <3>1, <3>2 DEF TypeOK, Goto, SetJob, OthersKeep
    <3>5. Deltas(r)' = Deltas(r) /\ Answers(r)' = Answers(r) + 1
      BY <2>3, <3>1, TallyAppended DEF EventKinds
    <3>6. row[r].state = "running" => /\ j.acc + j.chunks = Deltas(r)'
                                      /\ j.results = Answers(r)'
                                      /\ j.chunks = 0
                                      /\ j.grants = row[r].grants
      BY <2>1, <3>1, <3>3, <3>5, Carried DEF BetweenRounds
    <3>7. Deltas(r)' \in Nat /\ Answers(r)' \in Nat
      BY <3>5, TallyType
    <3>8. row'[r].state = "running" => CarriesAll(t)'
      BY <2>1, <3>4, <3>6, <3>7 DEF CarriesAll
    <3>9. FrameData(t)'
      BY <3>4, <3>8 DEF FrameData
    <3>10. QED
      BY <2>1, <2>3, <3>4, <3>9, DataEvent DEF EventKinds
  <2>4. QED
    BY <1>2, <2>2, <2>3 DEF RunTool
<1>3. CASE Asked(t)
  <2>1. CASE StopIfCancelled(t)
    BY <2>1, DataReturns DEF StopIfCancelled
  <2>2. CASE Goto(t, "emit_wait") /\ UNCHANGED <<row, log, cur, held, job>>
    <3>1. OthersKeep(t) /\ pc'[t] = "emit_wait"
      BY <2>2 DEF TypeOK, Goto, OthersKeep
    <3>2. FrameData(t)'
      BY <3>1, FrameElsewhere DEF LoopSteps
    <3>3. QED
      BY <2>2, <3>1, <3>2, TallyKept, DataStill
  <2>3. QED
    BY <1>3, <2>1, <2>2 DEF Asked
<1>4. QED
  BY <1>1, <1>2, <1>3

LEMMA DataRace ==
  ASSUME TypeOK, ExecutorInv, CloserInv, DataInv, NEW t \in Threads,
         Continue(t) \/ SaveResult(t) \/ Finish(t) \/ Ask(t)
  PROVE  DataInv'
<1>1. PICK r \in Runs : r = cur[t]
  BY RowsOfThread DEF Continue, SaveResult, Finish, Ask
<1>2. /\ job[t] \in Job /\ pc[t] \in LoopSteps /\ pc[t] \in BetweenRounds /\ log' = log
      /\ pc[t] \notin {"delta", "flush", "resumed"}
  BY RowsOfThread DEF Continue, SaveResult, Finish, Ask, LoopSteps, BetweenRounds
<1>3. /\ Deltas(r) \in Nat /\ Answers(r) \in Nat /\ job[t].acc \in Nat
      /\ row[r].state = "running" => /\ job[t].acc = Deltas(r) /\ job[t].results = Answers(r)
                                     /\ job[t].chunks = 0
                                     /\ job[t].grants = row[r].grants
  BY <1>1, <1>2, Carried, JobFields
<1>4. ASSUME NEW to \in {"running", "waiting_input", "completed"}, NEW step,
             Transition(r, held[t][r], {"running"}, to, job[t].acc, job[t].results, job[t].grants),
             Goto(t, step), Forget(t), UNCHANGED cur, SetJob(t, job'[t]),
             \/ step \in {"round", "calls"} /\ to = "running" /\ UNCHANGED job
             \/ step \in {"asked", "emit_result"}
      PROVE  DataInv'
  <2>1. PICK w : w = Written(r, to, job[t].acc, job[t].results, job[t].grants)
    OBVIOUS
  <2>2. /\ w \in Row /\ w.state = to /\ w.text = job[t].acc /\ w.results = job[t].results
        /\ w.grants = job[t].grants
    BY <1>2, <2>1, WrittenType, JobFields DEF States, Active, Terminal, Written
  <2>3. row' = [row EXCEPT ![r] = w] /\ row[r].state = "running"
    BY <1>4, <2>1 DEF Transition, Matches
  <2>4. OthersKeep(t) /\ pc'[t] = step /\ cur'[t] = r /\ row'[r] = w
    BY <1>1, <1>4, <2>3 DEF TypeOK, Goto, Forget, SetJob, OthersKeep
  <2>5. \A u \in Threads \ {t} : cur[u] = r => pc[u] \notin LoopSteps
    BY <1>1, <1>2 DEF CloserInv, SoleCloser, Closing, ExecSteps
  <2>6. Deltas(r)' = Deltas(r) /\ Answers(r)' = Answers(r)
    BY <1>2, TallyKept
  <2>7. FrameData(t)'
    <3>1. CASE step \in {"round", "calls"} /\ UNCHANGED job
      <4>1. CarriesAll(t)'
        BY <1>2, <1>3, <2>2, <2>3, <2>4, <2>6, <3>1 DEF CarriesAll
      <4>2. QED
        BY <2>4, <3>1, <4>1 DEF FrameData
    <3>2. CASE step \in {"asked", "emit_result"}
      BY <2>4, <3>2, FrameElsewhere DEF LoopSteps
    <3>3. QED
      BY <1>4, <3>1, <3>2
  <2>8. QED
    BY <1>2, <1>3, <2>2, <2>3, <2>4, <2>5, <2>7, DataWrite
<1>5. CASE Return(t) /\ row' = row
  BY <1>2, <1>5, DataReturns
<1>6. CASE Raise(t) /\ row' = row
  BY <1>2, <1>6, DataRaises
<1>7. UNCHANGED job => SetJob(t, job'[t])
  BY DEF TypeOK, SetJob
<1>8. CASE Continue(t) \/ SaveResult(t)
  <2>1. PICK step \in {"round", "calls"} : SaveOr(t, step)
    BY <1>8 DEF Continue, SaveResult
  <2>2. QED
    BY <1>1, <1>4, <1>6, <1>7, <2>1 DEF SaveOr, UpdateSnapshot
<1>9. CASE Finish(t) \/ Ask(t)
  <2> DEFINE Leave(step) == Goto(t, step) /\ Forget(t) /\ SetJob(t, NoJob) /\ UNCHANGED cur
  <2>1. PICK to \in {"completed", "waiting_input"}, step \in {"emit_result", "asked"} :
          TransitionOrRace(t, to, step)
    BY <1>9 DEF Finish, Ask
  <2>2. CASE Leave(step) /\ row' = row
    <3>1. OthersKeep(t) /\ pc'[t] = step
      BY <2>2 DEF TypeOK, Goto, Forget, SetJob, OthersKeep
    <3>2. FrameData(t)'
      BY <3>1, FrameElsewhere DEF LoopSteps
    <3>3. QED
      BY <1>2, <2>2, <3>1, <3>2, TallyKept, DataStill
  <2>3. CASE /\ Transition(r, held[t][r], {"running"}, to,
                           job[t].acc, job[t].results, job[t].grants)
             /\ Leave(step)
    <3>1. SetJob(t, job'[t])
      BY <2>3 DEF TypeOK, SetJob
    <3>2. QED
      BY <1>4, <2>1, <2>3, <3>1
  <2>4. QED
    BY <1>1, <1>5, <1>6, <2>1, <2>2, <2>3 DEF TransitionOrRace
<1>10. QED
  BY <1>8, <1>9

LEMMA DataFail ==
  ASSUME TypeOK, ExecutorInv, DataInv, NEW t \in Threads, FailLoad(t) \/ FailCas(t)
  PROVE  DataInv'
<1> DEFINE r == cur[t]
           c == held[t][r]
<1>1. r \in Runs /\ c \in Row /\ log' = log
  BY RowsOfThread DEF FailLoad, FailCas
<1>2. CASE Return(t) /\ row' = row
  BY <1>1, <1>2, DataReturns
<1>3. CASE row' = row /\ ~ Return(t)
  <2>1. OthersKeep(t) /\ pc'[t] \in {"emit_error", "fail_cas"}
    BY <1>3 DEF TypeOK, FailLoad, FailCas, Goto, Load, Forget, OthersKeep
  <2>2. FrameData(t)'
    BY <2>1, FrameElsewhere DEF LoopSteps
  <2>3. QED
    BY <1>1, <1>3, <2>1, <2>2, TallyKept, DataStill
<1>4. CASE /\ Terminate(r, c, {"running"}, "error")
           /\ Goto(t, "emit_error")
           /\ Forget(t)
           /\ UNCHANGED <<cur, job>>
  <2>1. PICK w : w = Written(r, "error", c.text, row[r].results, row[r].grants)
    OBVIOUS
  <2>2. w \in Row
    BY <1>1, <2>1, WrittenType, RowFields DEF TypeOK, States, Terminal
  <2>3. row' = [row EXCEPT ![r] = w] /\ w.state = "error"
    BY <1>4, <2>1, WrittenFields DEF Terminate
  <2>4. OthersKeep(t) /\ pc'[t] = "emit_error"
    BY <1>4 DEF TypeOK, Goto, Forget, OthersKeep
  <2>5. FrameData(t)'
    BY <2>4, FrameElsewhere DEF LoopSteps
  <2>6. QED
    BY <1>1, <2>2, <2>3, <2>4, <2>5, DataWrite
<1>5. QED
  BY <1>2, <1>3, <1>4 DEF FailLoad, FailCas

LEMMA InitData == Init => DataInv
<1> SUFFICES ASSUME Init PROVE DataInv
  OBVIOUS
<1>1. ASSUME NEW r \in Runs PROVE RowData(r)
  <2>1. log[r] = << >> /\ row[r].state = "absent"
    BY DEF Init, StoreInit, AbsentRow
  <2>2. DOMAIN log[r] = {}
    BY <2>1
  <2>3. Deltas(r) = 0 /\ Answers(r) = 0
    BY <2>2, FS_EmptySet DEF Deltas, Answers, Count
  <2>4. QED
    BY <2>1, <2>3 DEF RowData
<1>2. \A t \in Threads : FrameData(t)
  BY DEF Init, FrameData, LoopSteps
<1>3. QED
  BY <1>1, <1>2 DEF DataInv

LEMMA StepData ==
  TypeOK /\ ExecutorInv /\ CloserInv /\ DataInv /\ [Next]_evars => DataInv'
<1> SUFFICES ASSUME TypeOK, ExecutorInv, CloserInv, DataInv, [Next]_evars PROVE DataInv'
  OBVIOUS
<1>1. CASE UNCHANGED evars
  BY <1>1, ZenonT(60) DEF evars, DataInv, FrameData, CarriesAll, RowData, Deltas, Answers, Count
<1>2. CASE Crash
  BY <1>2, DataCrash
<1>3. ASSUME NEW t \in Threads, BeginBuild(t) \/ Request(t) \/ Execute(t)
      PROVE  DataInv'
  <2>1. CASE BeginBuild(t) \/ ReadStale(t) \/ RecoverRun(t) \/ EndBuild(t)
    BY <2>1, DataBundle
  <2>2. CASE Start(t) \/ Regenerate(t)
    BY <2>2, DataBegin
  <2>3. CASE \/ EmitBegun(t) \/ EmitDelta(t) \/ Flush(t) \/ EmitCancelled(t)
           \/ EmitResult(t) \/ EmitWait(t) \/ EmitError(t)
    BY <2>3, DataEvents
  <2>4. CASE ResumeLoad(t) \/ CancelLoad(t) \/ ResumeCas(t) \/ CancelCas(t)
    BY <2>4, DataReply
  <2>5. CASE \/ BeginRound(t) \/ StreamItem(t) \/ StreamEnd(t)
           \/ StreamTypeError(t) \/ Complete(t) \/ ProviderError(t)
    BY <2>5, DataRound
  <2>6. CASE Settle(t)
    BY <2>6, DataSettle
  <2>7. CASE NextCall(t) \/ RunTool(t) \/ Asked(t)
    BY <2>7, DataCalls
  <2>8. CASE Continue(t) \/ SaveResult(t) \/ Finish(t) \/ Ask(t)
    BY <2>8, DataRace
  <2>9. CASE FailLoad(t) \/ FailCas(t)
    BY <2>9, DataFail
  <2>10. QED
    BY <1>3, <2>1, <2>2, <2>3, <2>4, <2>5, <2>6, <2>7, <2>8, <2>9 DEF Request, Execute
<1>4. QED
  BY <1>1, <1>2, <1>3 DEF Next

\* What an executor carries, in every reachable state.
THEOREM DataInvariant == Spec => []DataInv
<1>1. QED
  BY InitData, StepData, TypeCorrect, ExecutorInvariant, CloserInvariant, PTL DEF Spec

\* A run that pauses or completes has lost nothing: no segment streamed to the
\* client, no tool result and no reply, across waits, continuations and provider
\* fallbacks (_run_loop, _call_round, resume).
THEOREM NothingLost == Spec => []SnapshotComplete
<1>1. DataInv => SnapshotComplete
  BY DEF DataInv, RowData, SnapshotComplete, Deltas, Answers
<1>2. QED
  BY <1>1, DataInvariant, PTL

-----------------------------------------------------------------------------
(* The tools of a turn. *)

\* No write gives an active run a tool its row does not have.
LEMMA GrantsShrink ==
  ASSUME TypeOK, ExecutorInv, DataInv, [Next]_evars, NEW r \in Runs, IsActive(r)
  PROVE  row'[r].grants \subseteq row[r].grants
<1>1. CASE UNCHANGED row
  BY <1>1
<1>2. CASE UNCHANGED evars \/ Crash
  BY <1>2 DEF evars, Crash
<1>3. ASSUME NEW q \in Runs, NEW to, NEW x, NEW n, NEW g,
             row' = [row EXCEPT ![q] = Written(q, to, x, n, g)], g \subseteq row[q].grants
      PROVE  row'[r].grants \subseteq row[r].grants
  <2>1. Written(q, to, x, n, g).grants = g
    BY DEF Written
  <2>2. row'[q] = Written(q, to, x, n, g) /\ \A p \in Runs \ {q} : row'[p] = row[p]
    BY <1>3 DEF TypeOK
  <2>3. QED
    BY <1>3, <2>1, <2>2
<1>4. ASSUME NEW t \in Threads, BeginBuild(t) \/ Request(t) \/ Execute(t), ~ UNCHANGED row
      PROVE  row'[r].grants \subseteq row[r].grants
  <2> DEFINE p == cur[t]
             c == held[t][p]
  <2>1. ASSUME Start(t) \/ Regenerate(t)
        PROVE  row'[r] = row[r]
    <3>1. PICK q \in Runs, s \in Sessions, g \in Grants, o \in Runs \cup {NoRun} :
            CreateRun(q, s, g, o)
      BY <2>1 DEF Start, Regenerate, Begin, TypeOK, Row
    <3>2. q # r
      BY <3>1 DEF CreateRun, IsActive, Active
    <3>3. QED
      BY <3>1, <3>2 DEF CreateRun, TypeOK
  <2>2. CASE RecoverRun(t) \/ CancelCas(t) \/ FailCas(t)
    <3>1. PICK q \in Runs, to \in Terminal, d \in Row, from \in SUBSET States :
            Terminate(q, d, from, to)
      <4>1. {"running"} \in SUBSET States /\ {"error", "cancelled"} \subseteq Terminal
        BY DEF States, Active, Terminal
      <4>2. CASE RecoverRun(t)
        <5>1. PICK q \in Runs : Terminate(q, held[t][q], {"running"}, "error")
          BY <1>4, <4>2 DEF RecoverRun
        <5>2. held[t][q] \in Row
          BY DEF TypeOK
        <5>3. QED
          BY <4>1, <5>1, <5>2
      <4>3. CASE CancelCas(t)
        <5>1. p \in Runs /\ c \in Row
          BY <4>3, RowsOfThread DEF CancelCas
        <5>2. {c.state} \in SUBSET States
          BY <5>1, RowFields
        <5>3. QED
          BY <1>4, <4>1, <4>3, <5>1, <5>2 DEF CancelCas
      <4>4. CASE FailCas(t)
        <5>1. p \in Runs /\ c \in Row
          BY <4>4, RowsOfThread DEF FailCas
        <5>2. QED
          BY <1>4, <4>1, <4>4, <5>1 DEF FailCas
      <4>5. QED
        BY <2>2, <4>2, <4>3, <4>4
    <3>2. QED
      BY <1>3, <3>1 DEF Terminate
  <2>3. CASE ResumeCas(t)
    <3>1. p \in Runs /\ Transition(p, c, {"waiting_input"}, "running", c.text, job[t].results, job[t].grants)
      BY <1>4, <2>3, RowsOfThread DEF ResumeCas
    <3>2. c.state # "absent" /\ job[t].grants \subseteq c.grants
      BY <2>3 DEF ResumeCas, ExecutorInv, FrameInv, DataInv, FrameData
    <3>3. c = row[p]
      BY <3>1, <3>2, MatchingCopy DEF Transition
    <3>4. QED
      BY <1>3, <3>1, <3>2, <3>3 DEF Transition
  <2>4. CASE Continue(t) \/ SaveResult(t) \/ Finish(t) \/ Ask(t)
    <3>1. p \in Runs /\ pc[t] \in LoopSteps
      BY <2>4, RowsOfThread DEF Continue, SaveResult, Finish, Ask, LoopSteps
    <3>2. PICK to : Transition(p, c, {"running"}, to, job[t].acc, job[t].results, job[t].grants)
      BY <1>4, <2>4
      DEF Continue, SaveResult, Finish, Ask, SaveOr, TransitionOrRace, UpdateSnapshot
    <3>3. job[t].grants = row[p].grants
      BY <3>1, <3>2, Carried DEF Transition, Matches
    <3>4. QED
      BY <1>3, <3>1, <3>2, <3>3 DEF Transition
  <2>5. QED
    BY <1>4, <2>1, <2>2, <2>3, <2>4
    DEF BeginBuild, Request, Execute, ResumeLoad, CancelLoad, ReadStale, EndBuild,
        EmitBegun, EmitCancelled, BeginRound, StreamItem, EmitDelta, StreamEnd, Flush,
        StreamTypeError, Complete, ProviderError, Settle, EmitResult, NextCall, RunTool,
        Asked, EmitWait, FailLoad, EmitError, Emit, EmitLast, StopIfCancelled
<1>5. QED
  BY <1>2, <1>4 DEF Next

\* A tool about to run in an active turn is one its row grants.
LEMMA ToolGranted ==
  ASSUME TypeOK, ExecutorInv, DataInv, NEW t \in Threads, pc[t] = "tool", IsActive(cur[t])
  PROVE  Head(job[t].calls) \in row[cur[t]].grants
<1>1. pc[t] \in LoopSteps
  BY DEF LoopSteps
<1>2. row[cur[t]].state = "running"
  BY <1>1 DEF ExecutorInv, OneExecutor, ExecSteps
<1>3. QED
  BY <1>1, <1>2, Carried DEF DataInv, FrameData

\* A turn never gains a tool, and no tool outside its snapshot runs (resume,
\* execute_granted).
THEOREM NoToolGained == Spec => GrantsNeverExpand
<1>1. ASSUME TypeOK, ExecutorInv, DataInv, [Next]_evars, NEW r \in Runs, IsActive(r)
      PROVE  /\ row'[r].grants \subseteq row[r].grants
             /\ \A t \in Threads : /\ cur[t] = r
                                   /\ pc[t] = "tool"
                                   /\ pc'[t] = "save"
                                   => Head(job[t].calls) \in row[r].grants
  BY <1>1, GrantsShrink, ToolGranted
<1>2. TypeOK /\ ExecutorInv /\ DataInv /\ [Next]_evars =>
        [\A r \in Runs : IsActive(r) =>
           /\ row'[r].grants \subseteq row[r].grants
           /\ \A t \in Threads : /\ cur[t] = r
                                 /\ pc[t] = "tool"
                                 /\ pc'[t] = "save"
                                 => Head(job[t].calls) \in row[r].grants]_evars
  BY <1>1
<1>3. QED
  BY <1>2, TypeCorrect, ExecutorInvariant, DataInvariant, PTL DEF Spec, GrantsNeverExpand
=============================================================================
