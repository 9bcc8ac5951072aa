-------------------------- MODULE HostTutor_proofs --------------------------
(***************************************************************************)
(* The host's rows keep their types, and the host drives the executor only *)
(* through its requests: what is proved of TutorExecutor holds under the   *)
(* host too.  A turn shown as ended has an ended run, and a turn that its  *)
(* requests take up one at a time mirrors its run, whose events it tells   *)
(* in their order.                                                         *)
(***************************************************************************)
EXTENDS HostTutor, TutorLog_proofs

-----------------------------------------------------------------------------
(* Types. *)

LEMMA NoTurnRowType == NoTurnRow \in HostRow
<1>1. (CHOOSE s \in Sessions : TRUE) \in Sessions
  BY StoreAssumption
<1>2. QED
  BY <1>1 DEF NoTurnRow, HostRow

LEMMA NoReqType == NoReq \in Req
  BY NoTurnRowType DEF NoReq, Req

LEMMA LogLength ==
  ASSUME TypeOK, NEW r \in Runs
  PROVE  Len(log[r]) \in Nat
<1>1. log[r] \in Seq(EventKinds)
  BY DEF TypeOK
<1>2. QED
  BY <1>1

\* What a handler is about, while it is about it.
Frame(t) ==
  /\ hpc[t] \notin {"free", "delete"} => /\ req[t].turn \in Turns
                                        /\ turn[req[t].turn].state # "absent"
  /\ hpc[t] \notin {"free", "delete", "bind"} => req[t].run \in Runs

\* A step of thread t that leaves the rows of the host alone.
LEMMA FrameStep ==
  ASSUME HostTypeOK, NEW t \in Threads, UNCHANGED <<exists, turn>>,
         NEW s \in HostSteps, HGoto(t, s), NEW q \in Req, req' = [req EXCEPT ![t] = q],
         s \notin {"free", "delete"} => q.turn \in Turns /\ turn[q.turn].state # "absent",
         s \notin {"free", "delete", "bind"} => q.run \in Runs,
         disturbed' \subseteq Turns
  PROVE  HostTypeOK'
<1>1. exists' \in [Sessions -> BOOLEAN] /\ turn' \in [Turns -> HostRow]
  BY DEF HostTypeOK
<1>2. hpc' \in [Threads -> HostSteps] /\ req' \in [Threads -> Req]
  BY DEF HostTypeOK, HGoto
<1>3. ASSUME NEW u \in Threads PROVE Frame(u)'
  <2>1. CASE u = t
    <3>1. hpc'[u] = s /\ req'[u] = q
      BY <2>1 DEF HostTypeOK, HGoto
    <3>2. QED
      BY <3>1 DEF Frame
  <2>2. CASE u # t
    <3>1. hpc'[u] = hpc[u] /\ req'[u] = req[u]
      BY <2>2 DEF HostTypeOK, HGoto
    <3>2. QED
      BY <3>1 DEF Frame, HostTypeOK
  <2>3. QED
    BY <2>1, <2>2
<1>4. QED
  BY <1>1, <1>2, <1>3 DEF HostTypeOK, Frame

LEMMA ReplyHostType ==
  ASSUME HostTypeOK, NEW t \in Threads, Reply(t), UNCHANGED <<exists, turn, disturbed>>
  PROVE  HostTypeOK'
<1>1. "free" \in HostSteps /\ disturbed' \subseteq Turns
  BY DEF HostSteps, HostTypeOK
<1>2. HGoto(t, "free") /\ req' = [req EXCEPT ![t] = NoReq]
  BY DEF Reply
<1>3. QED
  BY <1>1, <1>2, NoReqType, FrameStep

LEMMA AdmitType ==
  ASSUME HostTypeOK, NEW k \in Turns, Admit(k)
  PROVE  disturbed' \subseteq Turns
  BY DEF HostTypeOK, Admit

\* The requests that are about a turn that is stored.
LEMMA PostType ==
  ASSUME TypeOK, HostTypeOK, NEW t \in Threads, PostReply(t) \/ PostCancel(t)
  PROVE  HostTypeOK'
<1>1. CASE PostReply(t)
  <2>1. PICK k \in Turns :
          /\ Stored(k) /\ turn[k].run # NoRun
          /\ req' = [req EXCEPT ![t] = [NoReq EXCEPT !.kind = "resume", !.turn = k,
                                                     !.run = turn[k].run,
                                                     !.next = AtMost(Len(log[turn[k].run]), EventsLimit) + 1]]
          /\ HGoto(t, "native") /\ Admit(k) /\ UNCHANGED <<exists, turn>>
    BY <1>1 DEF PostReply
  <2>2. turn[k].run \in Runs
    BY <2>1 DEF HostTypeOK, HostRow
  <2>3. AtMost(Len(log[turn[k].run]), EventsLimit) + 1 \in Nat
    BY <2>2, HostAssumption DEF TypeOK, AtMost
  <2> DEFINE q == [NoReq EXCEPT !.kind = "resume", !.turn = k, !.run = turn[k].run,
                                !.next = AtMost(Len(log[turn[k].run]), EventsLimit) + 1]
  <2>4. q \in Req /\ q.turn = k /\ q.run = turn[k].run
    BY <2>2, <2>3, NoTurnRowType DEF NoReq, Req
  <2>5. turn[k].state # "absent"
    BY <2>1 DEF Stored
  <2>6. disturbed' \subseteq Turns
    BY <2>1, AdmitType
  <2>7. "native" \in HostSteps
    BY DEF HostSteps
  <2> HIDE DEF q
  <2>8. req' = [req EXCEPT ![t] = q]
    BY <2>1 DEF q
  <2>9. QED
    BY <2>1, <2>2, <2>4, <2>5, <2>6, <2>7, <2>8, FrameStep
<1>2. CASE PostCancel(t)
  <2>1. PICK k \in Turns :
          /\ Stored(k) /\ turn[k].run # NoRun
          /\ req' = [req EXCEPT ![t] = [NoReq EXCEPT !.kind = "cancel", !.turn = k,
                                                     !.run = turn[k].run,
                                                     !.next = turn[k].seq + 1]]
          /\ HGoto(t, "cancel") /\ Admit(k) /\ UNCHANGED <<exists, turn>>
    BY <1>2 DEF PostCancel
  <2>2. turn[k].run \in Runs /\ turn[k].seq + 1 \in Nat
    BY <2>1 DEF HostTypeOK, HostRow
  <2> DEFINE q == [NoReq EXCEPT !.kind = "cancel", !.turn = k, !.run = turn[k].run,
                                !.next = turn[k].seq + 1]
  <2>3. q \in Req /\ q.turn = k /\ q.run = turn[k].run
    BY <2>2, NoTurnRowType DEF NoReq, Req
  <2>4. turn[k].state # "absent"
    BY <2>1 DEF Stored
  <2>5. disturbed' \subseteq Turns
    BY <2>1, AdmitType
  <2>6. "cancel" \in HostSteps
    BY DEF HostSteps
  <2> HIDE DEF q
  <2>7. req' = [req EXCEPT ![t] = q]
    BY <2>1 DEF q
  <2>8. QED
    BY <2>1, <2>2, <2>3, <2>4, <2>5, <2>6, <2>7, FrameStep
<1>3. QED
  BY <1>1, <1>2

LEMMA PostTurnType ==
  ASSUME HostTypeOK, NEW t \in Threads, PostTurn(t)
  PROVE  HostTypeOK'
<1>1. PICK k \in Turns, s \in Sessions :
        /\ turn[k].state = "absent"
        /\ turn' = [turn EXCEPT ![k].state = "running", ![k].session = s]
        /\ req' = [req EXCEPT ![t] = [NoReq EXCEPT !.kind = "start", !.turn = k]]
        /\ HGoto(t, "bind")
        /\ UNCHANGED <<exists, disturbed>>
  BY DEF PostTurn
<1> DEFINE q == [NoReq EXCEPT !.kind = "start", !.turn = k]
           w == [turn[k] EXCEPT !.state = "running", !.session = s]
<1>2. q \in Req /\ q.turn = k
  BY NoTurnRowType DEF NoReq, Req
<1>3. w \in HostRow /\ w.state = "running"
  BY DEF HostTypeOK, HostRow, Open
<1>4. turn' = [turn EXCEPT ![k] = w]
  BY <1>1 DEF HostTypeOK, HostRow
<1> HIDE DEF q, w
<1>5. turn' \in [Turns -> HostRow] /\ turn'[k] = w
  BY <1>3, <1>4 DEF HostTypeOK
<1>6. req' = [req EXCEPT ![t] = q]
  BY <1>1 DEF q
<1>7. hpc' \in [Threads -> HostSteps] /\ req' \in [Threads -> Req]
  BY <1>1, <1>2, <1>6 DEF HostTypeOK, HGoto, HostSteps
<1>8. ASSUME NEW u \in Threads PROVE Frame(u)'
  <2>1. CASE u = t
    <3>1. hpc'[u] = "bind" /\ req'[u] = q
      BY <1>1, <1>6, <2>1 DEF HostTypeOK, HGoto
    <3>2. QED
      BY <1>2, <1>3, <1>5, <3>1 DEF Frame
  <2>2. CASE u # t
    <3>1. hpc'[u] = hpc[u] /\ req'[u] = req[u]
      BY <1>1, <1>6, <2>2 DEF HostTypeOK, HGoto
    <3>2. ASSUME NEW j \in Turns, turn[j].state # "absent"
          PROVE  turn'[j].state # "absent"
      BY <1>1, <1>4, <3>2 DEF HostTypeOK
    <3>3. QED
      BY <3>1, <3>2 DEF Frame, HostTypeOK
  <2>3. QED
    BY <2>1, <2>2
<1>9. QED
  BY <1>1, <1>5, <1>7, <1>8 DEF HostTypeOK, Frame

\* A row of the host rewritten by a handler that goes on, or replies.
LEMMA RowsHostType ==
  ASSUME HostTypeOK, NEW t \in Threads, turn' \in [Turns -> HostRow],
         \A k \in Turns : turn[k].state # "absent" => turn'[k].state # "absent",
         exists' \in [Sessions -> BOOLEAN], disturbed' = disturbed,
         NEW s \in HostSteps, HGoto(t, s), NEW q \in Req, req' = [req EXCEPT ![t] = q],
         s \notin {"free", "delete", "bind"} => hpc[t] \notin {"free", "delete", "bind"},
         s # "free" => q.turn = req[t].turn /\ q.run = req[t].run,
         s \notin {"delete", "bind"}
  PROVE  HostTypeOK'
<1>1. hpc' \in [Threads -> HostSteps] /\ req' \in [Threads -> Req]
  BY DEF HostTypeOK, HGoto
<1>2. ASSUME NEW u \in Threads PROVE Frame(u)'
  <2>1. CASE u = t
    <3>1. hpc'[u] = s /\ req'[u] = q
      BY <2>1 DEF HostTypeOK, HGoto
    <3>2. QED
      BY <2>1, <3>1 DEF Frame, HostTypeOK
  <2>2. CASE u # t
    <3>1. hpc'[u] = hpc[u] /\ req'[u] = req[u]
      BY <2>2 DEF HostTypeOK, HGoto
    <3>2. QED
      BY <3>1 DEF Frame, HostTypeOK
  <2>3. QED
    BY <2>1, <2>2
<1>3. QED
  BY <1>1, <1>2 DEF HostTypeOK, Frame

\* A locals record with one handler's part of it replaced.
LEMMA ReqRun ==
  ASSUME NEW q \in Req, NEW r \in Runs
  PROVE  LET p == [q EXCEPT !.run = r] IN p \in Req /\ p.turn = q.turn /\ p.run = r
  BY DEF Req

LEMMA ReqLast ==
  ASSUME NEW q \in Req, NEW n \in Nat
  PROVE  LET p == [q EXCEPT !.last = n] IN p \in Req /\ p.turn = q.turn /\ p.run = q.run
  BY DEF Req

LEMMA ReqCopy ==
  ASSUME NEW q \in Req, NEW c \in HostRow, NEW b \in BOOLEAN
  PROVE  LET p == [q EXCEPT !.copy = c, !.linked = b]
         IN  p \in Req /\ p.turn = q.turn /\ p.run = q.run
  BY DEF Req

\* A handler that goes on with its own turn.
LEMMA GoOn ==
  ASSUME HostTypeOK, NEW t \in Threads, UNCHANGED <<exists, turn, disturbed>>,
         NEW s \in HostSteps \ {"free", "delete"}, HGoto(t, s),
         NEW q \in Req, req' = [req EXCEPT ![t] = q],
         hpc[t] \notin {"free", "delete"}, q.turn = req[t].turn,
         s # "bind" => q.run \in Runs
  PROVE  HostTypeOK'
<1>1. q.turn \in Turns /\ turn[q.turn].state # "absent" /\ disturbed' \subseteq Turns
  BY DEF HostTypeOK
<1>2. QED
  BY <1>1, FrameStep

LEMMA BindType ==
  ASSUME HostTypeOK, NEW t \in Threads, Bind(t) \/ Cancel(t)
  PROVE  HostTypeOK'
<1>1. UNCHANGED <<exists, turn, disturbed>> /\ hpc[t] \notin {"free", "delete"}
  BY DEF Bind, Cancel
<1>2. req[t] \in Req /\ "native" \in HostSteps \ {"free", "delete"}
  BY DEF HostTypeOK, HostSteps
<1>3. CASE Reply(t)
  BY <1>1, <1>3, ReplyHostType
<1>4. ASSUME NEW r \in Runs, req' = [req EXCEPT ![t].run = r], HGoto(t, "native")
      PROVE  HostTypeOK'
  <2> DEFINE q == [req[t] EXCEPT !.run = r]
  <2>1. q \in Req /\ q.turn = req[t].turn /\ q.run = r
    BY <1>2, ReqRun
  <2>2. req' = [req EXCEPT ![t] = q]
    BY <1>4
  <2> HIDE DEF q
  <2>3. QED
    BY <1>1, <1>2, <1>4, <2>1, <2>2, GoOn
<1>5. CASE hpc[t] = "cancel" /\ HGoto(t, "native") /\ UNCHANGED req
  <2>1. req[t].run \in Runs /\ req' = [req EXCEPT ![t] = req[t]]
    BY <1>5 DEF HostTypeOK
  <2>2. QED
    BY <1>1, <1>2, <1>5, <2>1, GoOn
<1>6. QED
  BY <1>3, <1>4, <1>5 DEF Bind, Cancel

LEMMA DeleteType ==
  ASSUME HostTypeOK, NEW t \in Threads, PostDelete(t) \/ Delete(t)
  PROVE  HostTypeOK'
<1>1. CASE PostDelete(t)
  <2>1. PICK s \in Sessions :
          LET of == {k \in Turns : Stored(k) /\ turn[k].session = s} IN
          /\ req' = [req EXCEPT ![t] = [NoReq EXCEPT !.kind = "delete", !.seen = of,
                                                     !.copy.session = s]]
          /\ HGoto(t, "delete")
          /\ UNCHANGED <<exists, turn, disturbed>>
    BY <1>1 DEF PostDelete
  <2> DEFINE of == {k \in Turns : Stored(k) /\ turn[k].session = s}
  <2> DEFINE q == [NoReq EXCEPT !.kind = "delete", !.seen = of, !.copy.session = s]
  <2>2. [NoTurnRow EXCEPT !.session = s] \in HostRow
    BY DEF NoTurnRow, HostRow
  <2>3. q \in Req
    BY <2>2 DEF NoReq, Req
  <2> HIDE DEF q
  <2>4. req' = [req EXCEPT ![t] = q]
    BY <2>1 DEF q
  <2>5. "delete" \in HostSteps /\ disturbed' \subseteq Turns
    BY <2>1 DEF HostSteps, HostTypeOK
  <2>6. QED
    BY <2>1, <2>3, <2>4, <2>5, FrameStep
<1>2. CASE Delete(t)
  <2>1. /\ turn' = [k \in Turns |-> IF k \in req[t].seen
                                    THEN [turn[k] EXCEPT !.state = "deleted"] ELSE turn[k]]
        /\ exists' = [exists EXCEPT ![req[t].copy.session] = FALSE]
        /\ HGoto(t, "free") /\ req' = [req EXCEPT ![t] = NoReq]
        /\ UNCHANGED disturbed
    BY <1>2 DEF Delete, Reply
  <2>2. \A k \in Turns : [turn[k] EXCEPT !.state = "deleted"] \in HostRow
    BY DEF HostTypeOK, HostRow
  <2>3. turn' \in [Turns -> HostRow]
    BY <2>1, <2>2 DEF HostTypeOK
  <2>4. \A k \in Turns : turn[k].state # "absent" => turn'[k].state # "absent"
    BY <2>1 DEF HostTypeOK, HostRow
  <2>5. exists' \in [Sessions -> BOOLEAN]
    BY <2>1 DEF HostTypeOK
  <2>6. "free" \in HostSteps
    BY DEF HostSteps
  <2>7. QED
    BY <2>1, <2>3, <2>4, <2>5, <2>6, NoReqType, RowsHostType
<1>3. QED
  BY <1>1, <1>2

LEMMA NativeHostType ==
  ASSUME TypeOK, HostTypeOK, NEW t \in Threads, Native(t) \/ Construct(t) \/ Collect(t)
  PROVE  HostTypeOK'
<1>1. CASE Native(t) \/ Construct(t)
  <2>1. UNCHANGED <<exists, turn, disturbed>>
    BY <1>1 DEF Native, Construct, hvars
  <2>2. CASE Reply(t)
    BY <2>1, <2>2, ReplyHostType
  <2>3. CASE UNCHANGED <<hpc, req>>
    BY <2>1, <2>3 DEF HostTypeOK, Stored
  <2>4. QED
    BY <1>1, <2>2, <2>3 DEF Native, Construct, hvars
<1>2. CASE Collect(t)
  <2> DEFINE n == AtMost(Len(log[req[t].run]), Page(req[t]))
             q == [req[t] EXCEPT !.last = n]
  <2>1. req[t] \in Req /\ req[t].run \in Runs /\ hpc[t] \notin {"free", "delete"}
    BY <1>2 DEF Collect, HostTypeOK
  <2>2. n \in Nat
    <3>1. Len(log[req[t].run]) \in Nat
      BY <2>1 DEF TypeOK
    <3>2. Page(req[t]) \in Nat
      BY <2>1, HostAssumption DEF Page, Req
    <3>3. QED
      BY <3>1, <3>2 DEF AtMost
  <2>3. q \in Req /\ q.turn = req[t].turn /\ q.run = req[t].run
    BY <2>1, <2>2, ReqLast
  <2>4. PICK s \in {"mark", "record"} : HGoto(t, s)
    BY <1>2 DEF Collect
  <2>5. s \in HostSteps \ {"free", "delete"}
    BY DEF HostSteps
  <2>6. UNCHANGED <<exists, turn, disturbed>> /\ req' = [req EXCEPT ![t] = q]
    BY <1>2 DEF Collect
  <2> HIDE DEF n, q
  <2>7. QED
    BY <2>1, <2>3, <2>4, <2>5, <2>6, GoOn
<1>3. QED
  BY <1>1, <1>2

LEMMA ReadType ==
  ASSUME HostTypeOK, NEW t \in Threads, ReadMark(t) \/ ReadRecord(t)
  PROVE  HostTypeOK'
<1>1. UNCHANGED <<exists, turn, disturbed>> /\ hpc[t] \notin {"free", "delete", "bind"}
  BY DEF ReadMark, ReadRecord
<1>2. CASE Reply(t)
  BY <1>1, <1>2, ReplyHostType
<1>3. CASE Stored(req[t].turn) /\ \E s \in {"marking", "recording"} : ReadRow(t, s)
  <2>1. PICK s \in {"marking", "recording"} : ReadRow(t, s)
    BY <1>3
  <2> DEFINE c == turn[req[t].turn]
             b == exists[turn[req[t].turn].session]
             q == [req[t] EXCEPT !.copy = c, !.linked = b]
  <2>2. req[t] \in Req /\ req[t].turn \in Turns /\ req[t].run \in Runs
    BY <1>1 DEF HostTypeOK
  <2>3. c \in HostRow /\ b \in BOOLEAN
    BY <2>2 DEF HostTypeOK, HostRow
  <2> HIDE DEF c, b
  <2>4. q \in Req /\ q.turn = req[t].turn /\ q.run = req[t].run
    BY <2>2, <2>3, ReqCopy
  <2>5. HGoto(t, s) /\ req' = [req EXCEPT ![t] = q]
    BY <1>3, <2>1 DEF ReadRow, c, b
  <2>6. s \in HostSteps \ {"free", "delete"}
    BY DEF HostSteps
  <2> HIDE DEF q
  <2>7. QED
    BY <1>1, <2>2, <2>4, <2>5, <2>6, GoOn
<1>4. QED
  BY <1>2, <1>3 DEF ReadMark, ReadRecord, ReadRow

LEMMA RecordedType ==
  ASSUME NEW c \in HostRow, NEW r \in Runs, NEW n \in Nat,
         NEW state \in StatesAfter(c, log[r][n])
  PROVE  /\ Recorded(c, r, n, state) \in HostRow
         /\ \/ Recorded(c, r, n, state).state = c.state
            \/ Recorded(c, r, n, state).state \in Open \cup Ended
<1>1. state \in {c.state} \cup Open \cup Ended
  BY DEF StatesAfter, Open, Ended
<1>2. /\ (IF n > c.seq THEN n ELSE c.seq) \in Nat
      /\ (IF log[r][n] = "answer_delta" THEN c.text + 1 ELSE c.text) \in Nat
  BY DEF HostRow
<1>3. c.state \in {"absent", "deleted"} \cup Open \cup Ended
  BY DEF HostRow
<1>4. QED
  BY <1>1, <1>2, <1>3 DEF Recorded, HostRow

LEMMA MergedType ==
  ASSUME HostTypeOK, NEW k \in Turns, NEW c \in HostRow, NEW w \in HostRow
  PROVE  /\ Merged(k, c, w) \in HostRow
         /\ Merged(k, c, w).state \in {turn[k].state, w.state}
         /\ w.state = c.state => Merged(k, c, w).state = turn[k].state
<1>1. turn[k] \in HostRow
  BY DEF HostTypeOK
<1>2. DOMAIN turn[k] = {"state", "session", "run", "seq", "text"}
  BY <1>1 DEF HostRow
<1> DEFINE m == [f \in {"state", "session", "run", "seq", "text"} |->
                   IF w[f] = c[f] THEN turn[k][f] ELSE w[f]]
<1>3. Merged(k, c, w) = m
  BY <1>2 DEF Merged
<1>4. /\ m.state \in {turn[k].state, w.state}
      /\ w.state = c.state => m.state = turn[k].state
      /\ m.session \in {turn[k].session, w.session}
      /\ m.run \in {turn[k].run, w.run}
      /\ m.seq \in {turn[k].seq, w.seq}
      /\ m.text \in {turn[k].text, w.text}
  OBVIOUS
<1>5. m = [state |-> m.state, session |-> m.session, run |-> m.run, seq |-> m.seq,
           text |-> m.text]
  OBVIOUS
<1>6. m \in HostRow
  BY <1>1, <1>4, <1>5 DEF HostRow
<1>7. QED
  BY <1>3, <1>4, <1>6

LEMMA WriteType ==
  ASSUME HostTypeOK, NEW t \in Threads, WriteMark(t) \/ WriteRecord(t)
  PROVE  HostTypeOK'
<1> DEFINE k == req[t].turn
           c == req[t].copy
<1>1. /\ hpc[t] \notin {"free", "delete", "bind"} /\ k \in Turns /\ req[t].run \in Runs
      /\ req[t] \in Req /\ c \in HostRow /\ turn[k] \in HostRow
      /\ exists' = exists /\ disturbed' = disturbed
  BY DEF WriteMark, WriteRecord, HostTypeOK, Req
<1>2. CASE Reply(t) /\ UNCHANGED turn
  BY <1>1, <1>2, ReplyHostType
<1>3. ASSUME NEW w \in HostRow, turn' = [turn EXCEPT ![k] = w],
             turn[k].state # "absent" => w.state # "absent",
             HGoto(t, "record"), NEW q \in Req, req' = [req EXCEPT ![t] = q],
             q.turn = k, q.run = req[t].run
      PROVE  HostTypeOK'
  <2>1. turn' \in [Turns -> HostRow]
    BY <1>1, <1>3 DEF HostTypeOK
  <2>2. \A j \in Turns : turn[j].state # "absent" => turn'[j].state # "absent"
    BY <1>1, <1>3 DEF HostTypeOK
  <2>3. exists' \in [Sessions -> BOOLEAN] /\ "record" \in HostSteps
    BY <1>1 DEF HostTypeOK, HostSteps
  <2>4. QED
    BY <1>1, <1>3, <2>1, <2>2, <2>3, RowsHostType
<1>4. CASE WriteMark(t) /\ Stored(k)
  <2>1. /\ turn' = IF c.state = "awaiting_input"
                   THEN [turn EXCEPT ![k].state = "running"] ELSE turn
        /\ HGoto(t, "record") /\ UNCHANGED req
    BY <1>4 DEF WriteMark
  <2> DEFINE w == IF c.state = "awaiting_input" THEN [turn[k] EXCEPT !.state = "running"]
                                                ELSE turn[k]
  <2>2. w \in HostRow /\ w.state \in {"running", turn[k].state}
    BY <1>1 DEF HostRow, Open
  <2>3. turn' = [turn EXCEPT ![k] = w]
    BY <1>1, <2>1 DEF HostTypeOK
  <2>4. req' = [req EXCEPT ![t] = req[t]]
    BY <2>1 DEF HostTypeOK
  <2> HIDE DEF w
  <2>5. turn[k].state # "absent" => w.state # "absent"
    BY <2>2
  <2>6. QED
    BY <1>1, <1>3, <2>1, <2>2, <2>3, <2>4, <2>5
<1>5. CASE WriteRecord(t) /\ ~ Gone(t)
  <2>0. PICK state \in StatesAfter(c, log[req[t].run][req[t].next]) :
          turn' = [turn EXCEPT ![k] = Merged(k, c, Recorded(c, req[t].run, req[t].next, state))]
    BY <1>5 DEF WriteRecord
  <2> DEFINE new == Recorded(c, req[t].run, req[t].next, state)
             w == Merged(k, c, new)
             q == [req[t] EXCEPT !.next = req[t].next + 1, !.copy = NoTurnRow, !.linked = FALSE]
  <2>1. turn' = [turn EXCEPT ![k] = w] /\ req' = [req EXCEPT ![t] = q] /\ HGoto(t, "record")
    BY <1>5, <2>0 DEF WriteRecord
  <2>2. req[t].next \in Nat /\ req[t].next + 1 \in Nat
    BY <1>1 DEF Req
  <2>3. new \in HostRow /\ (new.state = c.state \/ new.state \in Open \cup Ended)
    BY <1>1, <2>2, RecordedType
  <2>4. w \in HostRow /\ w.state \in {turn[k].state, new.state}
        /\ (new.state = c.state => w.state = turn[k].state)
    BY <1>1, <2>3, MergedType
  <2>5. q \in Req /\ q.turn = k /\ q.run = req[t].run
    <3>1. PICK m \in Nat, b \in BOOLEAN : m = req[t].next + 1 /\ b = FALSE
      BY <2>2
    <3>2. PICK p : p = [req[t] EXCEPT !.next = m, !.copy = NoTurnRow, !.linked = b]
      OBVIOUS
    <3>3. p \in Req /\ p.turn = k /\ p.run = req[t].run
      BY <1>1, <3>2, NoTurnRowType DEF Req
    <3>4. q = p
      BY <3>1, <3>2
    <3>5. QED
      BY <3>3, <3>4
  <2>6. "absent" \notin Open \cup Ended
    BY DEF Open, Ended
  <2> HIDE DEF new, w, q
  <2>7. turn[k].state # "absent" => w.state # "absent"
    BY <2>3, <2>4, <2>6
  <2>8. QED
    BY <1>3, <2>1, <2>4, <2>5, <2>7
<1>6. QED
  BY <1>2, <1>4, <1>5 DEF WriteMark, WriteRecord

LEMMA HostCrashType ==
  ASSUME HostTypeOK, HostCrash
  PROVE  HostTypeOK'
<1>1. /\ hpc' = [t \in Threads |-> "free"] /\ req' = [t \in Threads |-> NoReq]
      /\ disturbed' = disturbed \cup ({req[t].turn : t \in Threads} \cap Turns)
      /\ UNCHANGED <<exists, turn>>
  BY DEF HostCrash
<1>2. "free" \in HostSteps
  BY DEF HostSteps
<1>3. hpc' \in [Threads -> HostSteps] /\ req' \in [Threads -> Req]
  BY <1>1, <1>2, NoReqType
<1>4. disturbed' \subseteq Turns
  BY <1>1 DEF HostTypeOK
<1>5. \A t \in Threads : hpc'[t] = "free"
  BY <1>1
<1>6. QED
  BY <1>1, <1>3, <1>4, <1>5 DEF HostTypeOK

LEMMA InitHostType == HostInit => HostTypeOK
<1> SUFFICES ASSUME HostInit PROVE HostTypeOK
  OBVIOUS
<1>1. "free" \in HostSteps
  BY DEF HostSteps
<1>2. /\ exists \in [Sessions -> BOOLEAN] /\ turn \in [Turns -> HostRow]
      /\ hpc \in [Threads -> HostSteps] /\ req \in [Threads -> Req]
  BY <1>1, NoTurnRowType, NoReqType DEF HostInit
<1>3. QED
  BY <1>2 DEF HostInit, HostTypeOK

LEMMA HostTypeStep == TypeOK /\ HostTypeOK /\ [HostNext]_vars => HostTypeOK'
<1> SUFFICES ASSUME TypeOK, HostTypeOK, [HostNext]_vars PROVE HostTypeOK'
  OBVIOUS
<1>1. CASE UNCHANGED vars
  BY <1>1 DEF vars, hvars, HostTypeOK
<1>2. CASE HostCrash
  BY <1>2, HostCrashType
<1>3. ASSUME NEW t \in Threads, PostTurn(t) \/ PostReply(t) \/ PostCancel(t) \/ PostDelete(t)
      PROVE  HostTypeOK'
  BY <1>3, PostTurnType, PostType, DeleteType
<1>4. ASSUME NEW t \in Threads, Bind(t) \/ Cancel(t) \/ Delete(t)
      PROVE  HostTypeOK'
  BY <1>4, BindType, DeleteType
<1>5. ASSUME NEW t \in Threads, Construct(t) \/ Native(t) \/ Collect(t)
      PROVE  HostTypeOK'
  BY <1>5, NativeHostType
<1>6. ASSUME NEW t \in Threads,
             ReadMark(t) \/ WriteMark(t) \/ ReadRecord(t) \/ WriteRecord(t)
      PROVE  HostTypeOK'
  BY <1>6, ReadType, WriteType
<1>7. QED
  BY <1>1, <1>2, <1>3, <1>4, <1>5, <1>6 DEF HostNext

-----------------------------------------------------------------------------
(* The host takes only steps of the executor. *)

LEMMA RequestStep ==
  ASSUME NEW t \in Threads, Request(t) \/ Execute(t) \/ BeginBuild(t)
  PROVE  Next
  BY DEF Next

LEMMA HostStep == HostTypeOK /\ [HostNext]_vars => [Next]_evars
<1> SUFFICES ASSUME HostTypeOK, [HostNext]_vars PROVE Next \/ UNCHANGED evars
  OBVIOUS
<1>1. CASE UNCHANGED vars
  BY <1>1 DEF vars
<1>2. CASE HostCrash
  BY <1>2 DEF HostCrash, Next
<1>3. ASSUME NEW t \in Threads, Bind(t) PROVE Next \/ UNCHANGED evars
  <2> DEFINE s == turn[req[t].turn].session
  <2>1. s \in Sessions
    <3>1. req[t].turn \in Turns
      BY <1>3 DEF Bind, HostTypeOK
    <3>2. turn[req[t].turn] \in HostRow
      BY <3>1 DEF HostTypeOK
    <3>3. QED
      BY <3>2 DEF HostRow
  <2> HIDE DEF s
  <2>2. CASE \E r \in Runs, g \in Grants : Begin(t, r, s, g, NoRun, "started")
    BY <2>1, <2>2, RequestStep DEF Start, Request
  <2>3. QED
    BY <1>3, <2>2 DEF Bind, s
<1>4. ASSUME NEW t \in Threads, PostReply(t) \/ Cancel(t) PROVE Next \/ UNCHANGED evars
  BY <1>4, RequestStep DEF PostReply, Cancel, Request
<1>5. ASSUME NEW t \in Threads, Construct(t) \/ Native(t) PROVE Next \/ UNCHANGED evars
  BY <1>5, RequestStep DEF Construct, Native
<1>6. ASSUME NEW t \in Threads,
             PostTurn(t) \/ PostCancel(t) \/ PostDelete(t) \/ Delete(t) \/ Collect(t)
      PROVE  Next \/ UNCHANGED evars
  BY <1>6 DEF PostTurn, PostCancel, PostDelete, Delete, Collect
<1>7. ASSUME NEW t \in Threads,
             ReadMark(t) \/ WriteMark(t) \/ ReadRecord(t) \/ WriteRecord(t)
      PROVE  Next \/ UNCHANGED evars
  BY <1>7 DEF ReadMark, WriteMark, ReadRecord, WriteRecord
<1>8. QED
  BY <1>1, <1>2, <1>3, <1>4, <1>5, <1>6, <1>7 DEF HostNext

LEMMA HostInvariant == HostSpec => [](TypeOK /\ HostTypeOK)
<1>1. HostInit => TypeOK /\ HostTypeOK
  BY InitType, InitHostType DEF HostInit
<1>2. TypeOK /\ HostTypeOK /\ [HostNext]_vars => (TypeOK /\ HostTypeOK)'
  BY StepType, HostTypeStep, HostStep
<1>3. QED
  BY <1>1, <1>2, PTL DEF HostSpec

\* The rows of the host and the locals of its handlers keep their types; a handler
\* that is about a turn always finds its row, deleted or not (pg_api/tutor.py).
THEOREM HostTypeCorrect == HostSpec => []HostTypeOK
  BY HostInvariant, PTL

\* However requests, deletions and crashes interleave, the host takes no step the
\* executor does not allow: every behaviour of the routes is one of TutorExecutor,
\* so what is proved of the executor holds under the host (routes/tutor.py).
THEOREM HostDrivesExecutor == HostSpec => Spec
<1>1. HostInit => Init
  BY DEF HostInit
<1>2. HostTypeOK /\ [HostNext]_vars => [Next]_evars
  BY HostStep
<1>3. QED
  BY <1>1, <1>2, HostInvariant, PTL DEF HostSpec, Spec

\* In particular no two requests of the host execute one run (SoleExecutor), and no
\* session has two turns in progress (OneActivePerSession).
THEOREM HostRunsOneExecutor == HostSpec => [](OneActivePerSession /\ SoleExecutor)
  BY HostDrivesExecutor, OneTurnPerSession, OneExecutorPerRun, PTL

-----------------------------------------------------------------------------
(* What an ended turn says of its run.  A handler records an event some time    *)
(* after it was published, in a database session of its own: the invariant says *)
(* which events it may still be at, and which run a turn may be bound to.       *)

\* A handler that writes a turn's row is at an event its run has.
Recording == {"mark", "marking", "record", "recording"}

RangeOK(t) ==
  /\ req[t].next >= 1
  /\ hpc[t] \in Recording => req[t].last <= Len(log[req[t].run])
  /\ hpc[t] = "recording" => req[t].next <= req[t].last

\* Requests know the run their turn is bound to; a copy was read from this row.
BoundOK(t) == LET k == req[t].turn IN
  /\ hpc[t] \in {"free", "delete"} => k = NoTurn
  /\ hpc[t] = "bind" => turn[k].run = NoRun
  /\ hpc[t] \notin {"free", "delete"} => turn[k].run \in {NoRun, req[t].run}
  /\ hpc[t] \in {"marking", "recording"} => req[t].copy.run \in {NoRun, turn[k].run}

\* Only the request that starts a turn is about it before it is bound to a run.
UnboundOK(k) == turn[k].run = NoRun =>
  /\ turn[k].state \notin Ended
  /\ \A t, u \in Threads : req[t].turn = k /\ req[u].turn = k => t = u

AbsentTurnOK(k) == turn[k].state = "absent" => turn[k].run = NoRun

HostInv == /\ \A t \in Threads : RangeOK(t) /\ BoundOK(t)
           /\ \A k \in Turns : UnboundOK(k) /\ AbsentTurnOK(k)
           /\ EndedTurnEndedRun

\* The handlers that leave no trace on the rows, or one that ends no turn.
LEMMA HostFrames ==
  ASSUME TypeOK, ExecutorInv, HostTypeOK, HostInv, [Next]_evars, HostTypeOK',
         NEW t \in Threads, NEW s, HGoto(t, s), NEW q \in Req, req' = [req EXCEPT ![t] = q],
         \A k \in Turns : /\ turn'[k].run = turn[k].run
                          /\ turn'[k].state = turn[k].state \/ turn'[k].state \in {"running", "deleted"}
                          /\ AbsentTurnOK(k)',
         q.turn \in Turns => \/ q.turn = req[t].turn
                             \/ turn[q.turn].run # NoRun
                             \/ \A u \in Threads : req[u].turn # q.turn,
         RangeOK(t)', BoundOK(t)'
  PROVE  HostInv'
<1>1. /\ hpc'[t] = s /\ req'[t] = q
      /\ \A u \in Threads \ {t} : hpc'[u] = hpc[u] /\ req'[u] = req[u]
  BY DEF HostTypeOK, HGoto
<1>2. ASSUME NEW u \in Threads \ {t} PROVE RangeOK(u)' /\ BoundOK(u)'
  <2>1. hpc'[u] = hpc[u] /\ req'[u] = req[u] /\ RangeOK(u) /\ BoundOK(u)
    BY <1>1 DEF HostInv
  <2>2. hpc[u] \notin {"free", "delete"} => req[u].turn \in Turns
    BY DEF HostTypeOK
  <2>3. hpc[u] \in Recording => req[u].run \in Runs
    BY DEF HostTypeOK, Recording
  <2>4. req[u].last \in Nat
    BY DEF HostTypeOK, Req
  <2>5. hpc[u] \in Recording => req[u].last <= Len(log'[req[u].run])
    <3>1. SUFFICES ASSUME hpc[u] \in Recording
                   PROVE  req[u].last <= Len(log'[req[u].run])
      OBVIOUS
    <3>2. PICK r \in Runs : r = req[u].run
      BY <2>3, <3>1
    <3>3. Len(log[r]) \in Nat /\ Len(log'[r]) \in Nat /\ Len(log'[r]) >= Len(log[r])
      BY LogGrows
    <3>4. req[u].last <= Len(log[r])
      BY <2>1, <3>1, <3>2 DEF RangeOK
    <3>5. QED
      BY <2>4, <3>2, <3>3, <3>4
  <2>6. RangeOK(u)'
    BY <2>1, <2>5 DEF RangeOK
  <2>7. BoundOK(u)'
    BY <2>1, <2>2 DEF BoundOK
  <2>8. QED
    BY <2>6, <2>7
<1>3. ASSUME NEW k \in Turns PROVE UnboundOK(k)'
  <2>1. SUFFICES ASSUME turn[k].run = NoRun
                 PROVE  /\ turn'[k].state \notin Ended
                        /\ \A x, y \in Threads : req'[x].turn = k /\ req'[y].turn = k => x = y
    BY DEF UnboundOK
  <2>2. UnboundOK(k)
    BY DEF HostInv
  <2>3. turn'[k].state \notin Ended
    BY <2>1, <2>2 DEF UnboundOK, Ended
  <2>4. ASSUME NEW x \in Threads, NEW y \in Threads, req'[x].turn = k, req'[y].turn = k, x # y
        PROVE  FALSE
    <3>1. CASE x # t /\ y # t
      BY <1>1, <2>1, <2>2, <2>4, <3>1 DEF UnboundOK
    <3>2. ASSUME NEW u \in Threads \ {t}, req[u].turn = k, q.turn = k
          PROVE  FALSE
      BY <2>1, <2>2, <3>2 DEF UnboundOK
    <3>3. QED
      BY <1>1, <2>4, <3>1, <3>2
  <2>5. QED
    BY <2>3, <2>4
<1>4. ASSUME NEW k \in Turns, turn'[k].state \in Ended
      PROVE  /\ row'[turn'[k].run].state \in Terminal
             /\ turn'[k].state = "cancelled" => row'[turn'[k].run].state = "cancelled"
  <2>1. turn'[k].state = turn[k].state /\ turn'[k].run = turn[k].run
    BY <1>4 DEF Ended
  <2>2. turn[k].run # NoRun
    BY <1>4, <2>1 DEF HostInv, UnboundOK
  <2>3. PICK r \in Runs : r = turn[k].run
    BY <2>2 DEF HostTypeOK, HostRow
  <2>4. /\ row[r].state \in Terminal
        /\ turn[k].state = "cancelled" => row[r].state = "cancelled"
    BY <1>4, <2>1, <2>3 DEF HostInv, EndedTurnEndedRun
  <2>5. row'[r].state = row[r].state
    BY <2>4, FinalRow
  <2>6. QED
    BY <2>1, <2>3, <2>4, <2>5
<1>5. QED
  BY <1>2, <1>3, <1>4 DEF HostInv, EndedTurnEndedRun

\* The response is sent.
LEMMA HostReplies ==
  ASSUME TypeOK, ExecutorInv, HostTypeOK, HostInv, [Next]_evars, HostTypeOK',
         NEW t \in Threads, Reply(t),
         \A k \in Turns : /\ turn'[k].run = turn[k].run
                          /\ turn'[k].state = turn[k].state \/ turn'[k].state \in {"running", "deleted"}
                          /\ AbsentTurnOK(k)'
  PROVE  HostInv'
<1>1. HGoto(t, "free") /\ req' = [req EXCEPT ![t] = NoReq]
  BY DEF Reply
<1>2. hpc'[t] = "free" /\ req'[t] = NoReq
  BY <1>1 DEF HostTypeOK, HGoto
<1>3. NoReq.turn = NoTurn /\ NoReq.next = 1
  BY DEF NoReq
<1>4. RangeOK(t)' /\ BoundOK(t)'
  BY <1>2, <1>3 DEF RangeOK, BoundOK, Recording
<1>5. NoReq.turn \notin Turns
  BY <1>3, HostAssumption
<1>6. QED
  BY <1>1, <1>4, <1>5, NoReqType, HostFrames

\* Nothing is written.
LEMMA SameTurns ==
  ASSUME HostTypeOK, HostInv, turn' = turn
  PROVE  \A k \in Turns : /\ turn'[k].run = turn[k].run
                          /\ turn'[k].state = turn[k].state
                          /\ AbsentTurnOK(k)'
  BY DEF HostInv, AbsentTurnOK

\* A handler that goes on with its own turn.
LEMMA HostGoesOn ==
  ASSUME TypeOK, ExecutorInv, HostTypeOK, HostInv, [Next]_evars, HostTypeOK',
         NEW t \in Threads, NEW s, HGoto(t, s), NEW q \in Req, req' = [req EXCEPT ![t] = q],
         q.turn = req[t].turn, turn' = turn, RangeOK(t)', BoundOK(t)'
  PROVE  HostInv'
  BY SameTurns, HostFrames

LEMMA HostPosts ==
  ASSUME TypeOK, ExecutorInv, HostTypeOK, HostInv, [Next]_evars, HostTypeOK',
         NEW t \in Threads, PostTurn(t) \/ PostReply(t) \/ PostCancel(t) \/ PostDelete(t)
  PROVE  HostInv'
<1>1. CASE PostReply(t) \/ PostCancel(t)
  <2>1. PICK k \in Turns, s \in {"native", "cancel"}, n \in Nat, kind \in {"resume", "cancel"} :
          /\ turn[k].run # NoRun
          /\ req' = [req EXCEPT ![t] = [NoReq EXCEPT !.kind = kind, !.turn = k,
                                                     !.run = turn[k].run, !.next = n + 1]]
          /\ HGoto(t, s) /\ UNCHANGED turn
    <3>1. CASE PostReply(t)
      <4>1. PICK k \in Turns :
              /\ turn[k].run # NoRun
              /\ req' = [req EXCEPT ![t] = [NoReq EXCEPT !.kind = "resume", !.turn = k,
                           !.run = turn[k].run,
                           !.next = AtMost(Len(log[turn[k].run]), EventsLimit) + 1]]
              /\ HGoto(t, "native") /\ UNCHANGED turn
        BY <3>1 DEF PostReply
      <4>2. turn[k].run \in Runs
        BY <4>1 DEF HostTypeOK, HostRow
      <4>3. AtMost(Len(log[turn[k].run]), EventsLimit) \in Nat
        BY <4>2, HostAssumption DEF TypeOK, AtMost
      <4>4. QED
        BY <4>1, <4>3
    <3>2. CASE PostCancel(t)
      <4>1. PICK k \in Turns :
              /\ turn[k].run # NoRun
              /\ req' = [req EXCEPT ![t] = [NoReq EXCEPT !.kind = "cancel", !.turn = k,
                           !.run = turn[k].run, !.next = turn[k].seq + 1]]
              /\ HGoto(t, "cancel") /\ UNCHANGED turn
        BY <3>2 DEF PostCancel
      <4>2. turn[k].seq \in Nat
        BY DEF HostTypeOK, HostRow
      <4>3. QED
        BY <4>1, <4>2
    <3>3. QED
      BY <1>1, <3>1, <3>2
  <2> DEFINE q == [NoReq EXCEPT !.kind = kind, !.turn = k, !.run = turn[k].run, !.next = n + 1]
  <2>2. turn[k].run \in Runs
    BY <2>1 DEF HostTypeOK, HostRow
  <2>3. q \in Req /\ q.turn = k /\ q.run = turn[k].run /\ q.next >= 1
    <3>1. n + 1 \in Nat /\ n + 1 >= 1
      OBVIOUS
    <3>2. PICK r \in Runs : r = turn[k].run
      BY <2>2
    <3>3. PICK m \in Nat : m = n + 1
      BY <3>1
    <3>4. kind \in {"none", "start", "resume", "cancel", "delete"}
      OBVIOUS
    <3>5. [NoReq EXCEPT !.kind = kind, !.turn = k, !.run = r, !.next = m] \in Req
      BY <3>4, NoTurnRowType DEF NoReq, Req
    <3>6. q = [NoReq EXCEPT !.kind = kind, !.turn = k, !.run = r, !.next = m]
      BY <3>2, <3>3
    <3>7. QED
      BY <3>1, <3>2, <3>3, <3>5, <3>6 DEF NoReq
  <2>4. req' = [req EXCEPT ![t] = q]
    BY <2>1
  <2> HIDE DEF q
  <2>5. hpc'[t] = s /\ req'[t] = q
    BY <2>1, <2>4 DEF HostTypeOK, HGoto
  <2>6. RangeOK(t)' /\ BoundOK(t)'
    BY <2>1, <2>3, <2>5 DEF RangeOK, BoundOK, Recording
  <2>7. QED
    BY <2>1, <2>3, <2>4, <2>6, SameTurns, HostFrames
<1>2. CASE PostTurn(t)
  <2>1. PICK k \in Turns, z \in Sessions :
          /\ turn[k].state = "absent"
          /\ turn' = [turn EXCEPT ![k].state = "running", ![k].session = z]
          /\ req' = [req EXCEPT ![t] = [NoReq EXCEPT !.kind = "start", !.turn = k]]
          /\ HGoto(t, "bind")
    BY <1>2 DEF PostTurn
  <2> DEFINE q == [NoReq EXCEPT !.kind = "start", !.turn = k]
  <2>2. q \in Req /\ q.turn = k /\ q.next = 1
    BY NoTurnRowType DEF NoReq, Req
  <2>3. req' = [req EXCEPT ![t] = q]
    BY <2>1
  <2> HIDE DEF q
  <2>4. turn[k].run = NoRun
    BY <2>1 DEF HostInv, AbsentTurnOK
  <2>5. \A j \in Turns : /\ turn'[j].run = turn[j].run
                         /\ turn'[j].state = turn[j].state \/ turn'[j].state \in {"running", "deleted"}
                         /\ AbsentTurnOK(j)'
    BY <2>1, <2>4 DEF HostTypeOK, HostRow, HostInv, AbsentTurnOK
  <2>6. \A u \in Threads : req[u].turn # k
    BY <2>1, HostAssumption DEF HostTypeOK, HostInv, BoundOK
  <2>7. hpc'[t] = "bind" /\ req'[t] = q
    BY <2>1, <2>3 DEF HostTypeOK, HGoto
  <2>8. RangeOK(t)' /\ BoundOK(t)'
    BY <2>2, <2>4, <2>5, <2>7 DEF RangeOK, BoundOK, Recording
  <2>9. QED
    BY <2>1, <2>2, <2>3, <2>5, <2>6, <2>8, HostFrames, ZenonT(60)
<1>3. CASE PostDelete(t)
  <2>1. PICK q \in Req : /\ req' = [req EXCEPT ![t] = q]
                         /\ q.turn = NoTurn /\ q.next = 1
                         /\ HGoto(t, "delete") /\ UNCHANGED turn
    <3>1. PICK z \in Sessions :
            LET of == {k \in Turns : Stored(k) /\ turn[k].session = z} IN
            /\ req' = [req EXCEPT ![t] = [NoReq EXCEPT !.kind = "delete", !.seen = of,
                                                       !.copy.session = z]]
            /\ HGoto(t, "delete") /\ UNCHANGED turn
      BY <1>3 DEF PostDelete
    <3> DEFINE of == {k \in Turns : Stored(k) /\ turn[k].session = z}
    <3> DEFINE q == [NoReq EXCEPT !.kind = "delete", !.seen = of, !.copy.session = z]
    <3>2. [NoTurnRow EXCEPT !.session = z] \in HostRow
      BY DEF NoTurnRow, HostRow
    <3>3. q \in Req /\ q.turn = NoTurn /\ q.next = 1
      BY <3>2 DEF NoReq, Req
    <3>4. QED
      BY <3>1, <3>3
  <2>2. hpc'[t] = "delete" /\ req'[t] = q
    BY <2>1 DEF HostTypeOK, HGoto
  <2>3. RangeOK(t)' /\ BoundOK(t)'
    BY <2>1, <2>2 DEF RangeOK, BoundOK, Recording
  <2>4. QED
    BY <2>1, <2>3, SameTurns, HostFrames, HostAssumption
<1>4. QED
  BY <1>1, <1>2, <1>3

LEMMA HostHandles ==
  ASSUME TypeOK, ExecutorInv, HostTypeOK, HostInv, [Next]_evars, HostTypeOK',
         NEW t \in Threads,
         \/ Bind(t) \/ Cancel(t) \/ Delete(t)
         \/ Construct(t) \/ Native(t) \/ Collect(t) \/ ReadMark(t) \/ ReadRecord(t)
  PROVE  HostInv'
<1>1. CASE Reply(t) /\ UNCHANGED turn
  BY <1>1, SameTurns, HostReplies
<1>2. RangeOK(t) /\ BoundOK(t) /\ req[t] \in Req
  BY DEF HostInv, HostTypeOK
<1>3. CASE UNCHANGED <<hpc, req, turn>>
  <2>1. HGoto(t, hpc[t]) /\ req' = [req EXCEPT ![t] = req[t]]
    BY <1>3 DEF HostTypeOK, HGoto
  <2>2. RangeOK(t)'
    <3>1. CASE hpc[t] \in Recording
      <4>1. PICK r \in Runs : r = req[t].run
        BY <3>1 DEF HostTypeOK, Recording
      <4>2. Len(log[r]) \in Nat /\ Len(log'[r]) \in Nat /\ Len(log'[r]) >= Len(log[r])
        BY LogGrows
      <4>3. req[t].last \in Nat /\ req[t].last <= Len(log[r])
        BY <1>2, <3>1, <4>1 DEF RangeOK, Req
      <4>4. req[t].last <= Len(log'[r])
        BY <4>2, <4>3
      <4>5. QED
        BY <1>2, <1>3, <4>1, <4>4 DEF RangeOK
    <3>2. CASE hpc[t] \notin Recording
      BY <1>2, <1>3, <3>2 DEF RangeOK, Recording
    <3>3. QED
      BY <3>1, <3>2
  <2>3. BoundOK(t)'
    BY <1>2, <1>3 DEF BoundOK
  <2>4. QED
    BY <1>2, <1>3, <2>1, <2>2, <2>3, HostGoesOn
<1>4. ASSUME NEW r \in Runs, hpc[t] = "bind", req' = [req EXCEPT ![t].run = r],
             HGoto(t, "native"), UNCHANGED turn
      PROVE  HostInv'
  <2> DEFINE q == [req[t] EXCEPT !.run = r]
  <2>1. q \in Req /\ q.turn = req[t].turn /\ q.run = r /\ q.next = req[t].next
    BY <1>2 DEF Req
  <2>2. req' = [req EXCEPT ![t] = q]
    BY <1>4
  <2> HIDE DEF q
  <2>3. hpc'[t] = "native" /\ req'[t] = q
    BY <1>4, <2>2 DEF HostTypeOK, HGoto
  <2>4. RangeOK(t)' /\ BoundOK(t)'
    BY <1>2, <1>4, <2>1, <2>3 DEF RangeOK, BoundOK, Recording
  <2>5. QED
    BY <1>4, <2>1, <2>2, <2>4, HostGoesOn
<1>5. CASE hpc[t] = "cancel" /\ HGoto(t, "native") /\ UNCHANGED <<req, turn>>
  <2>1. hpc'[t] = "native" /\ req'[t] = req[t] /\ req' = [req EXCEPT ![t] = req[t]]
    BY <1>5 DEF HostTypeOK, HGoto
  <2>2. RangeOK(t)' /\ BoundOK(t)'
    BY <1>2, <1>5, <2>1 DEF RangeOK, BoundOK, Recording
  <2>3. QED
    BY <1>2, <1>5, <2>1, <2>2, HostGoesOn
<1>6. CASE Delete(t)
  <2>1. /\ turn' = [k \in Turns |-> IF k \in req[t].seen
                                    THEN [turn[k] EXCEPT !.state = "deleted"] ELSE turn[k]]
        /\ Reply(t)
    BY <1>6 DEF Delete
  <2>2. \A k \in Turns : turn[k] \in HostRow /\ AbsentTurnOK(k)
    BY DEF HostTypeOK, HostInv
  <2>3. ASSUME NEW k \in Turns
        PROVE  /\ turn'[k].run = turn[k].run
               /\ turn'[k].state = turn[k].state \/ turn'[k].state = "deleted"
               /\ AbsentTurnOK(k)'
    BY <2>1, <2>2 DEF HostRow, AbsentTurnOK
  <2>4. QED
    BY <2>1, <2>3, HostReplies
<1>7. CASE Collect(t)
  <2> DEFINE n == AtMost(Len(log[req[t].run]), Page(req[t]))
             q == [req[t] EXCEPT !.last = n]
  <2>1. req[t].run \in Runs /\ hpc[t] = "native"
    BY <1>7 DEF Collect, HostTypeOK
  <2>2. n \in Nat /\ n <= Len(log[req[t].run])
    <3>1. Len(log[req[t].run]) \in Nat
      BY <2>1 DEF TypeOK
    <3>2. Page(req[t]) \in Nat
      BY <1>2, HostAssumption DEF Page, Req, RangeOK
    <3>3. QED
      BY <3>1, <3>2 DEF AtMost
  <2> HIDE DEF n
  <2>3. q \in Req /\ q.turn = req[t].turn /\ q.run = req[t].run /\ q.next = req[t].next /\ q.last = n
    BY <1>2, <2>2 DEF Req
  <2>4. PICK s \in {"mark", "record"} : HGoto(t, s)
    BY <1>7 DEF Collect
  <2>5. UNCHANGED <<turn, log>> /\ req' = [req EXCEPT ![t] = q]
    BY <1>7 DEF Collect, evars, n
  <2> HIDE DEF q
  <2>6. hpc'[t] = s /\ req'[t] = q
    BY <2>4, <2>5 DEF HostTypeOK, HGoto
  <2>7. RangeOK(t)' /\ BoundOK(t)'
    BY <1>2, <2>1, <2>2, <2>3, <2>5, <2>6 DEF RangeOK, BoundOK
  <2>8. QED
    BY <2>3, <2>4, <2>5, <2>7, HostGoesOn
<1>8. ASSUME NEW s \in {"marking", "recording"}, ReadRow(t, s), Stored(req[t].turn),
             hpc[t] \in {"mark", "record"}, s = "recording" => req[t].next <= req[t].last,
             UNCHANGED <<turn, log>>
      PROVE  HostInv'
  <2> DEFINE c == turn[req[t].turn]
             b == exists[turn[req[t].turn].session]
             q == [req[t] EXCEPT !.copy = c, !.linked = b]
  <2>1. req[t].turn \in Turns /\ req[t].run \in Runs
    BY <1>8 DEF HostTypeOK
  <2>2. c \in HostRow /\ b \in BOOLEAN
    BY <2>1 DEF HostTypeOK, HostRow
  <2> HIDE DEF c, b
  <2>3. /\ q \in Req /\ q.turn = req[t].turn /\ q.run = req[t].run
        /\ q.next = req[t].next /\ q.last = req[t].last /\ q.copy = c
    BY <1>2, <2>2 DEF Req
  <2>4. HGoto(t, s) /\ req' = [req EXCEPT ![t] = q]
    BY <1>8 DEF ReadRow, c, b
  <2> HIDE DEF q
  <2>5. hpc'[t] = s /\ req'[t] = q
    BY <2>4 DEF HostTypeOK, HGoto
  <2>6. RangeOK(t)'
    BY <1>2, <1>8, <2>3, <2>5 DEF RangeOK, Recording
  <2>7. BoundOK(t)'
    BY <1>2, <1>8, <2>3, <2>5 DEF BoundOK, c
  <2>8. QED
    BY <1>8, <2>3, <2>4, <2>6, <2>7, HostGoesOn
<1>9. CASE ReadMark(t) \/ ReadRecord(t)
  <2>1. UNCHANGED <<turn, log>>
    BY <1>9 DEF ReadMark, ReadRecord, evars
  <2>2. req[t].next \in Nat /\ req[t].last \in Nat
    BY <1>2 DEF Req
  <2>3. CASE ~ Stored(req[t].turn) \/ Reply(t)
    BY <1>1, <1>9, <2>1, <2>3 DEF ReadMark, ReadRecord, ReadRow
  <2>4. CASE Stored(req[t].turn) /\ ~ Reply(t)
    BY <1>8, <1>9, <2>1, <2>2, <2>4 DEF ReadMark, ReadRecord
  <2>5. QED
    BY <2>3, <2>4
<1>10. CASE Bind(t) \/ Cancel(t)
  BY <1>1, <1>4, <1>5, <1>10 DEF Bind, Cancel
<1>11. CASE Native(t) \/ Construct(t)
  BY <1>1, <1>3, <1>11 DEF Native, Construct, hvars
<1>12. QED
  BY <1>6, <1>7, <1>9, <1>10, <1>11

\* A recorded event binds the turn to the run the event is of, and ends the turn
\* only as the event says.
LEMMA HostRecords ==
  ASSUME TypeOK, ExecutorInv, EventsInv, HostTypeOK, HostInv, [Next]_evars, HostTypeOK',
         NEW t \in Threads, WriteMark(t) \/ WriteRecord(t)
  PROVE  HostInv'
<1> DEFINE k == req[t].turn
           c == req[t].copy
           r == req[t].run
           n == req[t].next
<1>1. /\ k \in Turns /\ r \in Runs /\ req[t] \in Req /\ c \in HostRow /\ turn[k] \in HostRow
      /\ n \in Nat /\ req[t].last \in Nat /\ log' = log /\ row' = row
      /\ hpc[t] \in {"marking", "recording"} /\ RangeOK(t) /\ BoundOK(t)
  BY DEF WriteMark, WriteRecord, HostTypeOK, Req, HostInv, evars
<1>2. CASE Reply(t) /\ UNCHANGED turn
  BY <1>2, SameTurns, HostReplies
<1>3. CASE WriteMark(t) /\ Stored(k)
  <2>1. /\ turn' = IF c.state = "awaiting_input"
                   THEN [turn EXCEPT ![k].state = "running"] ELSE turn
        /\ HGoto(t, "record") /\ UNCHANGED req
    BY <1>3 DEF WriteMark
  <2>2. \A j \in Turns : /\ turn'[j].run = turn[j].run
                         /\ turn'[j].state = turn[j].state \/ turn'[j].state = "running"
                         /\ AbsentTurnOK(j)'
    BY <1>1, <2>1 DEF HostTypeOK, HostRow, HostInv, AbsentTurnOK
  <2>3. hpc'[t] = "record" /\ req'[t] = req[t] /\ req' = [req EXCEPT ![t] = req[t]]
    BY <2>1 DEF HostTypeOK, HGoto
  <2>4. RangeOK(t)'
    BY <1>1, <2>3 DEF RangeOK, Recording
  <2>5. BoundOK(t)'
    BY <1>1, <2>2, <2>3 DEF BoundOK
  <2>6. QED
    BY <1>1, <2>1, <2>2, <2>3, <2>4, <2>5, HostFrames
<1>4. CASE WriteRecord(t) /\ ~ Gone(t)
  <2>1. PICK state \in StatesAfter(c, log[r][n]) :
          turn' = [turn EXCEPT ![k] = Merged(k, c, Recorded(c, r, n, state))]
    BY <1>4 DEF WriteRecord
  <2> DEFINE new == Recorded(c, r, n, state)
             w == Merged(k, c, new)
             q == [req[t] EXCEPT !.next = n + 1, !.copy = NoTurnRow, !.linked = FALSE]
  <2>2. hpc[t] = "recording" /\ n >= 1 /\ n <= Len(log[r])
    <3>1. hpc[t] = "recording"
      BY <1>4 DEF WriteRecord
    <3>2. n <= req[t].last /\ req[t].last <= Len(log[r]) /\ Len(log[r]) \in Nat
      BY <1>1, <3>1 DEF RangeOK, Recording, TypeOK
    <3>3. QED
      BY <1>1, <3>1, <3>2 DEF RangeOK
  <2>3. turn' = [turn EXCEPT ![k] = w] /\ req' = [req EXCEPT ![t] = q] /\ HGoto(t, "record")
    BY <1>4, <2>1 DEF WriteRecord
  <2>4. new \in HostRow /\ new.run = r /\ new.state = state
    <3>1. new \in HostRow
      BY <1>1, RecordedType
    <3>2. QED
      BY <1>1, <3>1 DEF Recorded, HostRow
  <2>5. turn[k].run \in {NoRun, r} /\ c.run \in {NoRun, turn[k].run}
    BY <1>1, <2>2 DEF BoundOK
  <2>6. w \in HostRow /\ w.run = r /\ w.state \in {turn[k].state, state}
    <3>1. w \in HostRow /\ w.state \in {turn[k].state, new.state}
      BY <1>1, <2>4, MergedType
    <3>2. DOMAIN turn[k] = {"state", "session", "run", "seq", "text"}
      BY <1>1 DEF HostRow
    <3> HIDE DEF new
    <3>3. w.run = IF new.run = c.run THEN turn[k].run ELSE new.run
      BY <3>2 DEF Merged
    <3>4. r # NoRun
      BY <1>1, StoreAssumption
    <3>5. w.run = r
      BY <2>4, <2>5, <3>3, <3>4
    <3>6. QED
      BY <2>4, <3>1, <3>5
  <2>7. q \in Req /\ q.turn = k /\ q.run = r /\ q.next = n + 1 /\ q.last = req[t].last
    <3>0. n + 1 \in Nat
      BY <1>1
    <3>1. PICK m \in Nat, b \in BOOLEAN : m = n + 1 /\ b = FALSE
      BY <3>0
    <3>2. PICK p : p = [req[t] EXCEPT !.next = m, !.copy = NoTurnRow, !.linked = b]
      OBVIOUS
    <3>3. p \in Req /\ p.turn = k /\ p.run = r /\ p.next = m /\ p.last = req[t].last
      BY <1>1, <3>2, NoTurnRowType DEF Req
    <3>4. q = p
      BY <3>1, <3>2
    <3>5. QED
      BY <3>1, <3>3, <3>4
  <2> HIDE DEF new, w, q
  <2>8. turn'[k] = w /\ \A j \in Turns \ {k} : turn'[j] = turn[j]
    BY <1>1, <2>3 DEF HostTypeOK
  <2>9. /\ hpc'[t] = "record" /\ req'[t] = q
        /\ \A u \in Threads \ {t} : hpc'[u] = hpc[u] /\ req'[u] = req[u]
    BY <2>3 DEF HostTypeOK, HGoto
  <2>10. RangeOK(t)' /\ BoundOK(t)'
    BY <1>1, <2>2, <2>6, <2>7, <2>8, <2>9 DEF RangeOK, BoundOK, Recording
  <2>11. ASSUME NEW u \in Threads \ {t} PROVE RangeOK(u)' /\ BoundOK(u)'
    <3>1. RangeOK(u) /\ BoundOK(u) /\ hpc'[u] = hpc[u] /\ req'[u] = req[u]
      BY <2>9 DEF HostInv
    <3>2. RangeOK(u)'
      BY <1>1, <3>1 DEF RangeOK
    <3>3. CASE req[u].turn # k
      <4>1. hpc[u] \notin {"free", "delete"} => turn'[req[u].turn] = turn[req[u].turn]
        BY <2>8, <3>3 DEF HostTypeOK
      <4>2. QED
        BY <3>1, <3>2, <4>1 DEF BoundOK
    <3>4. CASE req[u].turn = k
      <4>1. turn[k].run # NoRun
        BY <1>1, <3>4 DEF HostInv, UnboundOK
      <4>2. turn'[k].run = turn[k].run
        BY <2>5, <2>6, <2>8, <4>1
      <4>3. QED
        BY <3>1, <3>2, <3>4, <4>2 DEF BoundOK
    <3>5. QED
      BY <3>3, <3>4
  <2>12. ASSUME NEW j \in Turns PROVE UnboundOK(j)' /\ AbsentTurnOK(j)'
    <3>1. UnboundOK(j) /\ AbsentTurnOK(j)
      BY DEF HostInv
    <3>2. CASE j # k
      <4>1. turn'[j] = turn[j] /\ \A u \in Threads : req'[u].turn = req[u].turn
        BY <2>7, <2>8, <2>9, <3>2
      <4>2. QED
        BY <3>1, <4>1 DEF UnboundOK, AbsentTurnOK
    <3>3. CASE j = k
      <4>1. turn'[j].run # NoRun
        BY <1>1, <2>6, <2>8, <3>3, StoreAssumption
      <4>2. w.state # "absent"
        <5>1. turn[k].state # "absent"
          BY <1>4 DEF Gone, Stored
        <5>2. CASE w.state = turn[k].state
          BY <5>1, <5>2
        <5>3. CASE w.state = state /\ w.state # turn[k].state
          <6>1. state # c.state
            BY <1>1, <2>4, <5>3, MergedType DEF w
          <6>2. QED
            BY <2>1, <5>3, <6>1 DEF StatesAfter
        <5>4. QED
          BY <2>6, <5>2, <5>3
      <4>3. QED
        BY <2>8, <3>3, <4>1, <4>2 DEF UnboundOK, AbsentTurnOK
    <3>4. QED
      BY <3>2, <3>3
  <2>13. ASSUME NEW j \in Turns, turn'[j].state \in Ended
         PROVE  /\ row'[turn'[j].run].state \in Terminal
                /\ turn'[j].state = "cancelled" => row'[turn'[j].run].state = "cancelled"
    <3>1. CASE j # k
      BY <1>1, <2>8, <2>13, <3>1 DEF HostInv, EndedTurnEndedRun
    <3>2. CASE j = k /\ w.state = turn[k].state
      <4>1. turn[k].run # NoRun
        BY <1>1, <2>8, <2>13, <3>2 DEF HostInv, UnboundOK
      <4>2. turn'[k].run = turn[k].run
        BY <2>5, <2>6, <2>8, <4>1
      <4>3. QED
        BY <1>1, <2>8, <2>13, <3>2, <4>2 DEF HostInv, EndedTurnEndedRun
    <3>3. CASE j = k /\ w.state # turn[k].state
      <4>1. w.state = state /\ state # c.state
        BY <1>1, <2>4, <2>6, <3>3, MergedType DEF w
      <4>2. PICK e : e = log[r][n]
        OBVIOUS
      <4>3. Logged(r, e)
        <5>1. n \in DOMAIN log[r]
          BY <1>1, <2>2 DEF TypeOK
        <5>2. QED
          BY <4>2, <5>1 DEF Logged
      <4>4. EventsOK(r)
        BY <1>1 DEF EventsInv
      <4>5. /\ e \in {"error", "done_cancelled", "done_completed", "done_error"}
            /\ state = "cancelled" <=> e = "done_cancelled"
        BY <2>1, <2>8, <2>13, <3>3, <4>1, <4>2 DEF StatesAfter, Ended
      <4>6. /\ row[r].state \in Terminal
            /\ state = "cancelled" => row[r].state = "cancelled"
        BY <4>3, <4>4, <4>5 DEF EventsOK, Terminal
      <4>7. QED
        BY <1>1, <2>6, <2>8, <3>3, <4>1, <4>6
    <3>4. QED
      BY <3>1, <3>2, <3>3
  <2>14. QED
    BY <2>10, <2>11, <2>12, <2>13 DEF HostInv, EndedTurnEndedRun
<1>5. QED
  BY <1>2, <1>3, <1>4 DEF WriteMark, WriteRecord

LEMMA HostCrashes ==
  ASSUME TypeOK, ExecutorInv, HostTypeOK, HostInv, HostCrash
  PROVE  HostInv'
<1>1. /\ \A t \in Threads : hpc'[t] = "free" /\ req'[t] = NoReq
      /\ turn' = turn /\ row' = row
  BY DEF HostCrash, Crash
<1>2. NoReq.turn = NoTurn /\ NoReq.next = 1 /\ NoTurn \notin Turns
  BY HostAssumption DEF NoReq
<1>3. \A t \in Threads : RangeOK(t)' /\ BoundOK(t)'
  BY <1>1, <1>2 DEF RangeOK, BoundOK, Recording
<1>4. \A k \in Turns : UnboundOK(k)' /\ AbsentTurnOK(k)'
  BY <1>1, <1>2 DEF HostInv, UnboundOK, AbsentTurnOK
<1>5. QED
  BY <1>1, <1>3, <1>4 DEF HostInv, EndedTurnEndedRun

LEMMA InitHost == HostInit => HostInv
<1> SUFFICES ASSUME HostInit PROVE HostInv
  OBVIOUS
<1>1. /\ \A t \in Threads : hpc[t] = "free" /\ req[t] = NoReq
      /\ \A k \in Turns : turn[k] = NoTurnRow
  BY DEF HostInit
<1>2. NoReq.turn = NoTurn /\ NoReq.next = 1 /\ NoTurn \notin Turns
  BY HostAssumption DEF NoReq
<1>3. NoTurnRow.state = "absent" /\ NoTurnRow.run = NoRun
  BY DEF NoTurnRow
<1>4. QED
  BY <1>1, <1>2, <1>3
  DEF HostInv, RangeOK, BoundOK, Recording, UnboundOK, AbsentTurnOK, EndedTurnEndedRun, Ended

LEMMA StepHost ==
  TypeOK /\ ExecutorInv /\ EventsInv /\ HostTypeOK /\ HostInv /\ [HostNext]_vars => HostInv'
<1> SUFFICES ASSUME TypeOK, ExecutorInv, EventsInv, HostTypeOK, HostInv, [HostNext]_vars
             PROVE  HostInv'
  OBVIOUS
<1>1. [Next]_evars /\ HostTypeOK'
  BY HostStep, HostTypeStep
<1>2. CASE UNCHANGED vars
  BY <1>2 DEF vars, evars, hvars, HostInv, RangeOK, BoundOK, UnboundOK, AbsentTurnOK,
              EndedTurnEndedRun
<1>3. CASE HostCrash
  BY <1>3, HostCrashes
<1>4. ASSUME NEW t \in Threads, PostTurn(t) \/ PostReply(t) \/ PostCancel(t) \/ PostDelete(t)
      PROVE  HostInv'
  BY <1>1, <1>4, HostPosts
<1>5. ASSUME NEW t \in Threads,
             \/ Bind(t) \/ Cancel(t) \/ Delete(t)
             \/ Construct(t) \/ Native(t) \/ Collect(t) \/ ReadMark(t) \/ ReadRecord(t)
      PROVE  HostInv'
  BY <1>1, <1>5, HostHandles
<1>6. ASSUME NEW t \in Threads, WriteMark(t) \/ WriteRecord(t)
      PROVE  HostInv'
  BY <1>1, <1>6, HostRecords
<1>7. QED
  BY <1>2, <1>3, <1>4, <1>5, <1>6 DEF HostNext

\* A turn the host shows as ended has an ended run, and one it shows as cancelled a
\* cancelled run, whichever handlers recorded its events in whichever order, and
\* whatever was deleted or died in between (pg_api/tutor.py, routes/tutor.py).
THEOREM EndedTurns == HostSpec => []EndedTurnEndedRun
<1>1. HostSpec => [](TypeOK /\ ExecutorInv /\ EventsInv)
  BY HostDrivesExecutor, TypeCorrect, ExecutorInvariant, EventsTellOutcome, PTL
<1>2. HostInv => EndedTurnEndedRun
  BY DEF HostInv
<1>3. QED
  BY <1>1, <1>2, InitHost, StepHost, HostInvariant, PTL DEF HostSpec

-----------------------------------------------------------------------------
(* What one request leaves behind.  A run that one request at a time is about,  *)
(* none of them cut off, ends each request with the event its state calls for.  *)

EndsIn(r, e) == log[r] # << >> /\ log[r][Len(log[r])] = e

\* Nobody works on the run: it waits or has ended, and its last event says so.
Rest(r) ==
  /\ row[r].state \in {"waiting_input"} \cup Terminal
  /\ row[r].state = "waiting_input" => EndsIn(r, "wait_for_input")
  /\ row[r].state = "completed" => EndsIn(r, "done_completed")
  /\ row[r].state = "cancelled" => EndsIn(r, "done_cancelled")

\* What the only thread at work on a run finds its row to be: recovery alone may
\* have interfered.
PhaseOK(t) == LET r == cur[t] IN
  /\ pc[t] \in ExecSteps => row[r].state \in {"running", "error"}
  /\ pc[t] \in {"asked", "emit_wait"} => row[r].state \in {"waiting_input", "error"}

RunOK(r) ==
  /\ \A t \in Threads : cur[t] = r => PhaseOK(t)
  /\ (\A t \in Threads : cur[t] = r => pc[t] \in {"resume", "cancel"}) => Rest(r)

\* A step of the executor moves one thread, and it stays with its run or returns.
LEMMA ExecuteFrames ==
  ASSUME TypeOK, NEW t \in Threads, Execute(t)
  PROVE  /\ OthersKeep(t)
         /\ \/ pc'[t] = "idle" /\ cur'[t] = NoRun
            \/ /\ cur'[t] = cur[t]
               /\ pc'[t] \notin {"idle", "resume", "cancel"}
               /\ pc[t] \in NotAtWork <=> pc'[t] \in NotAtWork
<1> DEFINE P == /\ OthersKeep(t)
                /\ \/ pc'[t] = "idle" /\ cur'[t] = NoRun
                   \/ /\ cur'[t] = cur[t]
                      /\ pc'[t] \notin {"idle", "resume", "cancel"}
                      /\ pc[t] \in NotAtWork <=> pc'[t] \in NotAtWork
<1>1. CASE Return(t)
  BY <1>1 DEF TypeOK, Return, OthersKeep
<1>2. ASSUME NEW s, Goto(t, s), s \notin NotAtWork \cup {"resume", "cancel"}, pc[t] \notin NotAtWork,
             UNCHANGED cur, UNCHANGED held \/ Forget(t) \/ Load(t, cur[t]),
             UNCHANGED job \/ \E j : SetJob(t, j)
      PROVE  P
  BY <1>2 DEF TypeOK, Goto, Forget, Load, SetJob, OthersKeep, NotAtWork
<1>3. CASE Raise(t) /\ pc[t] \notin NotAtWork
  BY <1>2, <1>3 DEF Raise, NotAtWork
<1>4. ASSUME NEW s, NEW k, Emit(t, s, k), s \notin NotAtWork \cup {"resume", "cancel"},
             pc[t] \notin NotAtWork
      PROVE  P
  BY <1>2, <1>4 DEF Emit
<1>5. CASE ReadStale(t) \/ RecoverRun(t) \/ EndBuild(t)
  BY <1>1, <1>5 DEF TypeOK, ReadStale, RecoverRun, EndBuild, Goto, OthersKeep, NotAtWork
<1>6. CASE EmitBegun(t) \/ EmitDelta(t) \/ Flush(t)
  BY <1>4, <1>6 DEF EmitBegun, EmitDelta, Flush, NotAtWork
<1>7. CASE EmitCancelled(t) \/ EmitResult(t) \/ EmitError(t) \/ EmitWait(t)
  BY <1>1, <1>4, <1>7 DEF EmitCancelled, EmitResult, EmitError, EmitWait, EmitLast, NotAtWork
<1>8. CASE ResumeCas(t) \/ CancelCas(t)
  BY <1>1, <1>2, <1>8 DEF ResumeCas, CancelCas, NotAtWork
<1>9. CASE BeginRound(t) \/ ProviderError(t)
  BY <1>1, <1>2, <1>3, <1>9 DEF BeginRound, ProviderError, StopIfCancelled, NotAtWork
<1>10. CASE StreamItem(t) \/ StreamTypeError(t)
  BY <1>2, <1>10 DEF StreamItem, StreamTypeError, DropRound, NotAtWork
<1>11. CASE StreamEnd(t) \/ Complete(t)
  BY <1>2, <1>11 DEF StreamEnd, Complete, DropRound, EndRound, NotAtWork
<1>12. CASE Settle(t) \/ Asked(t)
  BY <1>1, <1>2, <1>12 DEF Settle, Asked, StopIfCancelled, NotAtWork
<1>13. CASE Continue(t) \/ SaveResult(t)
  BY <1>2, <1>3, <1>13 DEF Continue, SaveResult, SaveOr, NotAtWork
<1>14. CASE Finish(t) \/ Ask(t)
  BY <1>1, <1>2, <1>3, <1>14 DEF Finish, Ask, TransitionOrRace, NotAtWork
<1>15. CASE NextCall(t) \/ RunTool(t)
  BY <1>1, <1>2, <1>3, <1>15 DEF NextCall, RunTool, StopIfCancelled, NotAtWork
<1>16. CASE FailLoad(t) \/ FailCas(t)
  BY <1>1, <1>2, <1>16 DEF FailLoad, FailCas, NotAtWork
<1>17. QED
  BY <1>5, <1>6, <1>7, <1>8, <1>9, <1>10, <1>11, <1>12, <1>13, <1>14, <1>15, <1>16 DEF Execute

\* The row of a run only another thread is about: recovery alone may write it.
LEMMA RowElsewhere ==
  ASSUME TypeOK, NEW t \in Threads, BeginBuild(t) \/ Request(t) \/ Execute(t),
         NEW r \in Runs, row[r].state # "absent", cur[t] # r
  PROVE  \/ row'[r] = row[r]
         \/ row[r].state = "running" /\ row'[r].state = "error"
<1>1. CASE UNCHANGED row
  BY <1>1
<1>2. ASSUME NEW q \in Runs, NEW s, NEW g, NEW p, CreateRun(q, s, g, p)
      PROVE  row'[r] = row[r]
  BY <1>2 DEF CreateRun, TypeOK
<1>3. CASE Request(t)
  BY <1>1, <1>2, <1>3 DEF Request, Start, Regenerate, Begin, ResumeLoad, CancelLoad
<1>4. CASE RecoverRun(t)
  <2>1. CASE UNCHANGED row
    BY <2>1
  <2>2. CASE \E q \in Runs : Terminate(q, held[t][q], {"running"}, "error")
    BY <2>2 DEF Terminate, Matches, Written, TypeOK
  <2>3. QED
    BY <1>4, <2>1, <2>2 DEF RecoverRun
<1>5. ASSUME NEW w, row' = [row EXCEPT ![cur[t]] = w]
      PROVE  row'[r] = row[r]
  BY <1>5 DEF TypeOK
<1>6. CASE ResumeCas(t) \/ CancelCas(t) \/ FailCas(t)
  BY <1>1, <1>5, <1>6 DEF ResumeCas, CancelCas, FailCas, Transition, Terminate
<1>7. CASE Continue(t) \/ SaveResult(t) \/ Finish(t) \/ Ask(t)
  BY <1>1, <1>5, <1>7
  DEF Continue, SaveResult, Finish, Ask, SaveOr, TransitionOrRace, UpdateSnapshot, Transition
<1>8. QED
  BY <1>1, <1>3, <1>4, <1>6, <1>7
  DEF BeginBuild, Execute, ReadStale, EndBuild, EmitBegun, EmitCancelled, BeginRound,
      StreamItem, EmitDelta, StreamEnd, Flush, StreamTypeError, Complete, ProviderError,
      Settle, EmitResult, NextCall, RunTool, Asked, EmitWait, FailLoad, EmitError,
      Emit, EmitLast, StopIfCancelled

\* ... and its log is written by no other.
LEMMA LogElsewhere ==
  ASSUME TypeOK, NEW t \in Threads, BeginBuild(t) \/ Request(t) \/ Execute(t)
  PROVE  \/ log' = log
         \/ cur[t] \in Runs /\ Execute(t) /\ \E k \in EventKinds : Append1(cur[t], k)
<1>1. CASE BeginBuild(t) \/ Request(t)
  BY <1>1 DEF BeginBuild, Request, Start, Regenerate, Begin, ResumeLoad, CancelLoad
<1>2. ASSUME Execute(t), pc[t] \notin NotAtWork, NEW k \in EventKinds, Append1(cur[t], k)
      PROVE  cur[t] \in Runs /\ Execute(t) /\ \E e \in EventKinds : Append1(cur[t], e)
  BY <1>2, RowsOfThread DEF NotAtWork
<1>3. CASE EmitBegun(t) \/ EmitDelta(t) \/ Flush(t) \/ EmitWait(t)
  <2>1. PICK k \in EventKinds : Append1(cur[t], k) /\ pc[t] \notin NotAtWork
    BY <1>3 DEF EmitBegun, EmitDelta, Flush, EmitWait, Emit, EmitLast, EventKinds, NotAtWork
  <2>2. QED
    BY <1>2, <1>3, <2>1 DEF Execute
<1>4. CASE EmitCancelled(t) \/ EmitResult(t) \/ EmitError(t)
  <2>1. PICK k \in EventKinds : Append1(cur[t], k) /\ pc[t] \notin NotAtWork
    BY <1>4 DEF EmitCancelled, EmitResult, EmitError, Emit, EmitLast, EventKinds, NotAtWork
  <2>2. QED
    BY <1>2, <1>4, <2>1 DEF Execute
<1>5. CASE RunTool(t) /\ log' # log
  <2>1. PICK k \in EventKinds : Append1(cur[t], k) /\ pc[t] \notin NotAtWork
    BY <1>5 DEF RunTool, EventKinds, NotAtWork
  <2>2. QED
    BY <1>2, <1>5, <2>1 DEF Execute
<1>6. QED
  BY <1>1, <1>3, <1>4, <1>5
  DEF Execute, ReadStale, RecoverRun, EndBuild, ResumeCas, CancelCas, BeginRound,
      StreamItem, StreamEnd, StreamTypeError, Complete, ProviderError, Settle,
      Continue, Finish, NextCall, SaveResult, Ask, Asked, FailLoad, FailCas,
      StopIfCancelled

LEMMA EndsAppended ==
  ASSUME TypeOK, NEW r \in Runs, NEW k \in EventKinds, Append1(r, k)
  PROVE  EndsIn(r, k)'
<1>1. log'[r] = Append(log[r], k) /\ log[r] \in Seq(EventKinds)
  BY DEF TypeOK, Append1
<1>2. PICK s : s = log[r]
  OBVIOUS
<1>3. PICK z : z = log'[r]
  OBVIOUS
<1>4. z # << >> /\ z[Len(z)] = k
  BY <1>1, <1>2, <1>3
<1>5. QED
  BY <1>3, <1>4 DEF EndsIn

\* The step of the only thread that is about the run: it goes on as it should, or
\* leaves the run at rest.
LEMMA OwnStep ==
  ASSUME TypeOK, ExecutorInv, CloserInv, NEW t \in Threads, Execute(t),
         NEW r \in Runs, r = cur[t], pc[t] \notin NotAtWork,
         PhaseOK(t), pc[t] \in {"resume", "cancel"} => Rest(r)
  PROVE  /\ cur'[t] = r => PhaseOK(t)'
         /\ cur'[t] # r => Rest(r)'
<1> DEFINE P == /\ cur'[t] = r => PhaseOK(t)'
                /\ cur'[t] # r => Rest(r)'
<1>1. row[r] \in Row /\ job[t] \in Job /\ held[t][r] \in Row /\ NoRun \notin Runs /\ AnnouncesOK(t)
  BY StoreAssumption DEF TypeOK, CloserInv
\* Going on.
<1>2. ASSUME NEW s, Goto(t, s), UNCHANGED cur,
             s \in ExecSteps => row'[r].state \in {"running", "error"},
             s \in {"asked", "emit_wait"} => row'[r].state \in {"waiting_input", "error"}
      PROVE  P
  <2>1. pc'[t] = s /\ cur'[t] = r
    BY <1>2 DEF TypeOK, Goto
  <2>2. QED
    BY <1>2, <2>1 DEF PhaseOK
<1>3. CASE Raise(t) /\ row' = row /\ pc[t] \in ExecSteps
  BY <1>2, <1>3 DEF Raise, PhaseOK
<1>4. ASSUME NEW s \in ExecSteps, Goto(t, s), UNCHANGED cur, row' = row, pc[t] \in ExecSteps
      PROVE  P
  <2>1. s \notin {"asked", "emit_wait"}
    BY DEF ExecSteps, LoopSteps
  <2>2. row'[r].state \in {"running", "error"}
    BY <1>4 DEF PhaseOK
  <2>3. QED
    BY <1>2, <1>4, <2>1, <2>2
\* Returning.
<1>5. ASSUME NEW k \in EventKinds, EmitLast(t, k),
             row[r].state = "waiting_input" => k = "wait_for_input",
             row[r].state = "completed" => k = "done_completed",
             row[r].state = "cancelled" => k = "done_cancelled",
             row[r].state \in {"waiting_input"} \cup Terminal
      PROVE  P
  <2>1. Append1(r, k) /\ row' = row /\ cur'[t] = NoRun
    BY <1>5 DEF TypeOK, EmitLast, Return
  <2>2. EndsIn(r, k)'
    BY <2>1, EndsAppended
  <2>3. Rest(r)'
    BY <1>5, <2>1, <2>2 DEF Rest
  <2>4. QED
    BY <1>1, <2>1, <2>3
<1>6. CASE Return(t) /\ UNCHANGED <<row, log>> /\ Rest(r)
  <2>1. cur'[t] = NoRun /\ Rest(r)'
    BY <1>6 DEF TypeOK, Return, Rest, EndsIn
  <2>2. QED
    BY <1>1, <2>1
<1>7. ASSUME StopIfCancelled(t), pc[t] \in ExecSteps \cup {"asked"}
      PROVE  FALSE
  BY <1>7 DEF StopIfCancelled, Cancelled, PhaseOK
<1>8. CASE EmitBegun(t) \/ EmitDelta(t) \/ Flush(t)
  <2>1. PICK s \in {"round", "stream", "settle"} :
          (\E k : Emit(t, s, k)) /\ pc[t] \in LoopSteps
    BY <1>8 DEF EmitBegun, EmitDelta, Flush, LoopSteps
  <2>2. pc[t] \in ExecSteps /\ s \in ExecSteps
    BY <2>1 DEF ExecSteps, LoopSteps
  <2>3. QED
    BY <1>4, <2>1, <2>2 DEF Emit
<1>9. CASE ResumeCas(t)
  <2>1. CASE /\ Transition(r, held[t][r], {"waiting_input"}, "running",
                           held[t][r].text, job[t].results, job[t].grants)
             /\ Goto(t, "resumed") /\ UNCHANGED cur
    <3>1. row'[r].state = "running"
      BY <2>1, WrittenFields DEF TypeOK, Transition, Written
    <3>2. QED
      BY <1>2, <2>1, <3>1
  <2>2. CASE Return(t) /\ UNCHANGED <<row, log>>
    BY <1>6, <1>9, <2>2 DEF ResumeCas
  <2>3. QED
    BY <1>9, <2>1, <2>2 DEF ResumeCas
<1>10. CASE CancelCas(t)
  <2>1. CASE Goto(t, "emit_cancel") /\ UNCHANGED cur
    BY <1>2, <2>1 DEF ExecSteps, LoopSteps
  <2>2. CASE Return(t) /\ UNCHANGED <<row, log>>
    BY <1>6, <1>10, <2>2 DEF CancelCas
  <2>3. QED
    BY <1>10, <2>1, <2>2 DEF CancelCas
<1>11. CASE EmitCancelled(t)
  <2>1. CASE pc[t] = "emit_cancel" /\ Emit(t, "emit_cancel_done", "run_cancelled")
    BY <1>2, <2>1 DEF Emit, ExecSteps, LoopSteps
  <2>2. CASE pc[t] = "emit_cancel_done" /\ EmitLast(t, "done_cancelled")
    BY <1>1, <1>5, <2>2 DEF AnnouncesOK, CancelSteps, EventKinds, Terminal
  <2>3. QED
    BY <1>11, <2>1, <2>2 DEF EmitCancelled
<1>12. CASE EmitResult(t)
  <2>1. CASE pc[t] = "emit_result" /\ Emit(t, "emit_done", "result")
    BY <1>2, <2>1 DEF Emit, ExecSteps, LoopSteps
  <2>2. CASE pc[t] = "emit_done" /\ EmitLast(t, "done_completed")
    BY <1>1, <1>5, <2>2 DEF AnnouncesOK, EventKinds, Terminal
  <2>3. QED
    BY <1>12, <2>1, <2>2 DEF EmitResult
<1>13. CASE EmitError(t)
  <2>1. CASE pc[t] = "emit_error" /\ Emit(t, "emit_error_done", "error")
    BY <1>2, <2>1 DEF Emit, ExecSteps, LoopSteps
  <2>2. CASE pc[t] = "emit_error_done" /\ EmitLast(t, "done_error")
    BY <1>1, <1>5, <2>2 DEF AnnouncesOK, EventKinds, Terminal
  <2>3. QED
    BY <1>13, <2>1, <2>2 DEF EmitError
<1>14. CASE EmitWait(t)
  BY <1>5, <1>14 DEF EmitWait, PhaseOK, EventKinds, Terminal
<1>15. CASE Asked(t)
  <2>1. Goto(t, "emit_wait") /\ UNCHANGED <<row, cur>> /\ pc[t] = "asked"
    BY <1>7, <1>15 DEF Asked
  <2>2. QED
    BY <1>2, <2>1 DEF PhaseOK, ExecSteps, LoopSteps
<1>16. CASE \/ BeginRound(t) \/ StreamItem(t) \/ StreamEnd(t) \/ StreamTypeError(t)
            \/ Complete(t) \/ ProviderError(t)
  <2>1. pc[t] \in ExecSteps /\ row' = row
    BY <1>16 DEF BeginRound, StreamItem, StreamEnd, StreamTypeError, Complete, ProviderError,
                 StopIfCancelled, ExecSteps, LoopSteps
  <2>2. Raise(t) \/ \E s \in {"stream", "settle", "delta", "flush", "complete"} : Goto(t, s) /\ UNCHANGED cur
    BY <1>7, <1>16, <2>1
    DEF BeginRound, StreamItem, StreamEnd, StreamTypeError, Complete, ProviderError, DropRound, EndRound
  <2>3. \A s \in {"stream", "settle", "delta", "flush", "complete"} : s \in ExecSteps
    BY DEF ExecSteps, LoopSteps
  <2>4. QED
    BY <1>3, <1>4, <2>1, <2>2, <2>3
<1>17. CASE Settle(t) \/ NextCall(t) \/ RunTool(t)
  <2>1. pc[t] \in ExecSteps /\ row' = row
    BY <1>17 DEF Settle, NextCall, RunTool, StopIfCancelled, ExecSteps, LoopSteps
  <2>2. Raise(t) \/ \E s \in {"calls", "continue", "finish", "round", "ask", "tool", "save"} :
                      Goto(t, s) /\ UNCHANGED cur
    BY <1>7, <1>17, <2>1 DEF Settle, NextCall, RunTool
  <2>3. \A s \in {"calls", "continue", "finish", "round", "ask", "tool", "save"} : s \in ExecSteps
    BY DEF ExecSteps, LoopSteps
  <2>4. QED
    BY <1>3, <1>4, <2>1, <2>2, <2>3
<1>18. ASSUME NEW to \in {"running", "waiting_input", "completed"}, NEW s, Goto(t, s), UNCHANGED cur,
              Transition(r, held[t][r], {"running"}, to, job[t].acc, job[t].results, job[t].grants),
              \/ to = "running" /\ s \in {"round", "calls"}
              \/ to = "waiting_input" /\ s = "asked"
              \/ to = "completed" /\ s = "emit_result"
       PROVE  P
  <2>1. row'[r].state = to
    BY <1>18, WrittenFields DEF TypeOK, Transition, Written
  <2>2. QED
    BY <1>2, <1>18, <2>1 DEF ExecSteps, LoopSteps
<1>19. CASE Continue(t) \/ SaveResult(t)
  <2>1. PICK s \in {"round", "calls"} : SaveOr(t, s)
    BY <1>19 DEF Continue, SaveResult
  <2>2. pc[t] \in ExecSteps
    BY <1>19 DEF Continue, SaveResult, ExecSteps, LoopSteps
  <2>3. QED
    BY <1>3, <1>18, <2>1, <2>2 DEF SaveOr, UpdateSnapshot
<1>20. CASE Finish(t) \/ Ask(t)
  <2>1. PICK to \in {"completed", "waiting_input"}, s \in {"emit_result", "asked"} :
          TransitionOrRace(t, to, s) /\ (to = "completed" <=> s = "emit_result")
    BY <1>20 DEF Finish, Ask
  <2>2. pc[t] \in ExecSteps
    BY <1>20 DEF Finish, Ask, ExecSteps, LoopSteps
  <2>3. ~ Cancelled(t)
    BY <2>2 DEF Cancelled, PhaseOK
  <2>4. CASE Goto(t, s) /\ UNCHANGED <<cur, row>> /\ row[r].state \in Terminal \ {"cancelled"}
    <3>1. row'[r].state = "error"
      BY <2>2, <2>4 DEF PhaseOK, Terminal
    <3>2. QED
      BY <1>2, <2>4, <3>1
  <2>5. QED
    BY <1>3, <1>18, <2>1, <2>2, <2>3, <2>4 DEF TransitionOrRace
<1>21. CASE FailLoad(t)
  <2>1. pc[t] \in ExecSteps
    BY <1>21 DEF FailLoad, ExecSteps
  <2>2. row[r].state \in {"running", "error"} /\ row' = row
    BY <1>21, <2>1 DEF PhaseOK, FailLoad
  <2>3. (Goto(t, "fail_cas") \/ Goto(t, "emit_error")) /\ UNCHANGED cur
    BY <1>21, <2>2 DEF FailLoad
  <2>4. QED
    BY <1>2, <2>2, <2>3
<1>22. CASE FailCas(t)
  <2>1. pc[t] = "fail_cas" /\ pc[t] \in ExecSteps
    BY <1>22 DEF FailCas, ExecSteps
  <2>2. row[r].state \in {"running", "error"}
    BY <2>1 DEF PhaseOK
  <2>3. row[r].state = "running" => held[t][r] = row[r]
    BY <2>1 DEF ExecutorInv, FrameInv, WriteSteps
  <2>4. Goto(t, "emit_error") /\ UNCHANGED cur
    BY <1>22, <2>2, <2>3 DEF FailCas, Matches
  <2>5. QED
    BY <1>2, <2>4 DEF ExecSteps, LoopSteps
<1>23. QED
  BY <1>8, <1>9, <1>10, <1>11, <1>12, <1>13, <1>14, <1>15, <1>16, <1>17, <1>19, <1>20, <1>21, <1>22
  DEF Execute, ReadStale, RecoverRun, EndBuild, NotAtWork

\* A request takes up one run, a new one or one that is loaded.
LEMMA RequestFrames ==
  ASSUME TypeOK, NEW t \in Threads, BeginBuild(t) \/ Request(t)
  PROVE  /\ OthersKeep(t) /\ pc[t] = "idle" /\ log' = log
         /\ \/ BeginBuild(t) /\ cur'[t] = cur[t] /\ pc'[t] = "build" /\ row' = row
            \/ row' = row /\ pc'[t] \in {"resume", "cancel"}
            \/ pc'[t] \in {"started", "regenerated"} /\ row[cur'[t]].state = "absent"
<1>1. CASE BeginBuild(t)
  BY <1>1 DEF TypeOK, BeginBuild, Goto, OthersKeep
<1>2. CASE ResumeLoad(t) \/ CancelLoad(t)
  BY <1>2 DEF TypeOK, ResumeLoad, CancelLoad, Goto, Load, SetJob, OthersKeep
<1>3. ASSUME NEW r, NEW s, NEW g, NEW p, NEW z \in {"started", "regenerated"}, Begin(t, r, s, g, p, z)
      PROVE  /\ OthersKeep(t) /\ pc[t] = "idle" /\ log' = log
             /\ pc'[t] = z /\ row[cur'[t]].state = "absent"
  <2>1. pc[t] = "idle" /\ log' = log
    BY <1>3 DEF Begin, CreateRun
  <2>2. pc' = [pc EXCEPT ![t] = z] /\ cur' = [cur EXCEPT ![t] = r] /\ row[r].state = "absent"
    BY <1>3 DEF Begin, CreateRun, Goto
  <2>3. pc'[t] = z /\ cur'[t] = r
    BY <2>2 DEF TypeOK
  <2>4. OthersKeep(t)
    BY <1>3, <2>2 DEF TypeOK, Begin, SetJob, OthersKeep
  <2>5. QED
    BY <2>1, <2>2, <2>3, <2>4
<1>4. CASE Start(t) \/ Regenerate(t)
  BY <1>3, <1>4 DEF Start, Regenerate
<1>5. QED
  BY <1>1, <1>2, <1>4 DEF Request

LEMMA RunKept ==
  ASSUME TypeOK, ExecutorInv, CloserInv, NEW t \in Threads,
         BeginBuild(t) \/ Request(t) \/ Execute(t),
         NEW r \in Runs, row[r].state # "absent", RunOK(r),
         \A u \in Threads : cur[u] = r => pc[u] \notin NotAtWork,
         \A u, v \in Threads : cur[u] = r /\ cur[v] = r => u = v,
         cur'[t] = r /\ cur[t] # r => \A u \in Threads : cur[u] # r
  PROVE  RunOK(r)'
<1>1. OthersKeep(t) /\ NoRun \notin Runs
  BY RequestFrames, ExecuteFrames, StoreAssumption
<1>2. \A u \in Threads \ {t} : cur'[u] = cur[u] /\ pc'[u] = pc[u]
  BY <1>1 DEF OthersKeep
<1>3. CASE cur[t] = r
  <2>1. Execute(t)
    BY <1>3, RequestFrames DEF NotAtWork
  <2>2. \A u \in Threads \ {t} : cur'[u] # r
    BY <1>2, <1>3
  <2>3. PhaseOK(t) /\ (pc[t] \in {"resume", "cancel"} => Rest(r))
    BY <1>3 DEF RunOK
  <2>4. /\ cur'[t] = r => PhaseOK(t)'
        /\ cur'[t] # r => Rest(r)'
    BY <1>3, <2>1, <2>3, OwnStep
  <2>5. cur'[t] = r => pc'[t] \notin {"resume", "cancel"}
    BY <1>1, <2>1, ExecuteFrames
  <2>6. QED
    BY <2>2, <2>4, <2>5 DEF RunOK
<1>4. CASE cur[t] # r /\ cur'[t] = r
  <2>1. ~ Execute(t)
    BY <1>1, <1>4, ExecuteFrames
  <2>2. log' = log /\ row' = row /\ pc'[t] \in {"resume", "cancel"}
    BY <1>4, <2>1, RequestFrames
  <2>3. Rest(r)'
    BY <1>4, <2>2 DEF RunOK, Rest, EndsIn
  <2>4. PhaseOK(t)'
    BY <2>2 DEF PhaseOK, ExecSteps, LoopSteps
  <2>5. QED
    BY <1>2, <1>4, <2>3, <2>4 DEF RunOK
<1>5. CASE cur[t] # r /\ cur'[t] # r
  <2>1. log'[r] = log[r]
    BY <1>5, LogElsewhere DEF TypeOK, Append1
  <2>2. \/ row'[r] = row[r]
        \/ row[r].state = "running" /\ row'[r].state = "error"
    BY <1>5, RowElsewhere
  <2>3. Rest(r) => Rest(r)'
    BY <2>1, <2>2 DEF Rest, EndsIn, Terminal
  <2>4. ASSUME NEW u \in Threads, cur'[u] = r
        PROVE  cur[u] = r /\ pc'[u] = pc[u] /\ PhaseOK(u)'
    <3>1. cur[u] = r /\ pc'[u] = pc[u] /\ PhaseOK(u)
      BY <1>2, <1>5, <2>4 DEF RunOK
    <3>2. PhaseOK(u)'
      BY <2>2, <2>4, <3>1 DEF PhaseOK
    <3>3. QED
      BY <3>1, <3>2
  <2>5. \A u \in Threads : cur[u] = r => cur'[u] = r /\ pc'[u] = pc[u]
    BY <1>2, <1>5
  <2>6. QED
    BY <2>3, <2>4, <2>5 DEF RunOK
<1>6. QED
  BY <1>3, <1>4, <1>5

-----------------------------------------------------------------------------
(* Handlers and the runs they drive.                                       *)

\* A thread is in the executor only for its handler, and about the handler's run.
JoinOK(t) ==
  /\ cur[t] # NoRun => hpc[t] = "native" /\ cur[t] = req[t].run
  /\ pc[t] \in NotAtWork => cur[t] = NoRun
  /\ hpc[t] # "native" => pc[t] \in NotAtWork
  /\ hpc[t] = "native" => pc[t] \notin {"build", "recover"}
  /\ hpc[t] \in {"free", "delete", "bind"} => req[t].run = NoRun

\* A turn has a run when it is bound to it, or the request that starts it is.
Owns(k, r) == turn[k].run = r \/ \E t \in Threads : (req[t].turn = k /\ req[t].run = r)

OwnOK == \A r \in Runs :
  /\ \A j, k \in Turns : Owns(j, r) /\ Owns(k, r) => j = k
  /\ \A k \in Turns : Owns(k, r) => row[r].state # "absent"

Alone(k) == \A t, u \in Threads : req[t].turn = k /\ req[u].turn = k => t = u

DriveInv == /\ \A t \in Threads : JoinOK(t)
            /\ OwnOK
            /\ \A k \in Turns \ disturbed : Alone(k)

LEMMA ExecuteBusy ==
  ASSUME NEW t \in Threads, Execute(t)
  PROVE  pc[t] # "idle"
  BY DEF Execute, ReadStale, RecoverRun, EndBuild, EmitBegun, ResumeCas, CancelCas, EmitCancelled,
         BeginRound, StreamItem, EmitDelta, StreamEnd, Flush, StreamTypeError, Complete,
         ProviderError, Settle, Continue, Finish, EmitResult, NextCall, RunTool, SaveResult,
         Ask, Asked, EmitWait, FailLoad, FailCas, EmitError

\* The steps of the host, and what they are to the executor.
Posts(t) == PostTurn(t) \/ PostReply(t) \/ PostCancel(t) \/ PostDelete(t)
Handles(t) == \/ Bind(t) \/ Cancel(t) \/ Delete(t) \/ Collect(t)
              \/ ReadMark(t) \/ WriteMark(t) \/ ReadRecord(t) \/ WriteRecord(t)
Drives(t) == Construct(t) \/ Native(t)

\* Others are not moved.
Aside(t) == \A u \in Threads \ {t} : /\ hpc'[u] = hpc[u] /\ req'[u] = req[u]
                                     /\ pc'[u] = pc[u] /\ cur'[u] = cur[u]

LEMMA HandlersAside ==
  ASSUME TypeOK, HostTypeOK, NEW t \in Threads, Posts(t) \/ Handles(t) \/ Drives(t)
  PROVE  Aside(t) /\ (UNCHANGED evars \/ BeginBuild(t) \/ Request(t) \/ Execute(t))
<1>1. \/ UNCHANGED <<hpc, req>>
      \/ \E s : HGoto(t, s) /\ (UNCHANGED req \/ \E q : req' = [req EXCEPT ![t] = q])
  <2>1. CASE PostTurn(t) \/ PostReply(t) \/ PostCancel(t) \/ PostDelete(t)
    BY <2>1 DEF PostTurn, PostReply, PostCancel, PostDelete
  <2>2. CASE Bind(t) \/ Cancel(t) \/ Delete(t) \/ Collect(t)
    BY <2>2 DEF Bind, Cancel, Delete, Collect, Reply
  <2>3. CASE ReadMark(t) \/ WriteMark(t) \/ ReadRecord(t) \/ WriteRecord(t)
    BY <2>3 DEF ReadMark, WriteMark, ReadRecord, WriteRecord, ReadRow, Reply
  <2>4. CASE Construct(t) \/ Native(t)
    BY <2>4 DEF Construct, Native, Reply, hvars
  <2>5. QED
    BY <2>1, <2>2, <2>3, <2>4 DEF Posts, Handles, Drives
<1>2. \A u \in Threads \ {t} : hpc'[u] = hpc[u] /\ req'[u] = req[u]
  BY <1>1 DEF HostTypeOK, HGoto
<1>3. UNCHANGED evars \/ BeginBuild(t) \/ Request(t) \/ Execute(t)
  <2>1. CASE Bind(t)
    <3>1. turn[req[t].turn].session \in Sessions
      <4>1. req[t].turn \in Turns
        BY <2>1 DEF Bind, HostTypeOK
      <4>2. turn[req[t].turn] \in HostRow
        BY <4>1 DEF HostTypeOK
      <4>3. QED
        BY <4>2 DEF HostRow
    <3>2. QED
      BY <2>1, <3>1 DEF Bind, Request, Start
  <2>2. CASE PostReply(t) \/ Cancel(t)
    BY <2>2 DEF PostReply, Cancel, Request
  <2>3. CASE PostTurn(t) \/ PostCancel(t) \/ PostDelete(t) \/ Delete(t) \/ Collect(t)
    BY <2>3 DEF PostTurn, PostCancel, PostDelete, Delete, Collect
  <2>4. CASE ReadMark(t) \/ WriteMark(t) \/ ReadRecord(t) \/ WriteRecord(t)
    BY <2>4 DEF ReadMark, WriteMark, ReadRecord, WriteRecord
  <2>5. QED
    BY <2>1, <2>2, <2>3, <2>4 DEF Posts, Handles, Drives, Construct, Native
<1>4. UNCHANGED evars \/ OthersKeep(t)
  BY <1>3, RequestFrames, ExecuteFrames
<1>5. \A u \in Threads \ {t} : pc'[u] = pc[u] /\ cur'[u] = cur[u]
  BY <1>4 DEF evars, OthersKeep
<1>6. QED
  BY <1>2, <1>3, <1>5 DEF Aside

LEMMA JoinStep ==
  ASSUME TypeOK, HostTypeOK, NEW t \in Threads, Posts(t) \/ Handles(t) \/ Drives(t), JoinOK(t)
  PROVE  JoinOK(t)'
<1> USE DEF JoinOK
<1>1. NoReq.run = NoRun /\ "idle" \in NotAtWork
  BY DEF NoReq, NotAtWork
<1>2. ASSUME HGoto(t, "free"), req' = [req EXCEPT ![t] = NoReq], UNCHANGED evars,
             hpc[t] # "native" \/ pc[t] = "idle"
      PROVE  JoinOK(t)'
  BY <1>1, <1>2 DEF evars, HostTypeOK, HGoto
<1>3. ASSUME NEW s, HGoto(t, s), s # "native", NEW q, req' = [req EXCEPT ![t] = q],
             pc[t] \in NotAtWork, UNCHANGED evars,
             s \in {"free", "delete", "bind"} => q.run = NoRun
      PROVE  JoinOK(t)'
  BY <1>3 DEF evars, HostTypeOK, HGoto
<1>4. ASSUME NEW s, HGoto(t, s), s \notin {"native", "free", "delete", "bind"}, UNCHANGED req,
             pc[t] \in NotAtWork, UNCHANGED evars
      PROVE  JoinOK(t)'
  BY <1>4 DEF evars, HostTypeOK, HGoto
<1>5. CASE PostTurn(t) \/ PostCancel(t) \/ PostDelete(t)
  <2>1. PICK s, q : /\ HGoto(t, s) /\ s \in {"bind", "cancel", "delete"} /\ req' = [req EXCEPT ![t] = q]
                    /\ s \in {"delete", "bind"} => q.run = NoRun
                    /\ UNCHANGED evars /\ pc[t] = "idle"
    BY <1>5 DEF PostTurn, PostCancel, PostDelete, Free, NoReq
  <2>2. QED
    BY <1>1, <1>3, <2>1
<1>6. CASE PostReply(t)
  <2>1. PICK k \in Turns : /\ HGoto(t, "native") /\ ResumeLoad(t) /\ cur'[t] = turn[k].run
                           /\ \E n : req' = [req EXCEPT ![t] = [NoReq EXCEPT !.kind = "resume", !.turn = k,
                                             !.run = turn[k].run, !.next = n]]
    BY <1>6 DEF PostReply
  <2>2. hpc'[t] = "native" /\ req'[t].run = turn[k].run
    BY <2>1 DEF HostTypeOK, HGoto, NoReq
  <2>3. pc'[t] = "resume"
    BY <2>1 DEF ResumeLoad, Goto, TypeOK
  <2>4. QED
    BY <2>1, <2>2, <2>3 DEF NotAtWork
<1>7. CASE Bind(t)
  <2>1. CASE Reply(t) /\ UNCHANGED evars
    BY <1>2, <1>7, <2>1 DEF Bind, Reply
  <2>2. ASSUME NEW r, NEW s, NEW g, Begin(t, r, s, g, NoRun, "started"),
               req' = [req EXCEPT ![t].run = r], HGoto(t, "native")
        PROVE  JoinOK(t)'
    <3>1. pc'[t] = "started" /\ cur'[t] = r
      BY <2>2 DEF TypeOK, Begin, Goto
    <3>2. hpc'[t] = "native" /\ req'[t].run = r
      BY <2>2 DEF HostTypeOK, HGoto, Req
    <3>3. QED
      BY <3>1, <3>2 DEF NotAtWork
  <2>3. QED
    BY <1>7, <2>1, <2>2 DEF Bind
<1>8. CASE Cancel(t)
  <2>1. CASE Reply(t) /\ UNCHANGED evars
    BY <1>2, <1>8, <2>1 DEF Cancel, Reply
  <2>2. CASE CancelLoad(t) /\ cur'[t] = req[t].run /\ HGoto(t, "native") /\ UNCHANGED req
    BY <2>2 DEF CancelLoad, Goto, TypeOK, HostTypeOK, HGoto, NotAtWork
  <2>3. QED
    BY <1>8, <2>1, <2>2 DEF Cancel
<1>9. CASE Delete(t)
  BY <1>2, <1>9 DEF Delete, Reply
<1>10. CASE Collect(t)
  <2>1. PICK s \in {"mark", "record"} : HGoto(t, s)
    BY <1>10 DEF Collect
  <2>2. PICK n : req' = [req EXCEPT ![t].last = n]
    BY <1>10 DEF Collect
  <2>3. UNCHANGED evars /\ pc[t] \in NotAtWork
    BY <1>1, <1>10 DEF Collect
  <2>4. QED
    BY <1>3, <2>1, <2>2, <2>3
<1>11. CASE ReadMark(t) \/ WriteMark(t) \/ ReadRecord(t) \/ WriteRecord(t)
  <2>1. UNCHANGED evars /\ hpc[t] # "native" /\ pc[t] \in NotAtWork
    BY <1>11 DEF ReadMark, WriteMark, ReadRecord, WriteRecord
  <2>2. \/ Reply(t)
        \/ \E s \in {"marking", "recording", "record"} :
             HGoto(t, s) /\ (UNCHANGED req \/ \E q : req' = [req EXCEPT ![t] = q])
    BY <1>11 DEF ReadMark, WriteMark, ReadRecord, WriteRecord, ReadRow
  <2>3. QED
    BY <1>2, <1>3, <1>4, <2>1, <2>2 DEF Reply
<1>12. CASE Construct(t)
  BY <1>12 DEF Construct, BeginBuild, Goto, TypeOK, hvars, NotAtWork
<1>13. CASE Native(t)
  <2>1. Execute(t) /\ pc[t] # "idle"
    BY <1>13, ExecuteBusy DEF Native
  <2>2. \/ pc'[t] = "idle" /\ cur'[t] = NoRun
        \/ /\ cur'[t] = cur[t]
           /\ pc'[t] \notin {"idle", "resume", "cancel"}
           /\ pc[t] \in NotAtWork <=> pc'[t] \in NotAtWork
    BY <2>1, ExecuteFrames
  <2>3. CASE Reply(t) /\ pc'[t] = "idle"
    BY <1>1, <2>2, <2>3 DEF Reply, HGoto, HostTypeOK
  <2>4. CASE UNCHANGED <<hpc, req>>
    BY <2>1, <2>2, <2>4 DEF NotAtWork
  <2>5. QED
    BY <1>13, <2>3, <2>4 DEF Native
<1>14. QED
  BY <1>5, <1>6, <1>7, <1>8, <1>9, <1>10, <1>11, <1>12, <1>13 DEF Posts, Handles, Drives

\* A run that exists goes on existing.
LEMMA RunsStay ==
  ASSUME TypeOK, ExecutorInv, [Next]_evars, NEW r \in Runs, row[r].state # "absent"
  PROVE  row'[r].state # "absent"
<1>1. CASE UNCHANGED row
  BY <1>1
<1>2. ASSUME NEW q \in Runs, NEW s \in Sessions, NEW g \in Grants, NEW p \in Runs \cup {NoRun},
             CreateRun(q, s, g, p)
      PROVE  row'[r].state # "absent"
  BY <1>2 DEF CreateRun, TypeOK
<1>3. ASSUME NEW q \in Runs, NEW w \in Row, Moved(q, w)
      PROVE  row'[r].state # "absent"
  BY <1>3 DEF Moved, TypeOK, Terminal, Active
<1>4. QED
  BY <1>1, <1>2, <1>3, RowMoves

\* What a handler is about after its step, and what it may bind.
Binds(t) == \A j \in Turns : \/ turn'[j].run = turn[j].run
                             \/ j = req[t].turn /\ turn'[j].run = req[t].run

TakesUp(t) ==
  \/ req'[t].run = NoRun
  \/ req'[t].turn \in Turns /\ req'[t].run = turn[req'[t].turn].run
  \/ req'[t].turn = req[t].turn /\ req'[t].run = req[t].run
  \/ /\ hpc[t] = "bind" /\ req'[t].turn = req[t].turn /\ req'[t].run \in Runs
     /\ row[req'[t].run].state = "absent" /\ row'[req'[t].run].state = "running"
     /\ pc'[t] = "started" /\ cur'[t] = req'[t].run

Enters(t) ==
  /\ disturbed \subseteq disturbed'
  /\ req'[t].turn \in Turns =>
       \/ req'[t].turn = req[t].turn
       \/ \A u \in Threads : req[u].turn # req'[t].turn
       \/ req'[t].turn \in disturbed'

LEMMA ReqMoves ==
  ASSUME TypeOK, HostTypeOK, HostInv, NEW t \in Threads, Posts(t) \/ Handles(t) \/ Drives(t)
  PROVE  Binds(t) /\ TakesUp(t) /\ Enters(t)
<1> USE DEF TakesUp, Enters
<1>0. NoReq.run = NoRun /\ NoReq.turn = NoTurn /\ NoTurn \notin Turns /\ req[t] \in Req
  BY HostAssumption DEF NoReq, HostTypeOK
<1>1. CASE Reply(t) /\ UNCHANGED <<turn, disturbed>>
  BY <1>0, <1>1 DEF Reply, HostTypeOK, Binds
<1>2. CASE UNCHANGED <<req, turn, disturbed>>
  BY <1>2 DEF Binds
<1>3. CASE PostTurn(t)
  <2>1. PICK k \in Turns, s \in Sessions :
          /\ turn[k].state = "absent"
          /\ turn' = [turn EXCEPT ![k].state = "running", ![k].session = s]
          /\ req' = [req EXCEPT ![t] = [NoReq EXCEPT !.kind = "start", !.turn = k]]
          /\ UNCHANGED disturbed
    BY <1>3 DEF PostTurn
  <2>2. \A j \in Turns : turn'[j].run = turn[j].run
    BY <2>1 DEF HostTypeOK, HostRow
  <2>3. req'[t].turn = k /\ req'[t].run = NoRun
    BY <2>1 DEF HostTypeOK, NoReq
  <2>4. \A u \in Threads : req[u].turn # k
    BY <2>1, HostAssumption DEF HostTypeOK, HostInv, BoundOK
  <2>5. QED
    BY <2>1, <2>2, <2>3, <2>4 DEF Binds
<1>4. CASE PostReply(t) \/ PostCancel(t)
  <2>1. PICK k \in Turns : /\ Admit(k) /\ UNCHANGED turn
                           /\ req'[t].turn = k /\ req'[t].run = turn[k].run
    <3>1. CASE PostReply(t)
      <4>1. PICK k \in Turns : /\ Admit(k) /\ UNCHANGED turn
                               /\ req' = [req EXCEPT ![t] = [NoReq EXCEPT !.kind = "resume", !.turn = k,
                                     !.run = turn[k].run,
                                     !.next = AtMost(Len(log[turn[k].run]), EventsLimit) + 1]]
        BY <3>1 DEF PostReply
      <4>2. req'[t].turn = k /\ req'[t].run = turn[k].run
        BY <4>1 DEF HostTypeOK, NoReq
      <4>3. QED
        BY <4>1, <4>2
    <3>2. CASE PostCancel(t)
      <4>1. PICK k \in Turns : /\ Admit(k) /\ UNCHANGED turn
                               /\ req' = [req EXCEPT ![t] = [NoReq EXCEPT !.kind = "cancel", !.turn = k,
                                     !.run = turn[k].run, !.next = turn[k].seq + 1]]
        BY <3>2 DEF PostCancel
      <4>2. req'[t].turn = k /\ req'[t].run = turn[k].run
        BY <4>1 DEF HostTypeOK, NoReq
      <4>3. QED
        BY <4>1, <4>2
    <3>3. QED
      BY <1>4, <3>1, <3>2
  <2>2. k \in disturbed' \/ \A u \in Threads : req[u].turn # k
    BY <2>1 DEF Admit
  <2>3. disturbed \subseteq disturbed'
    BY <2>1 DEF Admit
  <2>4. QED
    BY <2>1, <2>2, <2>3 DEF Binds
<1>5. CASE PostDelete(t)
  <2>1. UNCHANGED <<turn, disturbed>> /\ req'[t].run = NoRun /\ req'[t].turn = NoTurn
    BY <1>5 DEF PostDelete, HostTypeOK, NoReq
  <2>2. QED
    BY <1>0, <2>1 DEF Binds
<1>6. CASE Bind(t)
  <2>1. ASSUME NEW r \in Runs, NEW s, NEW g, Begin(t, r, s, g, NoRun, "started"),
               req' = [req EXCEPT ![t].run = r]
        PROVE  TakesUp(t) /\ req'[t].turn = req[t].turn
    <3>1. req'[t].turn = req[t].turn /\ req'[t].run = r
      BY <1>0, <2>1 DEF HostTypeOK, Req
    <3>2. row[r].state = "absent" /\ row'[r].state = "running" /\ pc'[t] = "started" /\ cur'[t] = r
      BY <2>1 DEF Begin, CreateRun, TypeOK, Goto
    <3>3. QED
      BY <1>6, <3>1, <3>2 DEF Bind
  <2>2. UNCHANGED <<turn, disturbed>>
    BY <1>6 DEF Bind
  <2>3. QED
    BY <1>1, <1>6, <2>1, <2>2 DEF Bind, Binds
<1>7. CASE Cancel(t) \/ Native(t) \/ Construct(t)
  BY <1>1, <1>2, <1>7 DEF Cancel, Native, Construct, hvars
<1>8. CASE Delete(t)
  <2>1. /\ turn' = [k \in Turns |-> IF k \in req[t].seen
                                    THEN [turn[k] EXCEPT !.state = "deleted"] ELSE turn[k]]
        /\ Reply(t) /\ UNCHANGED disturbed
    BY <1>8 DEF Delete
  <2>2. \A j \in Turns : turn'[j].run = turn[j].run
    BY <2>1 DEF HostTypeOK, HostRow
  <2>3. QED
    BY <1>0, <2>1, <2>2 DEF Reply, HostTypeOK, Binds
\* The handler goes on with what it is about.
<1>9. ASSUME NEW q, req' = [req EXCEPT ![t] = q], q.turn = req[t].turn, q.run = req[t].run,
             UNCHANGED <<turn, disturbed>>
      PROVE  Binds(t) /\ TakesUp(t) /\ Enters(t)
  BY <1>9 DEF HostTypeOK, Binds
<1>10. CASE Collect(t)
  <2>1. PICK n : req' = [req EXCEPT ![t].last = n] /\ UNCHANGED <<turn, disturbed>>
    BY <1>10 DEF Collect
  <2>2. req' = [req EXCEPT ![t] = [req[t] EXCEPT !.last = n]]
    BY <2>1
  <2>3. QED
    BY <1>0, <1>9, <2>1, <2>2 DEF Req
<1>11. CASE ReadMark(t) \/ ReadRecord(t)
  <2>1. Reply(t) \/ \E c, b : req' = [req EXCEPT ![t].copy = c, ![t].linked = b]
    BY <1>11 DEF ReadMark, ReadRecord, ReadRow
  <2>2. UNCHANGED <<turn, disturbed>>
    BY <1>11 DEF ReadMark, ReadRecord
  <2>3. ASSUME NEW c, NEW b, req' = [req EXCEPT ![t].copy = c, ![t].linked = b]
        PROVE  Binds(t) /\ TakesUp(t) /\ Enters(t)
    <3>1. req' = [req EXCEPT ![t] = [req[t] EXCEPT !.copy = c, !.linked = b]]
      BY <2>3 DEF HostTypeOK
    <3>2. QED
      BY <1>0, <1>9, <2>2, <3>1 DEF Req
  <2>4. QED
    BY <1>1, <2>1, <2>2, <2>3
<1>12. CASE WriteMark(t)
  <2>1. \A j \in Turns : turn'[j].run = turn[j].run
    BY <1>12 DEF WriteMark, HostTypeOK, HostRow
  <2>2. (Reply(t) \/ UNCHANGED req) /\ UNCHANGED disturbed
    BY <1>12 DEF WriteMark
  <2>3. QED
    BY <1>0, <2>1, <2>2 DEF Reply, HostTypeOK, Binds
<1>13. CASE WriteRecord(t) /\ ~ Gone(t)
  <2> DEFINE k == req[t].turn
             c == req[t].copy
             r == req[t].run
             n == req[t].next
  <2>1. PICK state \in StatesAfter(c, log[r][n]) :
          turn' = [turn EXCEPT ![k] = Merged(k, c, Recorded(c, r, n, state))]
    BY <1>13 DEF WriteRecord
  <2>2. /\ UNCHANGED disturbed
        /\ req' = [req EXCEPT ![t].next = @ + 1, ![t].copy = NoTurnRow, ![t].linked = FALSE]
    BY <1>13 DEF WriteRecord
  <2>3. req'[t].turn = k /\ req'[t].run = r
    BY <1>0, <2>2 DEF HostTypeOK, Req
  <2>4. k \in Turns /\ r \in Runs /\ turn[k] \in HostRow /\ c \in HostRow /\ n \in Nat
    BY <1>0, <1>13 DEF WriteRecord, HostTypeOK, Req
  <2>5. Recorded(c, r, n, state).run = r
    BY <2>4 DEF Recorded, HostRow
  <2>6. PICK new : new = Recorded(c, r, n, state)
    OBVIOUS
  <2>7. Merged(k, c, new).run \in {turn[k].run, r}
    <3>1. DOMAIN turn[k] = {"state", "session", "run", "seq", "text"}
      BY <2>4 DEF HostRow
    <3>2. QED
      BY <2>5, <2>6, <3>1 DEF Merged
  <2>8. \A j \in Turns : turn'[j] = IF j = k THEN Merged(k, c, new) ELSE turn[j]
    BY <2>1, <2>4, <2>6 DEF HostTypeOK
  <2>9. Binds(t)
    BY <2>7, <2>8 DEF Binds
  <2>10. QED
    BY <2>2, <2>3, <2>9
<1>14. CASE WriteRecord(t) /\ Gone(t)
  BY <1>1, <1>14 DEF WriteRecord
<1>15. QED
  BY <1>3, <1>4, <1>5, <1>6, <1>7, <1>8, <1>10, <1>11, <1>12, <1>13, <1>14
  DEF Posts, Handles, Drives

\* A turn gets a run only from the handler that has just started it.
LEMMA OwnersKept ==
  ASSUME TypeOK, HostTypeOK, HostInv, NEW t \in Threads, Posts(t) \/ Handles(t) \/ Drives(t),
         NEW k \in Turns, NEW r \in Runs, Owns(k, r)'
  PROVE  \/ Owns(k, r)
         \/ /\ k = req[t].turn /\ req'[t].turn = k /\ req'[t].run = r
            /\ row[r].state = "absent" /\ row'[r].state = "running"
            /\ pc'[t] = "started" /\ cur'[t] = r
<1>1. Binds(t) /\ TakesUp(t)
  BY ReqMoves
<1>2. CASE turn'[k].run = r
  BY <1>1, <1>2 DEF Binds, Owns
<1>3. ASSUME NEW u \in Threads, req'[u].turn = k, req'[u].run = r, u # t
      PROVE  Owns(k, r)
  <2>1. req'[u] = req[u]
    BY <1>3, HandlersAside DEF Aside
  <2>2. QED
    BY <1>3, <2>1 DEF Owns
<1>4. CASE req'[t].turn = k /\ req'[t].run = r
  BY <1>1, <1>4, StoreAssumption DEF TakesUp, Owns
<1>5. QED
  BY <1>2, <1>3, <1>4 DEF Owns

LEMMA DriveStep ==
  ASSUME TypeOK, ExecutorInv, HostTypeOK, HostInv, DriveInv, [Next]_evars,
         NEW t \in Threads, Posts(t) \/ Handles(t) \/ Drives(t)
  PROVE  DriveInv'
<1>1. Aside(t) /\ Enters(t)
  BY HandlersAside, ReqMoves
<1>2. ASSUME NEW u \in Threads PROVE JoinOK(u)'
  <2>1. CASE u = t
    BY <2>1, JoinStep DEF DriveInv
  <2>2. CASE u # t
    BY <1>1, <2>2 DEF Aside, DriveInv, JoinOK
  <2>3. QED
    BY <2>1, <2>2
<1>3. ASSUME NEW r \in Runs, NEW k \in Turns, Owns(k, r)'
      PROVE  row'[r].state # "absent"
  BY <1>3, OwnersKept, RunsStay DEF DriveInv, OwnOK
<1>4. ASSUME NEW r \in Runs, NEW j \in Turns, NEW k \in Turns, Owns(j, r)', Owns(k, r)'
      PROVE  j = k
  <2>1. CASE row[r].state = "absent"
    <3>1. ~ Owns(j, r) /\ ~ Owns(k, r)
      BY <2>1 DEF DriveInv, OwnOK
    <3>2. j = req[t].turn /\ k = req[t].turn
      BY <1>4, <3>1, OwnersKept
    <3>3. QED
      BY <3>2
  <2>2. CASE row[r].state # "absent"
    <3>1. Owns(j, r) /\ Owns(k, r)
      BY <1>4, <2>2, OwnersKept
    <3>2. QED
      BY <3>1 DEF DriveInv, OwnOK
  <2>3. QED
    BY <2>1, <2>2
<1>5. ASSUME NEW k \in Turns, k \notin disturbed', NEW x \in Threads, NEW y \in Threads,
             req'[x].turn = k, req'[y].turn = k, x # y
      PROVE  FALSE
  <2>1. Alone(k)
    BY <1>1, <1>5 DEF Enters, DriveInv
  <2>2. \A u \in Threads \ {t} : req'[u] = req[u]
    BY <1>1 DEF Aside
  <2>3. CASE x # t /\ y # t
    BY <1>5, <2>1, <2>2, <2>3 DEF Alone
  <2>4. ASSUME NEW u \in Threads \ {t}, req[u].turn = k, req'[t].turn = k
        PROVE  FALSE
    BY <1>1, <1>5, <2>1, <2>4 DEF Enters, Alone
  <2>5. QED
    BY <1>5, <2>2, <2>3, <2>4
<1>6. QED
  BY <1>2, <1>3, <1>4, <1>5 DEF DriveInv, OwnOK, Alone

LEMMA DriveCrash ==
  ASSUME HostTypeOK, DriveInv, HostCrash
  PROVE  DriveInv'
<1>1. /\ \A t \in Threads : hpc'[t] = "free" /\ req'[t] = NoReq /\ pc'[t] = "idle" /\ cur'[t] = NoRun
      /\ turn' = turn /\ row' = row
  BY DEF HostCrash, Crash
<1>2. NoReq.turn = NoTurn /\ NoReq.run = NoRun /\ NoTurn \notin Turns
  BY HostAssumption DEF NoReq
<1>3. \A t \in Threads : JoinOK(t)'
  BY <1>1, <1>2 DEF JoinOK, NotAtWork
<1>4. \A k \in Turns, r \in Runs : Owns(k, r)' => Owns(k, r)
  BY <1>1, <1>2 DEF Owns
<1>5. OwnOK'
  BY <1>1, <1>4 DEF DriveInv, OwnOK
<1>6. \A k \in Turns : Alone(k)'
  BY <1>1, <1>2 DEF Alone
<1>7. QED
  BY <1>3, <1>5, <1>6 DEF DriveInv

\* A run whose turn no two requests were about, and no crash, is as its executor,
\* or the last request, left it.
RunInv == \A k \in Turns \ disturbed, r \in Runs : Owns(k, r) => RunOK(r)

\* One thread at most is about such a run.
Sole(k, r) ==
  /\ \A u \in Threads : cur[u] = r => pc[u] \notin NotAtWork /\ req[u].turn = k
  /\ \A u, v \in Threads : cur[u] = r /\ cur[v] = r => u = v

SoleInv == \A k \in Turns \ disturbed, r \in Runs : Owns(k, r) => Sole(k, r)

LEMMA SoleDriver == HostTypeOK /\ DriveInv => SoleInv
<1> SUFFICES ASSUME HostTypeOK, DriveInv,
                    NEW k \in Turns, k \notin disturbed, NEW r \in Runs, Owns(k, r)
             PROVE  Sole(k, r)
  BY DEF SoleInv
<1>1. ASSUME NEW u \in Threads, cur[u] = r PROVE pc[u] \notin NotAtWork /\ req[u].turn = k
  <2>1. r # NoRun /\ JoinOK(u)
    BY StoreAssumption DEF DriveInv
  <2>2. hpc[u] = "native" /\ req[u].run = r /\ pc[u] \notin NotAtWork
    BY <1>1, <2>1 DEF JoinOK
  <2>3. req[u].turn \in Turns
    BY <2>2 DEF HostTypeOK
  <2>4. Owns(req[u].turn, r)
    BY <2>2 DEF Owns
  <2>5. QED
    BY <2>2, <2>3, <2>4 DEF DriveInv, OwnOK
<1>2. Alone(k)
  BY DEF DriveInv
<1>3. QED
  BY <1>1, <1>2 DEF Alone, Sole

LEMMA RunInvStep ==
  ASSUME TypeOK, ExecutorInv, CloserInv, HostTypeOK, HostInv, DriveInv, RunInv, [Next]_evars,
         HostTypeOK', NEW t \in Threads, Posts(t) \/ Handles(t) \/ Drives(t)
  PROVE  RunInv'
<1> SUFFICES ASSUME NEW k \in Turns, k \notin disturbed', NEW r \in Runs, Owns(k, r)'
             PROVE  RunOK(r)'
  BY DEF RunInv
<1>1. DriveInv' /\ k \notin disturbed
  BY DriveStep, ReqMoves DEF Enters
<1>2. SoleInv'
  BY <1>1, SoleDriver, PTL
<1>3. \A u, v \in Threads : cur'[u] = r /\ cur'[v] = r => u = v
  BY <1>2 DEF SoleInv, Sole
<1>4. CASE Owns(k, r)
  <2>1. RunOK(r) /\ row[r].state # "absent"
    BY <1>1, <1>4 DEF RunInv, DriveInv, OwnOK
  <2>2. /\ \A u \in Threads : cur[u] = r => pc[u] \notin NotAtWork
        /\ \A u, v \in Threads : cur[u] = r /\ cur[v] = r => u = v
    BY <1>1, <1>4, SoleDriver DEF SoleInv, Sole
  <2>3. CASE UNCHANGED evars
    BY <2>1, <2>3 DEF evars, RunOK, PhaseOK, Rest, EndsIn
  <2>4. CASE BeginBuild(t) \/ Request(t) \/ Execute(t)
    <3>1. ASSUME cur'[t] = r, cur[t] # r, NEW u \in Threads, cur[u] = r
          PROVE  FALSE
      <4>1. cur'[u] = cur[u] /\ u # t
        BY <3>1, HandlersAside DEF Aside
      <4>2. QED
        BY <1>3, <3>1, <4>1
    <3>2. QED
      BY <2>1, <2>2, <2>4, <3>1, RunKept
  <2>5. QED
    BY <2>3, <2>4, HandlersAside
<1>5. CASE row'[r].state = "running" /\ pc'[t] = "started" /\ cur'[t] = r
  <2>1. ASSUME NEW u \in Threads, cur'[u] = r PROVE PhaseOK(u)' /\ u = t
    BY <1>3, <1>5, <2>1 DEF PhaseOK
  <2>2. QED
    BY <1>5, <2>1 DEF RunOK
<1>6. QED
  BY <1>4, <1>5, OwnersKept

LEMMA RunInvCrash ==
  ASSUME HostTypeOK, DriveInv, RunInv, HostCrash
  PROVE  RunInv'
<1> SUFFICES ASSUME NEW k \in Turns, k \notin disturbed', NEW r \in Runs, Owns(k, r)'
             PROVE  RunOK(r)'
  BY DEF RunInv
<1>1. /\ \A t \in Threads : req'[t] = NoReq /\ cur'[t] = NoRun
      /\ turn' = turn /\ row' = row /\ log' = log
      /\ disturbed' = disturbed \cup ({req[t].turn : t \in Threads} \cap Turns)
  BY DEF HostCrash, Crash
<1>2. NoReq.turn = NoTurn /\ NoTurn \notin Turns /\ NoRun \notin Runs
  BY HostAssumption, StoreAssumption DEF NoReq
<1>3. Owns(k, r) /\ k \notin disturbed
  BY <1>1, <1>2 DEF Owns
<1>4. \A u \in Threads : cur[u] # r
  <2>1. ASSUME NEW u \in Threads, cur[u] = r PROVE FALSE
    <3>1. req[u].turn = k
      BY <1>3, <2>1, SoleDriver DEF SoleInv, Sole
    <3>2. QED
      BY <1>1, <3>1
  <2>2. QED
    BY <2>1
<1>5. Rest(r)
  BY <1>3, <1>4 DEF RunInv, RunOK
<1>6. QED
  BY <1>1, <1>2, <1>5 DEF RunOK, Rest, EndsIn

-----------------------------------------------------------------------------
(* What a turn shows.  A handler records the events of its run in their order,  *)
(* from the first one the row does not tell of to the last one it has read.     *)

\* The turn can still be answered for, and its run's events fit the reads of them.
Live(k) == Stored(k) /\ exists[turn[k].session]
Fits(r) == Len(log[r]) <= EventsLimit /\ (row[r].state = "cancelled" => Len(log[r]) <= ReplayLimit)
Sure(k, r) == k \notin disturbed /\ Live(k) /\ Fits(r)

DeltasTo(r, m) == Cardinality({i \in DOMAIN log[r] : i <= m /\ log[r][i] = "answer_delta"})

\* The row tells of the first m events of the run, and of no other ...
Told(k, r, m) == turn[k].seq = m /\ turn[k].text = DeltasTo(r, m) /\ m <= Len(log[r])

\* ... and its state is what the m-th calls for.
Shown(k, r, m) == m # 0 =>
  /\ log[r][m] = "wait_for_input" => turn[k].state = "awaiting_input"
  /\ log[r][m] = "done_completed" => turn[k].state = "completed"
  /\ log[r][m] = "done_cancelled" => turn[k].state = "cancelled"

\* What a handler knows, whoever else is at work.
KindOK(t) == LET r == req[t].run IN
  /\ hpc[t] = "bind" => /\ req[t].kind = "start" /\ req[t].next = 1
                        /\ turn[req[t].turn].seq = 0 /\ turn[req[t].turn].text = 0
  /\ hpc[t] = "cancel" => req[t].kind = "cancel"
  /\ hpc[t] = "native" /\ req[t].kind = "resume" =>
       IF pc[t] \in {"resume", "resumed"} THEN req[t].next <= Len(log[r]) + 1
                                          ELSE req[t].next <= Len(log[r])
  /\ hpc[t] \in {"mark", "marking"} => req[t].next <= req[t].last
  /\ req[t].kind = "cancel" /\ (hpc[t] \in Recording \/ (hpc[t] = "native" /\ pc[t] # "cancel"))
       => row[r].state = "cancelled"

\* ... and what it knows when it alone is about its turn.
HandlerOK(t) == LET k == req[t].turn
                    r == req[t].run
                    m == req[t].next - 1 IN
  hpc[t] \notin {"free", "delete", "bind"} /\ Sure(k, r) =>
    /\ Told(k, r, m)
    /\ Shown(k, r, m) \/ (hpc[t] \in Recording /\ m < req[t].last)
    /\ hpc[t] \in Recording => req[t].last = Len(log[r])
    /\ hpc[t] = "cancel" \/ (hpc[t] = "native" /\ pc[t] \in {"resume", "cancel"}) => m = Len(log[r])
    /\ hpc[t] = "recording" => req[t].copy = turn[k]

\* Between its requests a turn tells of every event.
TellsAll(k, r) == Told(k, r, Len(log[r])) /\ Shown(k, r, Len(log[r]))

IdleOK(k) == LET r == turn[k].run IN
  Sure(k, r) /\ r # NoRun /\ (\A t \in Threads : req[t].turn # k) => TellsAll(k, r)

NewTurnOK(k) == turn[k].state = "absent" => turn[k].seq = 0 /\ turn[k].text = 0

ShowInv == /\ \A t \in Threads : KindOK(t) /\ HandlerOK(t)
           /\ \A k \in Turns : IdleOK(k) /\ NewTurnOK(k)

\* The events a log has stay where they are.
LEMMA LogPrefix ==
  ASSUME TypeOK, [Next]_evars, NEW r \in Runs
  PROVE  /\ Len(log[r]) \in Nat /\ Len(log'[r]) \in Nat /\ Len(log'[r]) >= Len(log[r])
         /\ DOMAIN log[r] = 1..Len(log[r]) /\ DOMAIN log'[r] = 1..Len(log'[r])
         /\ \A i \in 1..Len(log[r]) : log'[r][i] = log[r][i]
<1>1. Len(log[r]) \in Nat /\ DOMAIN log[r] = 1..Len(log[r])
  BY DEF TypeOK
<1>2. CASE log' = log
  BY <1>1, <1>2
<1>3. ASSUME NEW q \in Runs, NEW k \in EventKinds, Append1(q, k), q # r
      PROVE  log'[r] = log[r]
  BY <1>3 DEF TypeOK, Append1
<1>4. ASSUME NEW k \in EventKinds, Append1(r, k)
      PROVE  /\ Len(log'[r]) = Len(log[r]) + 1 /\ DOMAIN log'[r] = 1..Len(log'[r])
             /\ \A i \in 1..Len(log[r]) : log'[r][i] = log[r][i]
  <2>1. log'[r] = Append(log[r], k) /\ log[r] \in Seq(EventKinds)
    BY <1>4 DEF TypeOK, Append1
  <2>2. QED
    BY <2>1
<1>5. QED
  BY <1>1, <1>2, <1>3, <1>4, LogMoves

LEMMA DeltasKept ==
  ASSUME TypeOK, [Next]_evars, NEW r \in Runs, NEW m \in Nat, m <= Len(log[r])
  PROVE  DeltasTo(r, m)' = DeltasTo(r, m)
<1>1. {i \in DOMAIN log'[r] : i <= m /\ log'[r][i] = "answer_delta"}
        = {i \in DOMAIN log[r] : i <= m /\ log[r][i] = "answer_delta"}
  BY LogPrefix
<1>2. QED
  BY <1>1 DEF DeltasTo

LEMMA NoDeltas ==
  ASSUME TypeOK, NEW r \in Runs
  PROVE  DeltasTo(r, 0) = 0
<1>1. {i \in DOMAIN log[r] : i <= 0 /\ log[r][i] = "answer_delta"} = {}
  BY DEF TypeOK
<1>2. QED
  BY <1>1, FS_EmptySet DEF DeltasTo

LEMMA NextDelta ==
  ASSUME TypeOK, NEW r \in Runs, NEW n \in Nat, n >= 1, n <= Len(log[r])
  PROVE  DeltasTo(r, n) = IF log[r][n] = "answer_delta" THEN DeltasTo(r, n - 1) + 1
                                                        ELSE DeltasTo(r, n - 1)
<1>1. DOMAIN log[r] = 1..Len(log[r]) /\ Len(log[r]) \in Nat
  BY DEF TypeOK
<1>2. PICK S : S = {i \in DOMAIN log[r] : i <= n - 1 /\ log[r][i] = "answer_delta"}
  OBVIOUS
<1>3. PICK T : T = {i \in DOMAIN log[r] : i <= n /\ log[r][i] = "answer_delta"}
  OBVIOUS
<1>4. T = IF log[r][n] = "answer_delta" THEN S \cup {n} ELSE S
  BY <1>1, <1>2, <1>3
<1>5. n \notin S /\ S \subseteq 1..n
  BY <1>1, <1>2
<1>6. IsFiniteSet(S)
  <2>1. 1 \in Int /\ n \in Int
    OBVIOUS
  <2>2. IsFiniteSet(1..n)
    BY <2>1, FS_Interval
  <2>3. QED
    BY <1>5, <2>2, FS_Subset
<1>7. Cardinality(T) = IF log[r][n] = "answer_delta" THEN Cardinality(S) + 1 ELSE Cardinality(S)
  BY <1>4, <1>5, <1>6, FS_AddElement
<1>8. QED
  BY <1>2, <1>3, <1>7 DEF DeltasTo

LEMMA AllDeltas ==
  ASSUME TypeOK, NEW r \in Runs
  PROVE  DeltasTo(r, Len(log[r])) = Count(r, {"answer_delta"})
<1>1. {i \in DOMAIN log[r] : i <= Len(log[r]) /\ log[r][i] = "answer_delta"}
        = {i \in DOMAIN log[r] : log[r][i] \in {"answer_delta"}}
  BY DEF TypeOK
<1>2. QED
  BY <1>1 DEF DeltasTo, Count

\* A log whose events fit has always fit.
LEMMA FitsBefore ==
  ASSUME TypeOK, ExecutorInv, [Next]_evars, NEW r \in Runs, Fits(r)'
  PROVE  Fits(r)
<1>1. Len(log[r]) \in Nat /\ Len(log'[r]) \in Nat /\ Len(log'[r]) >= Len(log[r])
  BY LogPrefix
<1>2. row[r].state = "cancelled" => row'[r].state = "cancelled"
  BY FinalRow DEF Terminal
<1>3. QED
  BY <1>1, <1>2, HostAssumption DEF Fits

\* What was told stays told.
LEMMA ToldStill ==
  ASSUME TypeOK, [Next]_evars, NEW r \in Runs, NEW k \in Turns, NEW m \in Nat,
         Told(k, r, m), turn'[k].seq = turn[k].seq, turn'[k].text = turn[k].text
  PROVE  /\ Told(k, r, m)'
         /\ Shown(k, r, m) /\ turn'[k].state = turn[k].state => Shown(k, r, m)'
<1>1. m <= Len(log[r]) /\ Len(log[r]) \in Nat
  BY LogPrefix DEF Told
<1>2. DeltasTo(r, m)' = DeltasTo(r, m)
  BY <1>1, DeltasKept
<1>3. m <= Len(log'[r])
  BY <1>1, LogPrefix
<1>4. m # 0 => log'[r][m] = log[r][m]
  BY <1>1, LogPrefix
<1>5. QED
  BY <1>2, <1>3, <1>4 DEF Told, Shown

\* A turn the step's handler is not about, and its run, are left alone.
LEMMA TurnElsewhere ==
  ASSUME TypeOK, HostTypeOK, NEW t \in Threads, Posts(t) \/ Handles(t) \/ Drives(t),
         NEW k \in Turns, req[t].turn # k, req'[t].turn # k
  PROVE  /\ turn'[k].seq = turn[k].seq /\ turn'[k].text = turn[k].text
         /\ turn'[k].run = turn[k].run
         /\ Live(k)' => turn'[k] = turn[k] /\ Live(k)
<1>1. turn[k] \in HostRow
  BY DEF HostTypeOK
<1>2. CASE turn'[k] = turn[k] /\ exists' = exists
  BY <1>2 DEF Live, Stored
<1>3. CASE PostTurn(t)
  <2>1. PICK j \in Turns, s \in Sessions :
          /\ turn' = [turn EXCEPT ![j].state = "running", ![j].session = s]
          /\ req' = [req EXCEPT ![t] = [NoReq EXCEPT !.kind = "start", !.turn = j]]
          /\ UNCHANGED exists
    BY <1>3 DEF PostTurn
  <2>2. j # k
    BY <2>1 DEF HostTypeOK, NoReq
  <2>3. turn'[k] = turn[k]
    BY <2>1, <2>2 DEF HostTypeOK
  <2>4. QED
    BY <1>2, <2>1, <2>3
<1>4. CASE Delete(t)
  <2>1. /\ turn' = [j \in Turns |-> IF j \in req[t].seen
                                    THEN [turn[j] EXCEPT !.state = "deleted"] ELSE turn[j]]
        /\ exists' = [exists EXCEPT ![req[t].copy.session] = FALSE]
    BY <1>4 DEF Delete
  <2>2. turn'[k] = turn[k] \/ turn'[k] = [turn[k] EXCEPT !.state = "deleted"]
    BY <2>1
  <2>3. \A s \in Sessions : exists'[s] => exists[s]
    BY <2>1 DEF HostTypeOK
  <2>4. CASE turn'[k] = turn[k]
    BY <1>1, <2>3, <2>4 DEF Live, Stored, HostRow
  <2>5. CASE turn'[k] = [turn[k] EXCEPT !.state = "deleted"]
    BY <1>1, <2>5 DEF Live, Stored, HostRow
  <2>6. QED
    BY <2>2, <2>4, <2>5
<1>5. CASE PostReply(t) \/ PostCancel(t) \/ PostDelete(t) \/ Bind(t) \/ Cancel(t) \/ Collect(t)
  BY <1>2, <1>5 DEF PostReply, PostCancel, PostDelete, Bind, Cancel, Collect
<1>6. CASE ReadMark(t) \/ ReadRecord(t) \/ Construct(t) \/ Native(t)
  BY <1>2, <1>6 DEF ReadMark, ReadRecord, Construct, Native, hvars
<1>7. CASE WriteMark(t) \/ WriteRecord(t)
  <2>1. turn'[k] = turn[k] /\ exists' = exists
    BY <1>7 DEF WriteMark, WriteRecord, HostTypeOK
  <2>2. QED
    BY <1>2, <2>1
<1>8. QED
  BY <1>3, <1>4, <1>5, <1>6, <1>7 DEF Posts, Handles, Drives

LEMMA RunElsewhere ==
  ASSUME TypeOK, ExecutorInv, HostTypeOK, HostInv, DriveInv, NEW t \in Threads,
         Posts(t) \/ Handles(t) \/ Drives(t),
         NEW k \in Turns, req[t].turn # k, NEW r \in Runs, Owns(k, r)
  PROVE  log'[r] = log[r]
<1>1. CASE log' = log
  BY <1>1
<1>2. CASE cur[t] \in Runs /\ \E e \in EventKinds : Append1(cur[t], e)
  <2>1. cur[t] # r
    <3>1. ASSUME cur[t] = r PROVE FALSE
      <4>1. hpc[t] = "native" /\ req[t].run = r
        BY <3>1, StoreAssumption DEF DriveInv, JoinOK
      <4>2. req[t].turn \in Turns
        BY <4>1 DEF HostTypeOK
      <4>3. Owns(req[t].turn, r)
        BY <4>1 DEF Owns
      <4>4. QED
        BY <4>2, <4>3 DEF DriveInv, OwnOK
    <3>2. QED
      BY <3>1
  <2>2. QED
    BY <1>2, <2>1 DEF TypeOK, Append1
<1>3. CASE UNCHANGED evars
  BY <1>3 DEF evars
<1>4. QED
  BY <1>1, <1>2, <1>3, HandlersAside, LogElsewhere

\* The other handlers, and the turns nobody is about.
LEMMA OthersShow ==
  ASSUME TypeOK, ExecutorInv, HostTypeOK, HostInv, DriveInv, ShowInv, [Next]_evars, HostInv',
         NEW t \in Threads, Posts(t) \/ Handles(t) \/ Drives(t), NEW u \in Threads \ {t}
  PROVE  KindOK(u)' /\ HandlerOK(u)'
<1>0. PICK k, r, m : k = req[u].turn /\ r = req[u].run /\ m = req[u].next - 1
  OBVIOUS
<1>1. hpc'[u] = hpc[u] /\ req'[u] = req[u] /\ pc'[u] = pc[u]
  BY HandlersAside DEF Aside
<1>2. KindOK(u) /\ HandlerOK(u) /\ req[u] \in Req /\ RangeOK(u) /\ BoundOK(u)
  BY DEF ShowInv, HostTypeOK, HostInv
<1>3. KindOK(u)'
  <2>1. CASE hpc[u] = "bind"
    <3>1. k \in Turns /\ turn[k].run = NoRun
      BY <1>0, <1>2, <2>1 DEF HostTypeOK, BoundOK
    <3>2. req[t].turn # k
      BY <1>0, <3>1 DEF HostInv, UnboundOK
    <3>3. turn'[k].run = NoRun
      BY <3>1, <3>2, ReqMoves DEF Binds
    <3>4. req'[t].turn # k
      BY <1>0, <1>1, <3>1, <3>3 DEF HostInv, UnboundOK
    <3>5. turn'[k].seq = turn[k].seq /\ turn'[k].text = turn[k].text
      BY <3>1, <3>2, <3>4, TurnElsewhere
    <3>6. QED
      BY <1>0, <1>1, <1>2, <2>1, <3>5 DEF KindOK, Recording
  <2>2. CASE hpc[u] \in {"free", "delete", "cancel"}
    BY <1>1, <1>2, <2>2 DEF KindOK, Recording
  <2>3. CASE hpc[u] \in {"native"} \cup Recording
    <3>1. r \in Runs
      BY <1>0, <2>3 DEF HostTypeOK, Recording
    <3>2. Len(log[r]) \in Nat /\ Len(log'[r]) \in Nat /\ Len(log'[r]) >= Len(log[r])
      BY <3>1, LogPrefix
    <3>3. row[r].state = "cancelled" => row'[r].state = "cancelled"
      BY <3>1, FinalRow DEF Terminal
    <3>4. req[u].next \in Nat
      BY <1>2 DEF Req
    <3>5. PICK n \in Nat, z \in Nat, i \in Nat : n = Len(log[r]) /\ z = Len(log'[r]) /\ i = req[u].next
      BY <3>2, <3>4
    <3>6. hpc[u] = "native" /\ req[u].kind = "resume" =>
            IF pc[u] \in {"resume", "resumed"} THEN i <= z + 1 ELSE i <= z
      <4>1. hpc[u] = "native" /\ req[u].kind = "resume" =>
              IF pc[u] \in {"resume", "resumed"} THEN i <= n + 1 ELSE i <= n
        BY <1>0, <1>2, <3>5 DEF KindOK
      <4>2. z >= n
        BY <3>2, <3>5
      <4>3. QED
        BY <4>1, <4>2
    <3>7. hpc[u] \in {"mark", "marking"} => i <= req[u].last
      BY <1>2, <3>5 DEF KindOK
    <3>8. req[u].kind = "cancel" /\ (hpc[u] \in Recording \/ (hpc[u] = "native" /\ pc[u] # "cancel"))
            => row'[r].state = "cancelled"
      BY <1>0, <1>2, <3>3 DEF KindOK
    <3>9. hpc[u] \notin {"bind", "cancel"}
      BY <2>3 DEF Recording
    <3>10. QED
      BY <1>0, <1>1, <3>5, <3>6, <3>7, <3>8, <3>9 DEF KindOK
  <2>4. QED
    BY <2>1, <2>2, <2>3 DEF HostTypeOK, HostSteps, Recording
<1>4. HandlerOK(u)'
  <2>1. SUFFICES ASSUME hpc[u] \notin {"free", "delete", "bind"}, Sure(k, r)'
                 PROVE  /\ Told(k, r, m)'
                        /\ Shown(k, r, m)' \/ (hpc[u] \in Recording /\ m < req[u].last)
                        /\ hpc[u] \in Recording => req[u].last = Len(log'[r])
                        /\ hpc[u] = "cancel" \/ (hpc[u] = "native" /\ pc[u] \in {"resume", "cancel"})
                             => m = Len(log'[r])
                        /\ hpc[u] = "recording" => req[u].copy = turn'[k]
    BY <1>0, <1>1 DEF HandlerOK
  <2>2. k \in Turns /\ r \in Runs /\ m \in Nat
    BY <1>0, <1>2, <2>1 DEF HostTypeOK, RangeOK, Req
  <2>3. k \notin disturbed /\ k \notin disturbed'
    BY <2>1, ReqMoves DEF Sure, Enters
  <2>4. req[t].turn # k /\ req'[t].turn # k
    BY <1>0, <2>2, <2>3, ReqMoves DEF Enters, DriveInv, Alone
  <2>5. turn'[k] = turn[k] /\ Live(k)
    BY <2>1, <2>2, <2>4, TurnElsewhere DEF Sure
  <2>6. Owns(k, r)
    BY <1>0 DEF Owns
  <2>7. log'[r] = log[r]
    BY <2>2, <2>4, <2>6, RunElsewhere
  <2>8. Fits(r)
    BY <2>1, <2>2, FitsBefore DEF Sure
  <2>9. /\ Told(k, r, m)
        /\ Shown(k, r, m) \/ (hpc[u] \in Recording /\ m < req[u].last)
        /\ hpc[u] \in Recording => req[u].last = Len(log[r])
        /\ hpc[u] = "cancel" \/ (hpc[u] = "native" /\ pc[u] \in {"resume", "cancel"}) => m = Len(log[r])
        /\ hpc[u] = "recording" => req[u].copy = turn[k]
    BY <1>0, <1>2, <2>1, <2>3, <2>5, <2>8 DEF HandlerOK, Sure
  <2>10. Told(k, r, m)' /\ (Shown(k, r, m) => Shown(k, r, m)')
    BY <2>2, <2>5, <2>9, ToldStill
  <2>11. QED
    BY <2>5, <2>7, <2>9, <2>10
<1>5. QED
  BY <1>3, <1>4

\* A turn the handler was not about.
LEMMA OthersIdle ==
  ASSUME TypeOK, ExecutorInv, HostTypeOK, HostInv, DriveInv, ShowInv, [Next]_evars, HostTypeOK',
         NEW t \in Threads, Posts(t) \/ Handles(t) \/ Drives(t), NEW k \in Turns, req[t].turn # k
  PROVE  IdleOK(k)'
<1>0. PICK r : r = turn'[k].run
  OBVIOUS
<1>1. SUFFICES ASSUME Sure(k, r)', r # NoRun, \A u \in Threads : req'[u].turn # k
               PROVE  TellsAll(k, r)'
  BY <1>0 DEF IdleOK
<1>2. turn'[k] = turn[k] /\ Live(k)
  BY <1>1, TurnElsewhere DEF Sure
<1>3. r \in Runs /\ Owns(k, r)
  BY <1>0, <1>1, <1>2 DEF HostTypeOK, HostRow, Owns
<1>4. log'[r] = log[r]
  BY <1>3, RunElsewhere
<1>5. Fits(r)
  BY <1>1, <1>3, FitsBefore DEF Sure
<1>6. k \notin disturbed
  BY <1>1, ReqMoves DEF Sure, Enters
<1>7. \A u \in Threads : req[u].turn # k
  BY <1>1, HandlersAside DEF Aside
<1>8. TellsAll(k, r)
  BY <1>0, <1>1, <1>2, <1>5, <1>6, <1>7 DEF ShowInv, IdleOK, Sure
<1>9. PICK n \in Nat : n = Len(log[r])
  BY <1>3, LogLength
<1>10. Told(k, r, n)' /\ Shown(k, r, n)'
  BY <1>2, <1>3, <1>8, <1>9, ToldStill DEF TellsAll
<1>11. QED
  BY <1>4, <1>9, <1>10 DEF TellsAll

\* The response is sent.
LEMMA ShowReplies ==
  ASSUME TypeOK, HostTypeOK, HostInv, ShowInv, NEW t \in Threads, Reply(t), NEW k, k = req[t].turn,
         turn' = turn, log' = log, row' = row, exists' = exists, disturbed' = disturbed,
         hpc[t] \notin {"free", "delete"},
         NEW r, r = turn[k].run,
         r # NoRun /\ Sure(k, r) => TellsAll(k, r)
  PROVE  KindOK(t)' /\ HandlerOK(t)' /\ IdleOK(k)'
<1>1. hpc'[t] = "free" /\ req'[t] = NoReq
  BY DEF Reply, HGoto, HostTypeOK
<1>2. NoReq.kind = "none"
  BY DEF NoReq
<1>3. KindOK(t)' /\ HandlerOK(t)'
  BY <1>1, <1>2 DEF KindOK, HandlerOK, Recording
<1>4. IdleOK(k)'
  BY DEF IdleOK, Sure, Live, Stored, Fits, TellsAll, Told, Shown, DeltasTo
<1>5. QED
  BY <1>3, <1>4

\* A request that takes up a turn finds it idle.
LEMMA TakenIdle ==
  ASSUME HostTypeOK, HostInv, ShowInv, NEW k \in Turns, turn[k].run # NoRun, Admit(k),
         Sure(k, turn[k].run), k \notin disturbed'
  PROVE  TellsAll(k, turn[k].run)
<1>1. \A u \in Threads : req[u].turn # k
  BY DEF Admit
<1>2. QED
  BY <1>1 DEF ShowInv, IdleOK

LEMMA ShowPosts ==
  ASSUME TypeOK, HostTypeOK, HostInv, ShowInv, NEW t \in Threads, Posts(t)
  PROVE  KindOK(t)' /\ HandlerOK(t)'
<1>1. CASE PostTurn(t)
  <2>1. PICK k \in Turns, s \in Sessions :
          /\ turn[k].state = "absent"
          /\ turn' = [turn EXCEPT ![k].state = "running", ![k].session = s]
          /\ req' = [req EXCEPT ![t] = [NoReq EXCEPT !.kind = "start", !.turn = k]]
          /\ HGoto(t, "bind")
    BY <1>1 DEF PostTurn
  <2>2. hpc'[t] = "bind" /\ req'[t].kind = "start" /\ req'[t].next = 1 /\ req'[t].turn = k
    BY <2>1 DEF HostTypeOK, HGoto, NoReq
  <2>3. turn'[k].seq = turn[k].seq /\ turn'[k].text = turn[k].text
    BY <2>1 DEF HostTypeOK, HostRow
  <2>4. turn[k].seq = 0 /\ turn[k].text = 0
    BY <2>1 DEF ShowInv, NewTurnOK
  <2>5. QED
    BY <2>2, <2>3, <2>4 DEF KindOK, HandlerOK, Recording
<1>2. CASE PostReply(t)
  <2>1. PICK k \in Turns :
          /\ Stored(k) /\ turn[k].run # NoRun /\ ResumeLoad(t) /\ Admit(k) /\ UNCHANGED <<exists, turn>>
          /\ req' = [req EXCEPT ![t] = [NoReq EXCEPT !.kind = "resume", !.turn = k, !.run = turn[k].run,
                               !.next = AtMost(Len(log[turn[k].run]), EventsLimit) + 1]]
          /\ HGoto(t, "native")
    BY <1>2 DEF PostReply
  <2>2. PICK r \in Runs : r = turn[k].run
    BY <2>1 DEF HostTypeOK, HostRow
  <2>3. PICK n \in Nat : n = Len(log[r])
    BY <2>2, LogLength
  <2>4. PICK m \in Nat : m = AtMost(n, EventsLimit)
    BY HostAssumption DEF AtMost
  <2>5. /\ hpc'[t] = "native" /\ req'[t].kind = "resume" /\ req'[t].turn = k
        /\ req'[t].run = r /\ req'[t].next = m + 1
    BY <2>1, <2>2, <2>3, <2>4 DEF HostTypeOK, HGoto, NoReq
  <2>6. pc'[t] = "resume" /\ log' = log /\ row' = row
    BY <2>1 DEF ResumeLoad, Goto, TypeOK
  <2>7. KindOK(t)'
    <3>1. m + 1 <= n + 1
      BY <2>4, HostAssumption DEF AtMost
    <3>2. QED
      BY <2>3, <2>5, <2>6, <3>1 DEF KindOK, Recording
  <2>8. ASSUME Sure(k, r)' PROVE Told(k, r, m)' /\ Shown(k, r, m)' /\ m = Len(log'[r])
    <3>1. Sure(k, r) /\ k \notin disturbed'
      BY <2>1, <2>6, <2>8 DEF Sure, Live, Stored, Fits, Admit
    <3>2. TellsAll(k, r)
      BY <2>1, <2>2, <3>1, TakenIdle
    <3>3. m = n
      BY <2>3, <2>4, <3>1 DEF AtMost, Sure, Fits
    <3>4. QED
      BY <2>1, <2>3, <2>6, <3>2, <3>3 DEF TellsAll, Told, Shown, DeltasTo
  <2>9. HandlerOK(t)'
    <3>1. req'[t].next - 1 = m
      BY <2>5
    <3>2. QED
      BY <2>5, <2>8, <3>1 DEF HandlerOK, Recording
  <2>10. QED
    BY <2>7, <2>9
<1>3. CASE PostCancel(t)
  <2>1. PICK k \in Turns :
          /\ turn[k].run # NoRun /\ Admit(k) /\ UNCHANGED <<evars, exists, turn>>
          /\ req' = [req EXCEPT ![t] = [NoReq EXCEPT !.kind = "cancel", !.turn = k,
                                        !.run = turn[k].run, !.next = turn[k].seq + 1]]
          /\ HGoto(t, "cancel")
    BY <1>3 DEF PostCancel
  <2>2. PICK r \in Runs, m \in Nat : r = turn[k].run /\ m = turn[k].seq
    BY <2>1 DEF HostTypeOK, HostRow
  <2>3. /\ hpc'[t] = "cancel" /\ req'[t].kind = "cancel" /\ req'[t].turn = k
        /\ req'[t].run = r /\ req'[t].next = m + 1
    BY <2>1, <2>2 DEF HostTypeOK, HGoto, NoReq
  <2>4. log' = log /\ row' = row
    BY <2>1 DEF evars
  <2>5. KindOK(t)'
    BY <2>3 DEF KindOK, Recording
  <2>6. ASSUME Sure(k, r)' PROVE Told(k, r, m)' /\ Shown(k, r, m)' /\ m = Len(log'[r])
    <3>1. Sure(k, r) /\ k \notin disturbed'
      BY <2>1, <2>4, <2>6 DEF Sure, Live, Stored, Fits, Admit
    <3>2. TellsAll(k, r)
      BY <2>1, <2>2, <3>1, TakenIdle
    <3>3. QED
      BY <2>1, <2>2, <2>4, <3>2 DEF TellsAll, Told, Shown, DeltasTo
  <2>7. HandlerOK(t)'
    <3>1. req'[t].next - 1 = m
      BY <2>3
    <3>2. QED
      BY <2>3, <2>6, <3>1 DEF HandlerOK, Recording
  <2>8. QED
    BY <2>5, <2>7
<1>4. CASE PostDelete(t)
  <2>1. hpc'[t] = "delete" /\ req'[t].kind = "delete"
    BY <1>4 DEF PostDelete, HostTypeOK, HGoto, NoReq
  <2>2. QED
    BY <2>1 DEF KindOK, HandlerOK, Recording
<1>5. QED
  BY <1>1, <1>2, <1>3, <1>4 DEF Posts

\* A handler outside the executor, whatever its thread does.
LEMMA ShowAside ==
  ASSUME TypeOK, ExecutorInv, HostTypeOK, HostInv, ShowInv, [Next]_evars, NEW t \in Threads,
         UNCHANGED <<hpc, req, turn, exists, disturbed>>, hpc[t] # "native", log' = log,
         NEW k, k = req[t].turn
  PROVE  KindOK(t)' /\ HandlerOK(t)' /\ IdleOK(k)'
<1>1. KindOK(t) /\ HandlerOK(t) /\ req[t] \in Req /\ RangeOK(t)
  BY DEF ShowInv, HostTypeOK, HostInv
<1>2. KindOK(t)'
  <2>1. CASE hpc[t] \in Recording
    <3>1. PICK r \in Runs : r = req[t].run
      BY <2>1 DEF HostTypeOK, Recording
    <3>2. row[r].state = "cancelled" => row'[r].state = "cancelled"
      BY FinalRow DEF Terminal
    <3>3. QED
      BY <1>1, <2>1, <3>1, <3>2 DEF KindOK, Recording
  <2>2. CASE hpc[t] \notin Recording
    BY <1>1, <2>2 DEF KindOK, Recording
  <2>3. QED
    BY <2>1, <2>2
<1>3. HandlerOK(t)'
  <2>0. PICK r, m : r = req[t].run /\ m = req[t].next - 1
    OBVIOUS
  <2>1. SUFFICES ASSUME hpc[t] \notin {"free", "delete", "bind"}, Sure(k, r)'
                 PROVE  /\ Told(k, r, m)'
                        /\ Shown(k, r, m)' \/ (hpc[t] \in Recording /\ m < req[t].last)
                        /\ hpc[t] \in Recording => req[t].last = Len(log'[r])
                        /\ hpc[t] = "cancel" => m = Len(log'[r])
                        /\ hpc[t] = "recording" => req[t].copy = turn'[k]
    BY <2>0 DEF HandlerOK
  <2>2. k \in Turns /\ r \in Runs /\ m \in Nat
    BY <1>1, <2>0, <2>1 DEF HostTypeOK, RangeOK, Req
  <2>3. Sure(k, r)
    <3>1. Fits(r)
      BY <2>1, <2>2, FitsBefore DEF Sure
    <3>2. QED
      BY <2>1, <3>1 DEF Sure, Live, Stored
  <2>4. /\ Told(k, r, m)
        /\ Shown(k, r, m) \/ (hpc[t] \in Recording /\ m < req[t].last)
        /\ hpc[t] \in Recording => req[t].last = Len(log[r])
        /\ hpc[t] = "cancel" => m = Len(log[r])
        /\ hpc[t] = "recording" => req[t].copy = turn[k]
    BY <1>1, <2>0, <2>1, <2>3 DEF HandlerOK
  <2>5. Told(k, r, m)' /\ (Shown(k, r, m) => Shown(k, r, m)')
    BY <2>2, <2>4, ToldStill
  <2>6. QED
    BY <2>4, <2>5
<1>4. IdleOK(k)'
  BY DEF IdleOK
<1>5. QED
  BY <1>2, <1>3, <1>4

\* How a request enters the executor's loop, or is refused.
LEMMA AnswerSteps ==
  ASSUME TypeOK, NEW t \in Threads, Execute(t)
  PROVE  /\ pc[t] = "resume" => \/ pc'[t] = "resumed"
                                \/ pc'[t] = "idle" /\ UNCHANGED <<row, log>>
         /\ pc[t] = "resumed" => \E e \in EventKinds : Append1(cur[t], e)
         /\ pc[t] = "cancel" => \/ pc'[t] # "idle" /\ row'[cur[t]].state = "cancelled"
                                \/ pc'[t] = "idle" /\ UNCHANGED <<row, log>>
         /\ pc[t] \in NotAtWork => log' = log
<1>1. CASE ReadStale(t) \/ RecoverRun(t) \/ EndBuild(t)
  BY <1>1 DEF ReadStale, RecoverRun, EndBuild
<1>2. CASE ResumeCas(t)
  BY <1>2 DEF ResumeCas, Return, Goto, TypeOK, NotAtWork
<1>3. CASE EmitBegun(t)
  BY <1>3 DEF EmitBegun, Emit, EventKinds, NotAtWork
<1>4. CASE CancelCas(t)
  <2>1. cur[t] \in Runs
    BY <1>4, RowsOfThread DEF CancelCas
  <2>2. QED
    BY <1>4, <2>1, WrittenFields DEF CancelCas, Return, Goto, TypeOK, NotAtWork, Terminate, Written
<1>5. CASE pc[t] \notin {"resume", "resumed", "cancel"} \cup NotAtWork
  BY <1>5
<1>6. QED
  BY <1>1, <1>2, <1>3, <1>4, <1>5
  DEF Execute, NotAtWork, EmitCancelled, BeginRound, StreamItem, EmitDelta, StreamEnd, Flush,
      StreamTypeError, Complete, ProviderError, Settle, Continue, Finish, EmitResult, NextCall,
      RunTool, SaveResult, Ask, Asked, EmitWait, FailLoad, FailCas, EmitError

LEMMA ShowNative ==
  ASSUME TypeOK, ExecutorInv, HostTypeOK, HostInv, DriveInv, ShowInv, [Next]_evars,
         NEW t \in Threads, Native(t), NEW k, k = req[t].turn
  PROVE  KindOK(t)' /\ HandlerOK(t)' /\ IdleOK(k)'
<1>1. KindOK(t) /\ HandlerOK(t) /\ req[t] \in Req /\ RangeOK(t) /\ BoundOK(t) /\ JoinOK(t)
  BY DEF ShowInv, HostTypeOK, HostInv, DriveInv
<1>2. Execute(t) /\ pc[t] # "idle" /\ UNCHANGED <<exists, turn, disturbed>>
  BY ExecuteBusy DEF Native
<1>3. CASE hpc[t] # "native"
  <2>1. pc[t] \in NotAtWork
    BY <1>1, <1>3 DEF JoinOK
  <2>2. log' = log
    BY <1>2, <2>1, AnswerSteps
  <2>3. UNCHANGED <<hpc, req>>
    BY <2>1 DEF Native, NotAtWork
  <2>4. QED
    BY <1>2, <1>3, <2>2, <2>3, ShowAside
<1>4. CASE hpc[t] = "native"
  <2>1. PICK r, i, m : r = req[t].run /\ i = req[t].next /\ m = i - 1
    OBVIOUS
  <2>2. k \in Turns /\ r \in Runs /\ i \in Nat /\ m \in Nat
    <3>1. k \in Turns /\ r \in Runs
      BY <1>4, <2>1 DEF HostTypeOK
    <3>2. i \in Nat
      BY <1>1, <2>1 DEF Req
    <3>3. i >= 1
      BY <1>1, <1>4, <2>1 DEF RangeOK
    <3>4. QED
      BY <2>1, <3>1, <3>2, <3>3
  <2>3. cur[t] = r
    <3>1. pc[t] \notin NotAtWork
      BY <1>1, <1>2, <1>4 DEF JoinOK, NotAtWork
    <3>2. cur[t] \in Runs
      BY <3>1, RowsOfThread DEF NotAtWork
    <3>3. QED
      BY <1>1, <2>1, <3>2, StoreAssumption DEF JoinOK
  <2>4. PICK n \in Nat, z \in Nat : n = Len(log[r]) /\ z = Len(log'[r]) /\ z >= n
    BY <2>2, LogPrefix
  <2>5. Sure(k, r) => /\ Told(k, r, m) /\ Shown(k, r, m)
                      /\ pc[t] \in {"resume", "cancel"} => m = Len(log[r])
    BY <1>1, <1>4, <2>1 DEF HandlerOK, Recording
  <2>6. CASE pc[t] \in {"resume", "cancel"} /\ pc'[t] = "idle"
    <3>1. Reply(t) /\ row' = row /\ log' = log
      BY <1>2, <2>6, AnswerSteps DEF Native
    <3>2. turn[k].run # NoRun => turn[k].run = r
      BY <1>1, <1>4, <2>1 DEF BoundOK
    <3>3. turn[k].run # NoRun /\ Sure(k, turn[k].run) => TellsAll(k, turn[k].run)
      BY <2>5, <2>6, <3>2 DEF TellsAll
    <3>4. QED
      BY <1>2, <1>4, <3>1, <3>3, ShowReplies
  <2>7. CASE ~ (pc[t] \in {"resume", "cancel"} /\ pc'[t] = "idle")
    <3>1. UNCHANGED <<hpc, req>>
      BY <2>7 DEF Native
    <3>2. req[t].kind = "resume" =>
            IF pc'[t] \in {"resume", "resumed"} THEN i <= z + 1 ELSE i <= z
      <4>1. SUFFICES ASSUME req[t].kind = "resume"
                     PROVE  IF pc'[t] \in {"resume", "resumed"} THEN i <= z + 1 ELSE i <= z
        OBVIOUS
      <4>2. IF pc[t] \in {"resume", "resumed"} THEN i <= n + 1 ELSE i <= n
        BY <1>1, <1>4, <2>1, <2>4, <4>1 DEF KindOK
      <4>3. CASE pc[t] \notin {"resume", "resumed"}
        BY <2>2, <2>4, <4>2, <4>3
      <4>4. CASE pc[t] = "resume"
        <5>1. pc'[t] = "resumed"
          BY <1>2, <2>7, <4>4, AnswerSteps
        <5>2. QED
          BY <2>2, <2>4, <4>2, <4>4, <5>1
      <4>5. CASE pc[t] = "resumed"
        <5>1. PICK e \in EventKinds : Append1(r, e)
          BY <1>2, <2>3, <4>5, AnswerSteps
        <5>2. z = n + 1
          BY <2>2, <2>4, <5>1 DEF TypeOK, Append1
        <5>3. QED
          BY <2>2, <2>4, <4>2, <4>5, <5>2
      <4>6. QED
        BY <4>3, <4>4, <4>5
    <3>3. req[t].kind = "cancel" /\ pc'[t] # "cancel" => row'[r].state = "cancelled"
      <4>1. CASE pc[t] = "cancel"
        BY <1>2, <2>3, <2>7, <4>1, AnswerSteps
      <4>2. CASE pc[t] # "cancel"
        <5>1. req[t].kind = "cancel" => row[r].state = "cancelled"
          BY <1>1, <1>4, <2>1, <4>2 DEF KindOK
        <5>2. QED
          BY <2>2, <5>1, FinalRow DEF Terminal
      <4>3. QED
        BY <4>1, <4>2
    <3>4. KindOK(t)'
      BY <1>4, <2>1, <2>4, <3>1, <3>2, <3>3 DEF KindOK, Recording
    <3>5. pc'[t] \notin {"resume", "cancel"}
      BY <1>2, ExecuteFrames
    <3>6. ASSUME Sure(k, r)' PROVE Told(k, r, m)' /\ Shown(k, r, m)'
      <4>1. Fits(r)
        BY <2>2, <3>6, FitsBefore DEF Sure
      <4>2. Sure(k, r)
        BY <1>2, <3>6, <4>1 DEF Sure, Live, Stored
      <4>3. QED
        BY <1>2, <2>2, <2>5, <4>2, ToldStill
    <3>7. HandlerOK(t)'
      BY <1>4, <2>1, <3>1, <3>5, <3>6 DEF HandlerOK, Recording
    <3>8. IdleOK(k)'
      BY <3>1 DEF IdleOK
    <3>9. QED
      BY <3>4, <3>7, <3>8
  <2>8. QED
    BY <2>6, <2>7
<1>5. QED
  BY <1>3, <1>4

LEMMA ShowBinds ==
  ASSUME TypeOK, ExecutorInv, HostTypeOK, HostInv, ShowInv, [Next]_evars,
         NEW t \in Threads, Bind(t) \/ Cancel(t), NEW k, k = req[t].turn
  PROVE  KindOK(t)' /\ HandlerOK(t)' /\ IdleOK(k)'
<1>1. KindOK(t) /\ HandlerOK(t) /\ req[t] \in Req /\ RangeOK(t) /\ BoundOK(t)
  BY DEF ShowInv, HostTypeOK, HostInv
<1>2. UNCHANGED <<exists, turn, disturbed>> /\ k \in Turns /\ hpc[t] \in {"bind", "cancel"}
  BY DEF Bind, Cancel, HostTypeOK
<1>3. PICK r, m : r = req[t].run /\ m = req[t].next - 1
  OBVIOUS
<1>4. hpc[t] = "cancel" /\ Sure(k, r) => TellsAll(k, r)
  BY <1>1, <1>3 DEF HandlerOK, Recording, TellsAll
<1>5. turn[k].run # NoRun => hpc[t] = "cancel" /\ turn[k].run = r
  BY <1>1, <1>2, <1>3 DEF BoundOK
<1>6. CASE Reply(t) /\ UNCHANGED evars
  BY <1>2, <1>4, <1>5, <1>6, ShowReplies DEF evars
<1>7. ASSUME hpc[t] = "bind", NEW q \in Runs, NEW s, NEW g, Begin(t, q, s, g, NoRun, "started"),
             req' = [req EXCEPT ![t].run = q], HGoto(t, "native")
      PROVE  KindOK(t)' /\ HandlerOK(t)' /\ IdleOK(k)'
  <2>1. /\ hpc'[t] = "native" /\ req'[t].turn = k /\ req'[t].run = q
        /\ req'[t].kind = req[t].kind /\ req'[t].next = req[t].next
    BY <1>1, <1>7 DEF HostTypeOK, HGoto, Req
  <2>2. /\ req[t].kind = "start" /\ req[t].next = 1
        /\ turn[k].seq = 0 /\ turn[k].text = 0
    BY <1>1, <1>7 DEF KindOK
  <2>3. pc'[t] = "started" /\ log' = log
    BY <1>7 DEF Begin, Goto, TypeOK
  <2>4. KindOK(t)'
    BY <2>1, <2>2 DEF KindOK, Recording
  <2>5. Told(k, q, 0) /\ Shown(k, q, 0)
    BY <2>2, NoDeltas, LogPrefix DEF Told, Shown
  <2>6. Told(k, q, 0)' /\ Shown(k, q, 0)'
    BY <1>2, <2>5, ToldStill
  <2>7. HandlerOK(t)'
    <3>1. req'[t].next - 1 = 0
      BY <2>1, <2>2
    <3>2. QED
      BY <2>1, <2>3, <2>6, <3>1 DEF HandlerOK, Recording
  <2>8. IdleOK(k)'
    BY <2>1 DEF IdleOK
  <2>9. QED
    BY <2>4, <2>7, <2>8
<1>8. CASE hpc[t] = "cancel" /\ CancelLoad(t) /\ HGoto(t, "native") /\ UNCHANGED req
  <2>1. hpc'[t] = "native" /\ req' = req /\ pc'[t] = "cancel" /\ log' = log /\ row' = row
    BY <1>8 DEF CancelLoad, Goto, TypeOK, HostTypeOK, HGoto
  <2>2. KindOK(t)'
    <3>1. req[t].kind # "resume"
      BY <1>1, <1>8 DEF KindOK
    <3>2. QED
      BY <2>1, <3>1 DEF KindOK, Recording
  <2>3. Sure(k, r)' => Sure(k, r)
    BY <1>2, <2>1 DEF Sure, Live, Stored, Fits
  <2>4. Sure(k, r) => Told(k, r, m) /\ Shown(k, r, m) /\ m = Len(log[r])
    BY <1>1, <1>3, <1>8 DEF HandlerOK, Recording
  <2>5. Sure(k, r)' => Told(k, r, m)' /\ Shown(k, r, m)' /\ m = Len(log'[r])
    BY <1>2, <2>1, <2>3, <2>4 DEF Told, Shown, DeltasTo
  <2>6. HandlerOK(t)'
    BY <1>3, <2>1, <2>5 DEF HandlerOK, Recording
  <2>7. IdleOK(k)'
    BY <2>1 DEF IdleOK
  <2>8. QED
    BY <2>2, <2>6, <2>7
<1>9. QED
  BY <1>6, <1>7, <1>8 DEF Bind, Cancel

LEMMA ShowCollects ==
  ASSUME TypeOK, ExecutorInv, HostTypeOK, HostInv, ShowInv, [Next]_evars,
         NEW t \in Threads, Collect(t), NEW k, k = req[t].turn
  PROVE  KindOK(t)' /\ HandlerOK(t)' /\ IdleOK(k)'
<1>1. KindOK(t) /\ HandlerOK(t) /\ req[t] \in Req /\ RangeOK(t)
  BY DEF ShowInv, HostTypeOK, HostInv
<1>2. /\ UNCHANGED <<evars, exists, turn, disturbed>> /\ k \in Turns
      /\ hpc[t] = "native" /\ pc[t] = "idle"
  BY DEF Collect, HostTypeOK
<1>3. PICK r, i, m : r = req[t].run /\ i = req[t].next /\ m = i - 1
  OBVIOUS
<1>4. r \in Runs /\ i \in Nat /\ i >= 1 /\ m \in Nat
  <2>1. r \in Runs /\ i \in Nat
    BY <1>1, <1>2, <1>3 DEF HostTypeOK, Req
  <2>2. i >= 1
    BY <1>1, <1>3 DEF RangeOK
  <2>3. QED
    BY <1>3, <2>1, <2>2
<1>5. PICK n \in Nat : n = Len(log[r])
  BY <1>4, LogLength
<1>6. PICK p, z : p = Page(req[t]) /\ z = AtMost(n, p)
  OBVIOUS
<1>7. p = IF req[t].kind = "cancel" THEN ReplayLimit ELSE m + EventsLimit
  BY <1>3, <1>6 DEF Page
<1>8. p \in Nat
  BY <1>4, <1>7, HostAssumption
<1>9. PICK s \in {"mark", "record"} : HGoto(t, s) /\ (s = "mark" <=> req[t].kind = "resume")
  BY DEF Collect
<1>10. req' = [req EXCEPT ![t].last = z]
  BY <1>3, <1>5, <1>6 DEF Collect
<1>11. /\ hpc'[t] = s /\ req'[t].turn = k /\ req'[t].run = r /\ req'[t].kind = req[t].kind
       /\ req'[t].next = i /\ req'[t].last = z
  BY <1>1, <1>3, <1>9, <1>10 DEF HostTypeOK, HGoto, Req
<1>12. req[t].kind = "cancel" => row[r].state = "cancelled"
  BY <1>1, <1>2, <1>3 DEF KindOK
<1>13. KindOK(t)'
  <2>1. req[t].kind = "resume" => i <= z
    <3>1. req[t].kind = "resume" => i <= n
      BY <1>1, <1>2, <1>3, <1>5 DEF KindOK
    <3>2. req[t].kind = "resume" => i <= p
      BY <1>3, <1>4, <1>7, HostAssumption
    <3>3. QED
      BY <1>6, <3>1, <3>2 DEF AtMost
  <2>2. row' = row
    BY <1>2 DEF evars
  <2>3. QED
    BY <1>9, <1>11, <1>12, <2>1, <2>2 DEF KindOK, Recording
<1>14. ASSUME Sure(k, r)' PROVE Told(k, r, m)' /\ Shown(k, r, m)' /\ z = Len(log'[r])
  <2>1. Sure(k, r)
    BY <1>2, <1>14 DEF Sure, Live, Stored, Fits, evars
  <2>2. Told(k, r, m) /\ Shown(k, r, m)
    BY <1>1, <1>2, <1>3, <2>1 DEF HandlerOK, Recording
  <2>3. n <= p
    BY <1>4, <1>5, <1>7, <1>12, <2>1, HostAssumption DEF Sure, Fits
  <2>4. z = n
    BY <1>6, <2>3 DEF AtMost
  <2>5. QED
    BY <1>2, <1>5, <2>2, <2>4 DEF evars, Told, Shown, DeltasTo
<1>15. HandlerOK(t)'
  BY <1>3, <1>9, <1>11, <1>14 DEF HandlerOK, Recording
<1>16. IdleOK(k)'
  BY <1>11 DEF IdleOK
<1>17. QED
  BY <1>13, <1>15, <1>16

LEMMA ShowReads ==
  ASSUME TypeOK, ExecutorInv, HostTypeOK, HostInv, ShowInv, [Next]_evars,
         NEW t \in Threads, ReadMark(t) \/ ReadRecord(t), NEW k, k = req[t].turn
  PROVE  KindOK(t)' /\ HandlerOK(t)' /\ IdleOK(k)'
<1>1. KindOK(t) /\ HandlerOK(t) /\ req[t] \in Req /\ RangeOK(t) /\ BoundOK(t)
  BY DEF ShowInv, HostTypeOK, HostInv
<1>2. /\ UNCHANGED <<evars, exists, turn, disturbed>> /\ k \in Turns
      /\ hpc[t] \in {"mark", "record"} /\ hpc[t] \in Recording
  BY DEF ReadMark, ReadRecord, HostTypeOK, Recording
<1>3. PICK r, i, m, z : r = req[t].run /\ i = req[t].next /\ m = i - 1 /\ z = req[t].last
  OBVIOUS
<1>4. r \in Runs /\ i \in Nat /\ m \in Nat /\ z \in Nat
  <2>1. i \in Nat /\ z \in Nat
    BY <1>1, <1>3 DEF Req
  <2>2. r \in Runs
    BY <1>2, <1>3 DEF HostTypeOK, Recording
  <2>3. i >= 1
    BY <1>1, <1>2, <1>3 DEF RangeOK
  <2>4. QED
    BY <1>3, <2>1, <2>2, <2>3
<1>5. Sure(k, r) => /\ Told(k, r, m)
                    /\ Shown(k, r, m) \/ m < z
                    /\ z = Len(log[r])
  BY <1>1, <1>2, <1>3 DEF HandlerOK, Recording
<1>6. turn[k].run # NoRun => turn[k].run = r
  BY <1>1, <1>2, <1>3 DEF BoundOK
<1>7. CASE Reply(t) /\ ~ Stored(k)
  BY <1>2, <1>7, ShowReplies DEF Sure, Live, evars
<1>8. CASE Reply(t) /\ i > z
  <2>1. Sure(k, r) => TellsAll(k, r)
    <3>1. SUFFICES ASSUME Sure(k, r) PROVE TellsAll(k, r)
      OBVIOUS
    <3>2. PICK n \in Nat : n = Len(log[r])
      BY <1>4, LogLength
    <3>3. m <= n
      BY <1>5, <3>1, <3>2 DEF Told
    <3>4. m = n /\ ~ m < z
      BY <1>3, <1>4, <1>5, <1>8, <3>1, <3>2, <3>3
    <3>5. QED
      BY <1>5, <3>1, <3>2, <3>4 DEF TellsAll
  <2>2. QED
    BY <1>2, <1>6, <1>8, <2>1, ShowReplies DEF evars
<1>9. ASSUME NEW s \in {"marking", "recording"}, HGoto(t, s), s = "marking" => hpc[t] = "mark",
             req' = [req EXCEPT ![t].copy = turn[k], ![t].linked = exists[turn[k].session]]
      PROVE  KindOK(t)' /\ HandlerOK(t)' /\ IdleOK(k)'
  <2>0. PICK c, b : c = turn[k] /\ b = exists[turn[k].session]
    OBVIOUS
  <2>1. req' = [req EXCEPT ![t] = [req[t] EXCEPT !.copy = c, !.linked = b]]
    BY <1>9, <2>0 DEF HostTypeOK
  <2>2. /\ hpc'[t] = s /\ req'[t].turn = k /\ req'[t].run = r /\ req'[t].kind = req[t].kind
        /\ req'[t].next = i /\ req'[t].last = z /\ req'[t].copy = turn[k]
    BY <1>1, <1>3, <1>9, <2>0, <2>1 DEF HostTypeOK, HGoto, Req
  <2>3. KindOK(t)'
    BY <1>1, <1>2, <1>3, <1>9, <2>2 DEF KindOK, Recording, evars
  <2>4. Sure(k, r)' => Sure(k, r)
    BY <1>2 DEF Sure, Live, Stored, Fits, evars
  <2>5. Sure(k, r)' => /\ Told(k, r, m)' /\ (Shown(k, r, m)' \/ m < z)
                       /\ z = Len(log'[r])
    BY <1>2, <1>5, <2>4 DEF evars, Told, Shown, DeltasTo
  <2>6. HandlerOK(t)'
    BY <1>2, <1>3, <2>2, <2>5 DEF HandlerOK, Recording
  <2>7. IdleOK(k)'
    BY <2>2 DEF IdleOK
  <2>8. QED
    BY <2>3, <2>6, <2>7
<1>10. CASE ReadMark(t)
  BY <1>7, <1>9, <1>10 DEF ReadMark, ReadRow
<1>11. CASE ReadRecord(t)
  BY <1>3, <1>7, <1>8, <1>9, <1>11 DEF ReadRecord, ReadRow
<1>12. QED
  BY <1>10, <1>11

LEMMA ShowMarks ==
  ASSUME TypeOK, ExecutorInv, HostTypeOK, HostInv, ShowInv, [Next]_evars,
         NEW t \in Threads, WriteMark(t), NEW k, k = req[t].turn
  PROVE  KindOK(t)' /\ HandlerOK(t)' /\ IdleOK(k)'
<1>1. KindOK(t) /\ HandlerOK(t) /\ req[t] \in Req /\ RangeOK(t)
  BY DEF ShowInv, HostTypeOK, HostInv
<1>2. /\ UNCHANGED <<evars, exists, disturbed>> /\ k \in Turns /\ turn[k] \in HostRow
      /\ hpc[t] = "marking" /\ hpc[t] \in Recording
  BY DEF WriteMark, HostTypeOK, Recording
<1>3. PICK r, i, m, z : r = req[t].run /\ i = req[t].next /\ m = i - 1 /\ z = req[t].last
  OBVIOUS
<1>4. r \in Runs /\ i \in Nat /\ z \in Nat /\ i >= 1
  BY <1>1, <1>2, <1>3 DEF HostTypeOK, RangeOK, Req
<1>5. CASE ~ Stored(k)
  BY <1>2, <1>5, ShowReplies DEF WriteMark, Sure, Live, evars
<1>6. CASE Stored(k)
  <2>1. /\ turn' = IF req[t].copy.state = "awaiting_input"
                   THEN [turn EXCEPT ![k].state = "running"] ELSE turn
        /\ HGoto(t, "record") /\ UNCHANGED req
    BY <1>6 DEF WriteMark
  <2>2. hpc'[t] = "record" /\ req' = req
    BY <2>1 DEF HostTypeOK, HGoto
  <2>3. turn'[k].seq = turn[k].seq /\ turn'[k].text = turn[k].text /\ turn'[k].session = turn[k].session
    BY <1>2, <2>1 DEF HostTypeOK, HostRow
  <2>4. KindOK(t)'
    BY <1>1, <1>2, <2>2 DEF KindOK, Recording, evars
  <2>5. Sure(k, r)' => Sure(k, r)
    BY <1>2, <1>6, <2>3 DEF Sure, Live, Fits, evars
  <2>6. Sure(k, r) => Told(k, r, m) /\ z = Len(log[r])
    BY <1>1, <1>2, <1>3 DEF HandlerOK
  <2>7. Sure(k, r)' => Told(k, r, m)' /\ z = Len(log'[r])
    BY <1>2, <2>3, <2>5, <2>6 DEF evars, Told, DeltasTo
  <2>8. m < z
    <3>1. i <= z
      BY <1>1, <1>2, <1>3 DEF KindOK
    <3>2. QED
      BY <1>3, <1>4, <3>1
  <2>9. HandlerOK(t)'
    BY <1>3, <2>2, <2>7, <2>8 DEF HandlerOK, Recording
  <2>10. IdleOK(k)'
    BY <2>2 DEF IdleOK
  <2>11. QED
    BY <2>4, <2>9, <2>10
<1>7. QED
  BY <1>5, <1>6

LEMMA MergedWhole ==
  ASSUME NEW k \in Turns, turn[k] \in HostRow, NEW new \in HostRow
  PROVE  Merged(k, turn[k], new) = new
<1>1. DOMAIN turn[k] = {"state", "session", "run", "seq", "text"}
  BY DEF HostRow
<1>2. Merged(k, turn[k], new) = [f \in {"state", "session", "run", "seq", "text"} |-> new[f]]
  BY <1>1 DEF Merged
<1>3. new = [f \in {"state", "session", "run", "seq", "text"} |-> new[f]]
  BY DEF HostRow
<1>4. QED
  BY <1>2, <1>3

LEMMA ShowWrites ==
  ASSUME TypeOK, ExecutorInv, HostTypeOK, HostInv, ShowInv, [Next]_evars,
         NEW t \in Threads, WriteRecord(t), NEW k, k = req[t].turn
  PROVE  KindOK(t)' /\ HandlerOK(t)' /\ IdleOK(k)'
<1>1. KindOK(t) /\ HandlerOK(t) /\ req[t] \in Req /\ RangeOK(t)
  BY DEF ShowInv, HostTypeOK, HostInv
<1>2. /\ UNCHANGED <<evars, exists, disturbed>> /\ k \in Turns /\ turn[k] \in HostRow
      /\ hpc[t] = "recording" /\ hpc[t] \in Recording
  BY DEF WriteRecord, HostTypeOK, Recording
<1>3. PICK r, i, m, z, c : /\ r = req[t].run /\ i = req[t].next /\ m = i - 1 /\ z = req[t].last
                           /\ c = req[t].copy
  OBVIOUS
<1>4. r \in Runs /\ i \in Nat /\ z \in Nat /\ i >= 1 /\ i <= z /\ c \in HostRow
  BY <1>1, <1>2, <1>3 DEF HostTypeOK, RangeOK, Req
<1>5. CASE Gone(t)
  <2>1. Reply(t) /\ UNCHANGED turn
    BY <1>5 DEF WriteRecord
  <2>2. ~ Live(k)
    BY <1>5 DEF Gone, Live
  <2>3. QED
    BY <1>2, <2>1, <2>2, ShowReplies DEF Sure, evars
<1>6. CASE ~ Gone(t)
  <2>1. PICK state \in StatesAfter(c, log[r][i]) :
          turn' = [turn EXCEPT ![k] = Merged(k, c, Recorded(c, r, i, state))]
    BY <1>3, <1>6 DEF WriteRecord
  <2>2. /\ req' = [req EXCEPT ![t].next = @ + 1, ![t].copy = NoTurnRow, ![t].linked = FALSE]
        /\ HGoto(t, "record")
    BY <1>6 DEF WriteRecord
  <2>3. /\ hpc'[t] = "record" /\ req'[t].turn = k /\ req'[t].run = r /\ req'[t].kind = req[t].kind
        /\ req'[t].next = i + 1 /\ req'[t].last = z
    <3>1. PICK p, q, f : p = i + 1 /\ q = NoTurnRow /\ f = FALSE
      OBVIOUS
    <3>2. req' = [req EXCEPT ![t] = [req[t] EXCEPT !.next = p, !.copy = q, !.linked = f]]
      BY <1>3, <2>2, <3>1 DEF HostTypeOK
    <3>3. QED
      BY <1>1, <1>3, <2>2, <3>1, <3>2 DEF HostTypeOK, HGoto, Req
  <2>4. PICK new : new = Recorded(c, r, i, state)
    OBVIOUS
  <2>5. new \in HostRow
    BY <1>4, <2>1, <2>4, RecordedType
  <2>6. turn'[k] = Merged(k, c, new)
    BY <1>2, <2>1, <2>4 DEF HostTypeOK
  <2>7. KindOK(t)'
    BY <1>1, <1>2, <1>3, <2>3 DEF KindOK, Recording, evars
  <2>8. Stored(k) /\ (Sure(k, r)' => Sure(k, r))
    <3>1. Stored(k)
      BY <1>6 DEF Gone
    <3>2. Merged(k, c, new).session = turn[k].session
      <4>1. DOMAIN turn[k] = {"state", "session", "run", "seq", "text"}
        BY <1>2 DEF HostRow
      <4>2. new.session = c.session
        BY <1>4, <2>4 DEF Recorded, HostRow
      <4>3. QED
        BY <4>1, <4>2 DEF Merged
    <3>3. QED
      BY <1>2, <2>6, <3>1, <3>2 DEF Sure, Live, Fits, evars
  <2>9. ASSUME Sure(k, r)' PROVE Told(k, r, i)' /\ Shown(k, r, i)' /\ z = Len(log'[r])
    <3>1. Told(k, r, m) /\ z = Len(log[r]) /\ c = turn[k]
      BY <1>1, <1>2, <1>3, <2>8, <2>9 DEF HandlerOK
    <3>2. turn'[k] = new
      BY <1>2, <2>5, <2>6, <3>1, MergedWhole
    <3>3. c.seq = m /\ c.text = DeltasTo(r, m)
      BY <3>1 DEF Told
    <3>4. /\ new.seq = IF i > m THEN i ELSE m
          /\ new.text = IF log[r][i] = "answer_delta" THEN DeltasTo(r, m) + 1 ELSE DeltasTo(r, m)
          /\ new.state = state
      BY <1>4, <2>4, <3>3 DEF Recorded, HostRow
    <3>5. i <= Len(log[r])
      BY <1>4, <3>1
    <3>6. DeltasTo(r, i) = IF log[r][i] = "answer_delta" THEN DeltasTo(r, m) + 1 ELSE DeltasTo(r, m)
      BY <1>3, <1>4, <3>5, NextDelta
    <3>7. i > m
      BY <1>3, <1>4
    <3>8. DeltasTo(r, i)' = DeltasTo(r, i) /\ log' = log
      BY <1>2 DEF evars, DeltasTo
    <3>9. /\ log[r][i] = "wait_for_input" => state = "awaiting_input"
          /\ log[r][i] = "done_completed" => state = "completed"
          /\ log[r][i] = "done_cancelled" => state = "cancelled"
      BY <2>1 DEF StatesAfter
    <3>10. Told(k, r, i)'
      BY <3>2, <3>4, <3>5, <3>6, <3>7, <3>8 DEF Told
    <3>11. Shown(k, r, i)'
      BY <3>2, <3>4, <3>8, <3>9 DEF Shown
    <3>12. QED
      BY <3>1, <3>8, <3>10, <3>11
  <2>10. HandlerOK(t)'
    <3>1. (i + 1) - 1 = i
      BY <1>4
    <3>2. QED
      BY <2>3, <2>9, <3>1 DEF HandlerOK, Recording
  <2>11. IdleOK(k)'
    BY <2>3 DEF IdleOK
  <2>12. QED
    BY <2>7, <2>10, <2>11
<1>7. QED
  BY <1>5, <1>6

\* One handler's step.
LEMMA OwnShow ==
  ASSUME TypeOK, ExecutorInv, HostTypeOK, HostInv, DriveInv, ShowInv, [Next]_evars,
         NEW t \in Threads, Posts(t) \/ Handles(t) \/ Drives(t), NEW k, k = req[t].turn
  PROVE  KindOK(t)' /\ HandlerOK(t)' /\ (k \in Turns => IdleOK(k)')
<1>1. CASE Posts(t)
  <2>1. hpc[t] = "free"
    BY <1>1 DEF Posts, PostTurn, PostReply, PostCancel, PostDelete, Free
  <2>2. k \notin Turns
    BY <2>1, HostAssumption DEF HostInv, BoundOK
  <2>3. QED
    BY <1>1, <2>2, ShowPosts
<1>2. CASE Delete(t)
  <2>1. hpc[t] = "delete" /\ Reply(t)
    BY <1>2 DEF Delete
  <2>2. k \notin Turns
    BY <2>1, HostAssumption DEF HostInv, BoundOK
  <2>3. hpc'[t] = "free" /\ req'[t].kind = "none"
    BY <2>1 DEF Reply, HGoto, HostTypeOK, NoReq
  <2>4. QED
    BY <2>2, <2>3 DEF KindOK, HandlerOK, Recording
<1>3. CASE Construct(t)
  <2>1. UNCHANGED <<hpc, req, turn, exists, disturbed>> /\ hpc[t] # "native" /\ log' = log
    BY <1>3 DEF Construct, hvars, BeginBuild
  <2>2. QED
    BY <2>1, ShowAside
<1>4. QED
  BY <1>1, <1>2, <1>3, ShowBinds, ShowCollects, ShowReads, ShowMarks, ShowWrites, ShowNative
  DEF Handles, Drives

LEMMA StaysStored ==
  ASSUME HostTypeOK, HostTypeOK', NEW t \in Threads, Posts(t) \/ Handles(t) \/ Drives(t),
         NEW k \in Turns, turn[k].state # "absent"
  PROVE  turn'[k].state # "absent"
<1>1. turn[k] \in HostRow
  BY DEF HostTypeOK
<1>2. CASE UNCHANGED turn
  BY <1>2
<1>3. CASE PostTurn(t) \/ WriteMark(t) \/ Delete(t)
  <2>1. CASE PostTurn(t)
    BY <1>1, <2>1 DEF PostTurn, HostTypeOK, HostRow
  <2>2. CASE WriteMark(t)
    BY <1>1, <2>2 DEF WriteMark, HostTypeOK, HostRow
  <2>3. CASE Delete(t)
    BY <1>1, <2>3 DEF Delete, HostTypeOK, HostRow
  <2>4. QED
    BY <1>3, <2>1, <2>2, <2>3
<1>4. CASE WriteRecord(t) /\ ~ Gone(t)
  <2>1. /\ \E w : turn' = [turn EXCEPT ![req[t].turn] = w]
        /\ HGoto(t, "record")
        /\ req' = [req EXCEPT ![t].next = @ + 1, ![t].copy = NoTurnRow, ![t].linked = FALSE]
    BY <1>4 DEF WriteRecord
  <2>2. hpc'[t] = "record" /\ req'[t].turn = req[t].turn
    BY <2>1 DEF HostTypeOK, HGoto, Req
  <2>3. turn'[req'[t].turn].state # "absent"
    BY <2>2 DEF HostTypeOK
  <2>4. k # req[t].turn => turn'[k] = turn[k]
    BY <2>1 DEF HostTypeOK
  <2>5. QED
    BY <2>2, <2>3, <2>4
<1>5. CASE PostReply(t) \/ PostCancel(t) \/ PostDelete(t) \/ Bind(t) \/ Cancel(t) \/ Collect(t)
  BY <1>2, <1>5 DEF PostReply, PostCancel, PostDelete, Bind, Cancel, Collect
<1>6. CASE ReadMark(t) \/ ReadRecord(t) \/ Construct(t) \/ Native(t) \/ (WriteRecord(t) /\ Gone(t))
  BY <1>2, <1>6 DEF ReadMark, ReadRecord, Construct, Native, WriteRecord, hvars
<1>7. QED
  BY <1>3, <1>4, <1>5, <1>6 DEF Posts, Handles, Drives

LEMMA ShowStep ==
  ASSUME TypeOK, ExecutorInv, HostTypeOK, HostInv, DriveInv, ShowInv, [Next]_evars,
         HostTypeOK', HostInv', NEW t \in Threads, Posts(t) \/ Handles(t) \/ Drives(t)
  PROVE  ShowInv'
<1>1. ASSUME NEW u \in Threads PROVE KindOK(u)' /\ HandlerOK(u)'
  BY OwnShow, OthersShow
<1>2. ASSUME NEW k \in Turns PROVE IdleOK(k)'
  BY OwnShow, OthersIdle
<1>3. ASSUME NEW k \in Turns PROVE NewTurnOK(k)'
  <2>1. SUFFICES ASSUME turn'[k].state = "absent"
                 PROVE  turn'[k].seq = 0 /\ turn'[k].text = 0
    BY DEF NewTurnOK
  <2>2. turn[k].state = "absent"
    BY <2>1, StaysStored
  <2>3. req[t].turn # k
    BY <2>2, HostAssumption DEF HostTypeOK, HostInv, BoundOK
  <2>4. req'[t].turn # k
    BY <2>1, HostAssumption DEF HostTypeOK, HostInv, BoundOK
  <2>5. turn'[k].seq = turn[k].seq /\ turn'[k].text = turn[k].text
    BY <2>3, <2>4, TurnElsewhere
  <2>6. QED
    BY <2>2, <2>5 DEF ShowInv, NewTurnOK
<1>4. QED
  BY <1>1, <1>2, <1>3 DEF ShowInv

LEMMA ShowCrash ==
  ASSUME HostTypeOK, ShowInv, HostCrash
  PROVE  ShowInv'
<1>1. /\ \A t \in Threads : hpc'[t] = "free" /\ req'[t] = NoReq
      /\ turn' = turn /\ row' = row /\ log' = log /\ exists' = exists
      /\ disturbed' = disturbed \cup ({req[t].turn : t \in Threads} \cap Turns)
  BY DEF HostCrash, Crash
<1>2. NoReq.kind = "none"
  BY DEF NoReq
<1>3. \A t \in Threads : KindOK(t)' /\ HandlerOK(t)'
  BY <1>1, <1>2 DEF KindOK, HandlerOK, Recording
<1>4. \A k \in Turns : NewTurnOK(k)'
  BY <1>1 DEF ShowInv, NewTurnOK
<1>5. ASSUME NEW k \in Turns PROVE IdleOK(k)'
  <2>1. IdleOK(k)
    BY DEF ShowInv
  <2>2. k \notin disturbed' => k \notin disturbed /\ \A t \in Threads : req[t].turn # k
    BY <1>1
  <2>3. QED
    BY <1>1, <2>1, <2>2 DEF IdleOK, Sure, Live, Stored, Fits, TellsAll, Told, Shown, DeltasTo
<1>6. QED
  BY <1>3, <1>4, <1>5 DEF ShowInv

-----------------------------------------------------------------------------

MirrorInv == DriveInv /\ RunInv /\ ShowInv

LEMMA InitMirror == HostInit => MirrorInv
<1> SUFFICES ASSUME HostInit PROVE MirrorInv
  OBVIOUS
<1>1. /\ \A t \in Threads : hpc[t] = "free" /\ req[t] = NoReq /\ pc[t] = "idle" /\ cur[t] = NoRun
      /\ \A k \in Turns : turn[k] = NoTurnRow
  BY DEF HostInit, Init
<1>2. /\ NoReq.turn = NoTurn /\ NoReq.run = NoRun /\ NoReq.kind = "none"
      /\ NoTurn \notin Turns /\ NoRun \notin Runs
  BY HostAssumption, StoreAssumption DEF NoReq
<1>3. NoTurnRow.state = "absent" /\ NoTurnRow.run = NoRun /\ NoTurnRow.seq = 0 /\ NoTurnRow.text = 0
  BY DEF NoTurnRow
<1>4. \A k \in Turns, r \in Runs : ~ Owns(k, r)
  BY <1>1, <1>2, <1>3 DEF Owns
<1>5. DriveInv
  <2>1. \A t \in Threads : JoinOK(t)
    BY <1>1, <1>2 DEF JoinOK, NotAtWork
  <2>2. \A k \in Turns : Alone(k)
    BY <1>1, <1>2 DEF Alone
  <2>3. QED
    BY <1>4, <2>1, <2>2 DEF DriveInv, OwnOK
<1>6. RunInv
  BY <1>4 DEF RunInv
<1>7. ShowInv
  BY <1>1, <1>2, <1>3
  DEF ShowInv, KindOK, HandlerOK, IdleOK, NewTurnOK, Sure, Live, Stored, Recording
<1>8. QED
  BY <1>5, <1>6, <1>7 DEF MirrorInv

LEMMA StepMirror ==
  /\ TypeOK /\ ExecutorInv /\ CloserInv /\ HostTypeOK /\ HostInv /\ MirrorInv
  /\ [HostNext]_vars /\ HostInv'
  => MirrorInv'
<1> SUFFICES ASSUME TypeOK, ExecutorInv, CloserInv, HostTypeOK, HostInv, MirrorInv,
                    [HostNext]_vars, HostInv'
             PROVE  MirrorInv'
  OBVIOUS
<1> USE DEF MirrorInv
<1>1. [Next]_evars /\ HostTypeOK'
  BY HostStep, HostTypeStep
<1>2. CASE UNCHANGED vars
  <2>1. UNCHANGED <<row, log, pc, cur, exists, turn, hpc, req, disturbed>>
    BY <1>2 DEF vars, evars, hvars
  <2>2. DriveInv'
    BY <2>1 DEF DriveInv, JoinOK, OwnOK, Owns, Alone
  <2>3. RunInv'
    BY <2>1 DEF RunInv, Owns, RunOK, PhaseOK, Rest, EndsIn
  <2>4. ShowInv'
    <3>1. ASSUME NEW t \in Threads PROVE KindOK(t)'
      <4>1. KindOK(t)
        BY DEF ShowInv
      <4>2. QED
        BY <2>1, <4>1 DEF KindOK
    <3>2. ASSUME NEW t \in Threads PROVE HandlerOK(t)'
      <4>1. HandlerOK(t)
        BY DEF ShowInv
      <4>2. QED
        BY <2>1, <4>1 DEF HandlerOK, Sure, Live, Stored, Fits, Told, Shown, DeltasTo
    <3>3. ASSUME NEW k \in Turns PROVE IdleOK(k)' /\ NewTurnOK(k)'
      <4>1. IdleOK(k) /\ NewTurnOK(k)
        BY DEF ShowInv
      <4>2. QED
        BY <2>1, <4>1 DEF IdleOK, NewTurnOK, Sure, Live, Stored, Fits, TellsAll, Told, Shown, DeltasTo
    <3>4. QED
      BY <3>1, <3>2, <3>3 DEF ShowInv
  <2>5. QED
    BY <2>2, <2>3, <2>4
<1>3. CASE HostCrash
  BY <1>3, DriveCrash, RunInvCrash, ShowCrash
<1>4. ASSUME NEW t \in Threads, Posts(t) \/ Handles(t) \/ Drives(t)
      PROVE  MirrorInv'
  BY <1>1, <1>4, DriveStep, RunInvStep, ShowStep
<1>5. QED
  BY <1>2, <1>3, <1>4 DEF HostNext, Posts, Handles, Drives

LEMMA MirrorHolds == TypeOK /\ HostTypeOK /\ MirrorInv => Mirrors
<1> SUFFICES ASSUME TypeOK, HostTypeOK, MirrorInv, NEW k \in Turns, Quiet(k), NEW r, r = turn[k].run,
                    Fits(r)
             PROVE  /\ turn[k].seq = Len(log[r])
                    /\ turn[k].text = Count(r, {"answer_delta"})
                    /\ row[r].state # "error" =>
                         turn[k].state = IF row[r].state = "waiting_input" THEN "awaiting_input"
                                         ELSE row[r].state
  BY DEF Mirrors, Fits
<1>1. r \in Runs /\ k \notin disturbed /\ Owns(k, r)
  BY DEF Quiet, HostTypeOK, HostRow, Owns
<1>2. Sure(k, r) /\ \A t \in Threads : req[t].turn # k
  BY DEF Quiet, Sure, Live
<1>3. TellsAll(k, r)
  BY <1>1, <1>2, StoreAssumption DEF MirrorInv, ShowInv, IdleOK
<1>4. \A u \in Threads : cur[u] # r
  BY <1>1, <1>2, SoleDriver DEF MirrorInv, SoleInv, Sole
<1>5. Rest(r)
  BY <1>1, <1>4 DEF MirrorInv, RunInv, RunOK
<1>6. PICK n \in Nat : n = Len(log[r])
  BY <1>1, LogLength
<1>7. log[r] # << >> => n # 0
  BY <1>1, <1>6 DEF TypeOK
<1>8. row[r].state # "error" =>
        turn[k].state = IF row[r].state = "waiting_input" THEN "awaiting_input" ELSE row[r].state
  BY <1>3, <1>5, <1>6, <1>7 DEF TellsAll, Shown, Rest, EndsIn, Terminal
<1>9. QED
  BY <1>1, <1>3, <1>8, AllDeltas DEF TellsAll, Told

\* Between its requests a turn mirrors its run: whatever the runs of other turns did
\* meanwhile, it shows every answer segment once, and waits, has completed or is
\* cancelled when the run is (start's, resume's and cancel's ranges of events,
\* routes/tutor.py, and record_upstream_event, pg_api/tutor.py).
THEOREM TurnsMirrorRuns == HostSpec => []Mirrors
<1>1. HostSpec => [](TypeOK /\ ExecutorInv /\ CloserInv /\ EventsInv)
  BY HostDrivesExecutor, TypeCorrect, ExecutorInvariant, CloserInvariant, EventsTellOutcome, PTL
<1>2. HostSpec => []HostInv
  BY <1>1, InitHost, StepHost, HostInvariant, PTL DEF HostSpec
<1>3. HostSpec => []MirrorInv
  BY <1>1, <1>2, InitMirror, StepMirror, HostInvariant, PTL DEF HostSpec
<1>4. QED
  BY <1>1, <1>3, HostInvariant, MirrorHolds, PTL

-----------------------------------------------------------------------------
(* What the executor promises, under the host. *)

\* The requests of the host leave the executor all that it promises: a cancelled run announces no result, a
\* run is done once, a run that pauses or completes has lost nothing, no turn gains a tool, no write of a run
\* is lost, and the life of a turn is the abstract one (routes/tutor.py over interest_growth_native/tutor.py).
THEOREM HostKeepsPromises ==
  HostSpec => /\ [](CancelWins /\ OneDone /\ SnapshotComplete)
              /\ GrantsNeverExpand /\ NoLostUpdate /\ ImplementsLifecycle
  BY HostDrivesExecutor, CancellationWins, OneDoneEvent, NothingLost, NoToolGained, NothingOverwritten,
     LifecycleImplemented, PTL

-----------------------------------------------------------------------------
(* Turns and their runs. *)

\* A run is bound to one turn.
OneTurnPerRun == \A j, k \in Turns : turn[j].run # NoRun /\ turn[j].run = turn[k].run => j = k

RunKeptByTurn == [][\A k \in Turns : turn[k].run # NoRun => turn'[k].run = turn[k].run]_vars

LEMMA DriveInvariant == HostSpec => [](HostInv /\ MirrorInv)
<1>1. HostSpec => [](TypeOK /\ ExecutorInv /\ CloserInv /\ EventsInv)
  BY HostDrivesExecutor, TypeCorrect, ExecutorInvariant, CloserInvariant, EventsTellOutcome, PTL
<1>2. HostSpec => []HostInv
  BY <1>1, InitHost, StepHost, HostInvariant, PTL DEF HostSpec
<1>3. HostSpec => []MirrorInv
  BY <1>1, <1>2, InitMirror, StepMirror, HostInvariant, PTL DEF HostSpec
<1>4. QED
  BY <1>2, <1>3, PTL

\* Whatever requests, sessions of the database and crashes overlap, no two turns are ever bound to one run, and a
\* turn that is bound to a run stays so: the row is written back from copies that were read before, and no
\* copy is of another run (pg_api/tutor.py: record_upstream_event; routes/tutor.py).
THEOREM TurnsKeepRuns == HostSpec => []OneTurnPerRun /\ RunKeptByTurn
<1>1. HostTypeOK /\ MirrorInv => OneTurnPerRun
  <2> SUFFICES ASSUME HostTypeOK, MirrorInv, NEW j \in Turns, NEW k \in Turns,
                      turn[j].run # NoRun, turn[j].run = turn[k].run
               PROVE  j = k
    BY DEF OneTurnPerRun
  <2>1. turn[j].run \in Runs
    BY DEF HostTypeOK, HostRow
  <2>2. QED
    BY <2>1 DEF MirrorInv, DriveInv, OwnOK, Owns
<1>2. ASSUME TypeOK, HostTypeOK, HostInv, [HostNext]_vars, NEW k \in Turns, turn[k].run # NoRun
      PROVE  turn'[k].run = turn[k].run
  <2>1. CASE UNCHANGED vars \/ HostCrash
    BY <2>1 DEF vars, hvars, HostCrash
  <2>2. ASSUME NEW t \in Threads, Posts(t) \/ Handles(t) \/ Drives(t)
        PROVE  turn'[k].run = turn[k].run
    <3>1. Binds(t)
      BY <1>2, <2>2, ReqMoves
    <3>2. k = req[t].turn => turn[k].run = req[t].run
      BY <1>2, HostAssumption DEF HostInv, BoundOK
    <3>3. QED
      BY <3>1, <3>2 DEF Binds
  <2>3. QED
    BY <1>2, <2>1, <2>2 DEF HostNext, Posts, Handles, Drives
<1>3. TypeOK /\ HostTypeOK /\ HostInv /\ [HostNext]_vars
        => [\A k \in Turns : turn[k].run # NoRun => turn'[k].run = turn[k].run]_vars
  BY <1>2
<1>4. HostSpec => []TypeOK
  BY HostDrivesExecutor, TypeCorrect, PTL
<1>5. QED
  BY <1>1, <1>3, <1>4, DriveInvariant, HostInvariant, PTL DEF HostSpec, RunKeptByTurn

-----------------------------------------------------------------------------
(* The order of what a turn tells. *)

\* Turn k tells of one more event of its run than before, the next one.
TellsNext(k) ==
  LET n == turn[k].seq + 1
      r == turn'[k].run IN
  /\ n <= Len(log[r]) /\ turn'[k].seq = n
  /\ turn'[k].text = turn[k].text + (IF log[r][n] = "answer_delta" THEN 1 ELSE 0)

ToldInOrder ==
  [][\A k \in Turns :
       k \notin disturbed /\ Live(k) /\ turn'[k].run # NoRun /\ Fits(turn'[k].run)
         => TellsNext(k) \/ UNCHANGED <<turn[k].seq, turn[k].text>>]_vars

LEMMA TellsInOrder ==
  ASSUME TypeOK, HostTypeOK, HostInv, MirrorInv, [HostNext]_vars, NEW k \in Turns,
         k \notin disturbed, Live(k), turn'[k].run # NoRun, Fits(turn'[k].run)
  PROVE  TellsNext(k) \/ UNCHANGED <<turn[k].seq, turn[k].text>>
<1>1. turn[k] \in HostRow
  BY DEF HostTypeOK
<1>2. CASE UNCHANGED turn
  BY <1>2
<1>3. ASSUME NEW t \in Threads, PostTurn(t)
      PROVE  UNCHANGED <<turn[k].seq, turn[k].text>>
  BY <1>1, <1>3 DEF PostTurn, HostTypeOK, HostRow
<1>4. ASSUME NEW t \in Threads, Delete(t)
      PROVE  UNCHANGED <<turn[k].seq, turn[k].text>>
  BY <1>1, <1>4 DEF Delete, HostTypeOK, HostRow
<1>5. ASSUME NEW t \in Threads, WriteMark(t)
      PROVE  UNCHANGED <<turn[k].seq, turn[k].text>>
  BY <1>1, <1>5 DEF WriteMark, HostTypeOK, HostRow
<1>6. ASSUME NEW t \in Threads, WriteRecord(t), turn' # turn
      PROVE  TellsNext(k) \/ UNCHANGED <<turn[k].seq, turn[k].text>>
  <2>1. PICK c, r, i, m : /\ r = req[t].run /\ i = req[t].next /\ m = i - 1 /\ c = req[t].copy
    OBVIOUS
  <2>2. CASE req[t].turn # k
    <3>1. turn'[k] = turn[k]
      BY <1>6, <2>2 DEF WriteRecord, HostTypeOK
    <3>2. QED
      BY <3>1
  <2>3. CASE req[t].turn = k
    <3>1. PICK state \in StatesAfter(c, log[r][i]) :
            turn' = [turn EXCEPT ![k] = Merged(k, c, Recorded(c, r, i, state))]
      BY <1>6, <2>1, <2>3 DEF WriteRecord
    <3>2. /\ r \in Runs /\ i \in Nat /\ i >= 1 /\ c \in HostRow /\ i <= Len(log[r])
          /\ hpc[t] = "recording" /\ hpc[t] \in Recording
      <4>1. req[t] \in Req /\ req[t].run \in Runs /\ hpc[t] = "recording" /\ RangeOK(t)
        BY <1>6 DEF WriteRecord, HostTypeOK, HostInv
      <4>2. /\ r \in Runs /\ c \in HostRow /\ i \in Nat /\ i >= 1 /\ i <= req[t].last
            /\ req[t].last \in Nat /\ req[t].last <= Len(log[r])
        BY <2>1, <4>1 DEF Req, RangeOK, Recording
      <4>3. Len(log[r]) \in Nat
        BY <4>2, LogLength
      <4>4. QED
        BY <4>1, <4>2, <4>3 DEF Recording
    <3>3. turn'[k].run = r
      <4>1. turn'[k].run = turn[k].run \/ turn'[k].run = r
        <5>1. Handles(t)
          BY <1>6 DEF Handles
        <5>2. QED
          BY <2>1, <5>1, ReqMoves DEF Binds
      <4>2. turn[k].run \in {NoRun, r}
        BY <2>1, <2>3, <3>2 DEF HostInv, BoundOK
      <4>3. QED
        BY <4>1, <4>2
    <3>4. Told(k, r, m) /\ c = turn[k]
      BY <2>1, <2>3, <3>2, <3>3 DEF MirrorInv, ShowInv, HandlerOK, Sure
    <3>5. PICK new : new = Recorded(c, r, i, state)
      OBVIOUS
    <3>6. new \in HostRow
      BY <3>1, <3>2, <3>5, RecordedType
    <3>7. turn'[k] = new
      BY <1>1, <3>1, <3>4, <3>5, <3>6, MergedWhole DEF HostTypeOK
    <3>8. /\ new.seq = IF i > c.seq THEN i ELSE c.seq
          /\ new.text = IF log[r][i] = "answer_delta" THEN c.text + 1 ELSE c.text
      BY <3>2, <3>5 DEF Recorded, HostRow
    <3>9. c.seq = i - 1 /\ c.text \in Nat
      BY <2>1, <3>2, <3>4 DEF Told, HostRow
    <3>10. turn[k].seq + 1 = i
      BY <3>2, <3>4, <3>9
    <3>11. new.seq = i /\ new.text = turn[k].text + (IF log[r][i] = "answer_delta" THEN 1 ELSE 0)
      BY <3>2, <3>4, <3>8, <3>9
    <3>12. QED
      BY <3>2, <3>3, <3>7, <3>10, <3>11 DEF TellsNext
  <2>4. QED
    BY <2>2, <2>3
<1>7. QED
  BY <1>2, <1>3, <1>4, <1>5, <1>6
     DEF HostNext, HostCrash, PostReply, PostCancel, PostDelete, Bind, Cancel, Construct, Native, Collect,
         ReadMark, ReadRecord, vars, hvars

\* A turn that its requests take up one at a time tells of its run's events in their order, each one once and
\* none left out, while the events fit one read: a reply or a cancellation begins where the request before
\* it had ended (routes/tutor.py: the events after a point; pg_api/tutor.py: last_seq).
THEOREM EventsToldInOrder == HostSpec => ToldInOrder
<1>1. TypeOK /\ HostTypeOK /\ HostInv /\ MirrorInv /\ [HostNext]_vars
        => [\A k \in Turns :
              k \notin disturbed /\ Live(k) /\ turn'[k].run # NoRun /\ Fits(turn'[k].run)
                => TellsNext(k) \/ UNCHANGED <<turn[k].seq, turn[k].text>>]_vars
  BY TellsInOrder
<1>2. HostSpec => []TypeOK
  BY HostDrivesExecutor, TypeCorrect, PTL
<1>3. QED
  BY <1>1, <1>2, DriveInvariant, HostInvariant, PTL DEF HostSpec, ToldInOrder

-----------------------------------------------------------------------------
(* Requests that come one at a time. *)

\* With one request at a time and no crash no turn is ever disturbed, so that between its requests every turn
\* mirrors its run: Mirrors leaves out overlap and crashes, and nothing else (routes/tutor.py).
THEOREM SerialTurns ==
  ASSUME \A t, u \in Threads : t = u, MaxCrashes = 0
  PROVE  HostSpec => [](disturbed = {} /\ Mirrors)
<1>1. TypeOK /\ HostInv /\ disturbed = {} /\ [HostNext]_vars => disturbed' = {}
  <2> SUFFICES ASSUME TypeOK, HostInv, disturbed = {}, [HostNext]_vars PROVE disturbed' = {}
    OBVIOUS
  <2>1. ~HostCrash
    <3>1. crashes \in Nat
      BY DEF TypeOK
    <3>2. QED
      BY <3>1 DEF HostCrash, Crash
  <2>2. ASSUME NEW t \in Threads, NEW k \in Turns, hpc[t] = "free", Admit(k)
        PROVE  disturbed' = {}
    <3>1. \A u \in Threads : req[u].turn = NoTurn
      BY <2>2 DEF HostInv, BoundOK
    <3>2. QED
      BY <2>2, <3>1, HostAssumption DEF Admit
  <2>3. ASSUME NEW t \in Threads, PostReply(t) \/ PostCancel(t) PROVE disturbed' = {}
    BY <2>2, <2>3 DEF PostReply, PostCancel, Free
  <2>4. QED
    BY <2>1, <2>3 DEF HostNext, PostTurn, PostDelete, Bind, Cancel, Delete, Construct, Native, Collect, ReadMark,
                      WriteMark, ReadRecord, WriteRecord, vars, hvars
<1>2. HostInit => disturbed = {}
  BY DEF HostInit
<1>3. HostSpec => []TypeOK
  BY HostDrivesExecutor, TypeCorrect, PTL
<1>4. HostSpec => [](HostInv /\ MirrorInv)
  BY DriveInvariant
<1>5. HostSpec => [](disturbed = {})
  <2>1. disturbed = {} /\ (TypeOK /\ HostInv /\ [HostNext]_vars) => (disturbed = {})'
    BY <1>1
  <2>2. QED
    BY <2>1, <1>2, <1>3, <1>4, PTL DEF HostSpec
<1>6. QED
  BY <1>5, TurnsMirrorRuns, PTL
=============================================================================
