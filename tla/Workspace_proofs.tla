--------------------------- MODULE Workspace_proofs ---------------------------
(***************************************************************************)
(* The parts of the workspace keep their promises for any number of rows,  *)
(* threads and bounds: research runs, writing, areas with their questions, *)
(* practice, and claims with what is published from them.  Each part is    *)
(* taken alone: the first four share no variable with another.  With one   *)
(* request at a time the overlap that their properties leave out is none.  *)
(***************************************************************************)
EXTENDS MCWorkspace, TLAPS

-----------------------------------------------------------------------------
(* Research runs: what a run owes to its topics while it goes on. *)

WorkOK(w) ==
  /\ w.done \subseteq w.seen /\ Titles(w.queue) \subseteq w.seen /\ w.counter <= w.max
  /\ w.at = "blocks" => w.failed \/ w.seen \subseteq w.done \cup Titles(w.queue)
  /\ w.at \in {"import", "finish"} /\ w.result = "completed" => w.seen \subseteq w.done

RunInv == /\ RunTypeOK
          /\ \A r \in Runs : /\ WorkOK(work[r])
                             /\ ledger[r] = "completed" => /\ work[r].at = "over"
                                                           /\ work[r].seen \subseteq work[r].done

\* Appending to a queue, and taking its head.
LEMMA AppendTitles ==
  ASSUME NEW q \in Seq(ResearchTopics), NEW new \in ResearchTopics
  PROVE  /\ Append(q, new) \in Seq(ResearchTopics)
         /\ Titles(Append(q, new)) = Titles(q) \cup {new}
<1>1. /\ DOMAIN q = 1 .. Len(q) /\ Len(q) \in Nat
      /\ DOMAIN Append(q, new) = 1 .. (Len(q) + 1)
      /\ Append(q, new)[Len(q) + 1] = new
      /\ \A i \in 1 .. Len(q) : Append(q, new)[i] = q[i]
  OBVIOUS
<1>2. Titles(Append(q, new)) \subseteq Titles(q) \cup {new}
  BY <1>1 DEF Titles
<1>3. Titles(q) \subseteq Titles(Append(q, new))
  BY <1>1 DEF Titles
<1>4. new \in Titles(Append(q, new))
  <2>1. Len(q) + 1 \in DOMAIN Append(q, new)
    BY <1>1
  <2>2. QED
    BY <1>1, <2>1 DEF Titles
<1>5. QED
  BY <1>2, <1>3, <1>4

LEMMA TailTitles ==
  ASSUME NEW q \in Seq(ResearchTopics), q # <<>>
  PROVE  /\ Tail(q) \in Seq(ResearchTopics) /\ Head(q) \in ResearchTopics
         /\ Head(q) \in Titles(q)
         /\ Titles(q) \subseteq {Head(q)} \cup Titles(Tail(q))
<1>1. /\ Len(q) \in Nat \ {0} /\ DOMAIN q = 1 .. Len(q)
      /\ Tail(q) \in Seq(ResearchTopics) /\ Len(Tail(q)) = Len(q) - 1
      /\ \A i \in 1 .. Len(q) - 1 : Tail(q)[i] = q[i + 1]
      /\ Head(q) = q[1]
  OBVIOUS
<1>2. DOMAIN Tail(q) = 1 .. Len(q) - 1
  BY <1>1
<1>3. Head(q) \in ResearchTopics /\ Head(q) \in Titles(q)
  BY <1>1 DEF Titles
<1>4. ASSUME NEW i \in 1 .. Len(q), i # 1
      PROVE  q[i] \in Titles(Tail(q))
  <2>1. i - 1 \in 1 .. Len(q) - 1 /\ (i - 1) + 1 = i
    BY <1>1, <1>4
  <2>2. Tail(q)[i - 1] = q[i]
    BY <1>1, <2>1
  <2>3. QED
    BY <1>2, <2>1, <2>2 DEF Titles
<1>5. Titles(q) \subseteq {Head(q)} \cup Titles(Tail(q))
  <2>1. ASSUME NEW i \in DOMAIN q PROVE q[i] \in {Head(q)} \cup Titles(Tail(q))
    BY <1>1, <1>4
  <2>2. QED
    BY <2>1 DEF Titles
<1>6. QED
  BY <1>1, <1>3, <1>5

\* A block that ended, completed or not.
LEMMA TakenOK ==
  ASSUME NEW w \in Work, WorkOK(w), w.at = "blocks", w.queue # <<>>, w.counter < w.max,
         NEW completed \in BOOLEAN
  PROVE  LET v == Taken(w, completed) IN
         v \in Work /\ WorkOK(v) /\ v.at = "blocks"
<1> DEFINE v == Taken(w, completed)
<1>1. /\ Tail(w.queue) \in Seq(ResearchTopics) /\ Head(w.queue) \in ResearchTopics
      /\ Head(w.queue) \in Titles(w.queue)
      /\ Titles(w.queue) \subseteq {Head(w.queue)} \cup Titles(Tail(w.queue))
  BY TailTitles DEF Work
<1>2. Titles(Tail(w.queue)) \subseteq Titles(w.queue)
  <2>1. w.queue \in Seq(ResearchTopics)
    BY DEF Work
  <2>2. PICK q \in Seq(ResearchTopics) : q = w.queue
    BY <2>1
  <2>3. /\ Len(q) \in Nat \ {0} /\ DOMAIN q = 1 .. Len(q)
        /\ Tail(q) \in Seq(ResearchTopics) /\ Len(Tail(q)) = Len(q) - 1
        /\ \A i \in 1 .. Len(q) - 1 : Tail(q)[i] = q[i + 1]
    BY <2>2
  <2>4. DOMAIN Tail(q) = 1 .. Len(q) - 1
    BY <2>3
  <2>5. \A i \in DOMAIN Tail(q) : i + 1 \in DOMAIN q /\ Tail(q)[i] = q[i + 1]
    BY <2>3, <2>4
  <2>6. QED
    BY <2>2, <2>5 DEF Titles
<1>3. /\ v.at = "blocks" /\ v.queue = Tail(w.queue) /\ v.seen = w.seen /\ v.max = w.max
      /\ v.counter = w.counter + 1 /\ v.failed = (w.failed \/ ~completed)
      /\ v.done = IF completed THEN w.done \cup {Head(w.queue)} ELSE w.done
      /\ v.sources = w.sources /\ v.result = w.result
  BY DEF Taken, Work
<1>4. v.failed \in BOOLEAN
  BY <1>3 DEF Work
<1>5. v \in Work
  <2>1. PICK f \in BOOLEAN : f = (w.failed \/ ~completed)
    BY DEF Work
  <2>2. PICK d \in SUBSET ResearchTopics :
          d = IF completed THEN w.done \cup {Head(w.queue)} ELSE w.done
    BY <1>1 DEF Work
  <2>a. w.counter + 1 \in Nat
    BY DEF Work
  <2>b. PICK n \in Nat : n = w.counter + 1
    BY <2>a
  <2>3. PICK q \in Seq(ResearchTopics) : q = Tail(w.queue)
    BY <1>1
  <2>4. v = [w EXCEPT !.queue = q, !.counter = n, !.failed = f, !.done = d]
    BY <2>1, <2>2, <2>b, <2>3 DEF Taken
  <2> HIDE DEF v
  <2>5. QED
    BY <2>4 DEF Work
<1>6. WorkOK(v)
  <2>1. v.done \subseteq v.seen /\ Titles(v.queue) \subseteq v.seen
    BY <1>1, <1>2, <1>3 DEF WorkOK
  <2>2. v.counter <= v.max
    BY <1>3 DEF Work
  <2>3. v.failed \/ v.seen \subseteq v.done \cup Titles(v.queue)
    BY <1>1, <1>3 DEF WorkOK
  <2> HIDE DEF v
  <2>4. QED
    BY <1>3, <2>1, <2>2, <2>3 DEF WorkOK
<1> HIDE DEF v
<1>7. QED
  BY <1>2, <1>3, <1>5, <1>6 DEF v

LEMMA WithTopicOK ==
  ASSUME NEW w \in Work, WorkOK(w), w.at = "blocks",
         NEW new \in ResearchTopics
  PROVE  LET v == WithTopic(w, new) IN
         v \in Work /\ WorkOK(v) /\ v.at = "blocks"
<1> DEFINE v == [w EXCEPT !.seen = @ \cup {new}, !.queue = Append(@, new)]
<1>1. /\ Append(w.queue, new) \in Seq(ResearchTopics)
      /\ Titles(Append(w.queue, new)) = Titles(w.queue) \cup {new}
  BY AppendTitles DEF Work
<1>2. /\ v \in Work /\ v.at = "blocks" /\ v.queue = Append(w.queue, new)
      /\ v.seen = w.seen \cup {new} /\ v.done = w.done /\ v.counter = w.counter
      /\ v.max = w.max /\ v.failed = w.failed
  BY <1>1 DEF Work
<1> HIDE DEF v
<1>3. Titles(v.queue) \subseteq v.seen
  BY <1>1, <1>2 DEF WorkOK
<1>4. WorkOK(v)
  BY <1>1, <1>2 DEF WorkOK
<1>5. QED
  BY <1>2, <1>3, <1>4 DEF WithTopic, v

LEMMA RunUpdates ==
  ASSUME RunInv, NEW r \in Runs, NEW w \in Work, WorkOK(w), Goes(r, w),
         ledger' \in [Runs -> RunStatus], imported' \in 0 .. MaxImported,
         \A q \in Runs \ {r} : ledger'[q] = ledger[q],
         ledger'[r] = "completed" => w.at = "over" /\ w.seen \subseteq w.done
  PROVE  RunInv'
<1>1. /\ work' \in [Runs -> Work] /\ work'[r] = w
      /\ \A q \in Runs \ {r} : work'[q] = work[q]
  BY DEF RunInv, RunTypeOK, Goes
<1>2. \A q \in Runs : /\ WorkOK(work'[q])
                      /\ ledger'[q] = "completed" => /\ work'[q].at = "over"
                                                     /\ work'[q].seen \subseteq work'[q].done
  BY <1>1 DEF RunInv
<1>3. \A q \in Runs : work'[q].done \subseteq work'[q].seen /\ work'[q].counter <= work'[q].max
  BY <1>2 DEF WorkOK
<1>4. QED
  BY <1>1, <1>2, <1>3 DEF RunInv, RunTypeOK, WorkOK, Titles

LEMMA NoWorkType ==
  /\ NoWork \in Work /\ NoWork.seen = {} /\ NoWork.done = {} /\ Titles(NoWork.queue) = {}
  /\ NoWork.counter = 0 /\ NoWork.max = 0
<1>1. <<>> \in Seq(ResearchTopics) /\ DOMAIN <<>> = {}
  OBVIOUS
<1>2. QED
  BY <1>1 DEF NoWork, Work, Titles

LEMMA StartRun ==
  ASSUME RunInv, NEW r \in Runs, start_run(r)
  PROVE  RunInv'
<1>1. PICK outline \in Outlines, max \in MaxQueues :
        /\ Goes(r, [NoWork EXCEPT !.at = "blocks", !.queue = outline, !.seen = Titles(outline), !.max = max])
        /\ ledger' = [ledger EXCEPT ![r] = "running"] /\ UNCHANGED imported
  BY DEF start_run, Settled
<1> DEFINE w == [NoWork EXCEPT !.at = "blocks", !.queue = outline, !.seen = Titles(outline), !.max = max]
<1>2. outline \in Seq(ResearchTopics)
  BY RunAssumption DEF Outlines
<1>3. max \in Nat \ {0}
  BY RunAssumption
<1>4. Titles(outline) \subseteq ResearchTopics
  BY <1>2 DEF Titles
<1>5. w \in Work
  BY <1>2, <1>3, <1>4 DEF NoWork, Work
<1>6. /\ w.at = "blocks" /\ w.queue = outline /\ w.seen = Titles(outline) /\ w.max = max
      /\ w.done = {} /\ w.counter = 0
  BY DEF NoWork
<1> HIDE DEF w
<1>7. WorkOK(w)
  BY <1>3, <1>6 DEF WorkOK
<1>8. ledger' \in [Runs -> RunStatus] /\ ledger'[r] # "completed"
  BY <1>1 DEF RunInv, RunTypeOK, RunStatus
<1>9. QED
  BY <1>1, <1>5, <1>7, <1>8, RunUpdates DEF w, RunInv, RunTypeOK

LEMMA RunBlock ==
  ASSUME RunInv, NEW r \in Runs, run_block(r)
  PROVE  RunInv'
<1> DEFINE w == work[r]
<1>1. /\ w \in Work /\ WorkOK(w) /\ w.at = "blocks" /\ w.queue # <<>> /\ w.counter < w.max
      /\ UNCHANGED <<ledger, imported>>
  BY DEF RunInv, RunTypeOK, run_block, one_block
<1>2. PICK completed \in BOOLEAN, new \in UNION {[1 .. n -> ResearchTopics] : n \in 0 .. 2} :
        LET one == Taken(w, completed)
            two == IF Len(new) > 0 THEN WithTopic(one, new[1]) ELSE one
        IN Goes(r, IF Len(new) > 1 THEN WithTopic(two, new[2]) ELSE two)
  BY DEF run_block, one_block
<1>3. PICK one : one = Taken(w, completed)
  OBVIOUS
<1>4. one \in Work /\ WorkOK(one) /\ one.at = "blocks"
  BY <1>1, <1>3, TakenOK
<1>5. /\ Len(new) > 0 => new[1] \in ResearchTopics
      /\ Len(new) > 1 => new[2] \in ResearchTopics
  OBVIOUS
<1>6. PICK two : two = IF Len(new) > 0 THEN WithTopic(one, new[1]) ELSE one
  OBVIOUS
<1>7. two \in Work /\ WorkOK(two) /\ two.at = "blocks"
  BY <1>4, <1>5, <1>6, WithTopicOK
<1>8. PICK v : v = IF Len(new) > 1 THEN WithTopic(two, new[2]) ELSE two
  OBVIOUS
<1>9. v \in Work /\ WorkOK(v) /\ v.at = "blocks"
  BY <1>5, <1>7, <1>8, WithTopicOK
<1>10. Goes(r, v)
  BY <1>2, <1>3, <1>6, <1>8
<1>11. ledger'[r] # "completed"
  BY <1>1 DEF RunInv
<1>12. QED
  BY <1>1, <1>9, <1>10, <1>11, RunUpdates DEF RunInv, RunTypeOK

LEMMA RunEnds ==
  ASSUME RunInv, NEW r \in Runs,
         \/ write_report(r) \/ fall_back(r) \/ mark_run_failed(r)
         \/ persist_sources(r) \/ finish_run(r) \/ run_dies(r)
  PROVE  RunInv'
<1> DEFINE w == work[r]
<1>1. w \in Work /\ WorkOK(w) /\ ledger \in [Runs -> RunStatus] /\ imported \in 0 .. MaxImported
  BY DEF RunInv, RunTypeOK
<1>2. ledger[r] = "completed" => w.at = "over"
  BY DEF RunInv
<1>3. CASE write_report(r)
  <2>1. PICK found \in BOOLEAN :
          Goes(r, [w EXCEPT !.at = IF found THEN "import" ELSE "finish", !.sources = found,
                            !.result = IF w.failed \/ w.queue # <<>> THEN "degraded" ELSE "completed"])
    BY <1>3 DEF write_report
  <2>2. PICK at \in {"import", "finish"}, result \in {"degraded", "completed"} :
          /\ at = IF found THEN "import" ELSE "finish"
          /\ result = IF w.failed \/ w.queue # <<>> THEN "degraded" ELSE "completed"
    OBVIOUS
  <2> DEFINE v == [w EXCEPT !.at = at, !.sources = found, !.result = result]
  <2>3. /\ v \in Work /\ v.at = at /\ v.result = result /\ v.seen = w.seen /\ v.done = w.done
        /\ v.queue = w.queue /\ v.counter = w.counter /\ v.max = w.max
    BY <1>1 DEF Work
  <2>4. Goes(r, v)
    BY <2>1, <2>2
  <2> HIDE DEF v
  <2>5. result = "completed" => w.seen \subseteq w.done
    <3>1. Titles(<<>>) = {}
      BY DEF Titles
    <3>2. QED
      BY <1>1, <1>3, <2>2, <3>1 DEF WorkOK, write_report
  <2>6. WorkOK(v)
    BY <1>1, <2>3, <2>5 DEF WorkOK
  <2>7. ledger'[r] # "completed" /\ UNCHANGED <<ledger, imported>>
    BY <1>2, <1>3 DEF write_report
  <2>8. QED
    BY <1>1, <2>3, <2>4, <2>6, <2>7, RunUpdates
<1>4. CASE fall_back(r)
  <2> DEFINE v == [NoWork EXCEPT !.at = "finish", !.max = w.max, !.result = "degraded"]
  <2>1. /\ v \in Work /\ v.at = "finish" /\ v.result = "degraded" /\ v.seen = {} /\ v.done = {}
        /\ v.queue = NoWork.queue /\ v.counter = 0 /\ v.max = w.max /\ w.max \in Nat
    BY <1>1, NoWorkType DEF Work
  <2>2. Goes(r, v) /\ ledger'[r] # "completed" /\ UNCHANGED <<ledger, imported>>
    BY <1>2, <1>4 DEF fall_back
  <2> HIDE DEF v
  <2>3. WorkOK(v)
    BY <2>1, NoWorkType DEF WorkOK
  <2>4. QED
    BY <1>1, <2>1, <2>2, <2>3, RunUpdates
<1>5. CASE mark_run_failed(r) \/ run_dies(r)
  <2> DEFINE v == [NoWork EXCEPT !.at = "over"]
  <2>1. /\ v \in Work /\ v.at = "over" /\ v.seen = {} /\ v.done = {}
        /\ v.queue = NoWork.queue /\ v.counter = 0 /\ v.max = 0
    BY NoWorkType DEF Work
  <2>2. Goes(r, v) /\ UNCHANGED imported
    BY <1>5 DEF mark_run_failed, run_dies, Stops
  <2>3. ledger' = [ledger EXCEPT ![r] = "failed"] \/ UNCHANGED ledger
    BY <1>5 DEF mark_run_failed, run_dies, Settled
  <2> HIDE DEF v
  <2>4. WorkOK(v)
    BY <2>1, NoWorkType DEF WorkOK
  <2>5. ledger' \in [Runs -> RunStatus] /\ \A q \in Runs \ {r} : ledger'[q] = ledger[q]
    BY <1>1, <2>3 DEF RunStatus
  <2>6. QED
    BY <1>1, <2>1, <2>2, <2>4, <2>5, RunUpdates
<1>6. CASE persist_sources(r) \/ finish_run(r)
  <2>1. PICK at \in {"finish", "over"} :
          /\ Goes(r, [w EXCEPT !.at = at])
          /\ \/ at = "over" /\ w.at = "finish" /\ ledger' = [ledger EXCEPT ![r] = w.result]
             \/ at = "finish" /\ w.at = "import" /\ UNCHANGED ledger
    BY <1>6 DEF persist_sources, finish_run, Settled
  <2> DEFINE v == [w EXCEPT !.at = at]
  <2>2. /\ v \in Work /\ v.at = at /\ v.result = w.result /\ v.seen = w.seen /\ v.done = w.done
        /\ v.queue = w.queue /\ v.counter = w.counter /\ v.max = w.max
    BY <1>1 DEF Work
  <2>3. Goes(r, v)
    BY <2>1
  <2> HIDE DEF v
  <2>4. WorkOK(v)
    BY <1>1, <2>1, <2>2 DEF WorkOK
  <2>5. w.result \in RunStatus
    BY <1>1 DEF Work, RunStatus
  <2>6. ledger' \in [Runs -> RunStatus] /\ \A q \in Runs \ {r} : ledger'[q] = ledger[q]
    BY <1>1, <2>1, <2>5
  <2>7. ledger'[r] = "completed" => v.at = "over" /\ v.seen \subseteq v.done
    BY <1>1, <1>2, <2>1, <2>2 DEF WorkOK
  <2>8. imported' \in 0 .. MaxImported
    BY <1>1, <1>6, RunAssumption DEF persist_sources, finish_run
  <2>9. QED
    BY <2>2, <2>3, <2>4, <2>6, <2>7, <2>8, RunUpdates
<1>7. QED
  BY <1>3, <1>4, <1>5, <1>6

\* What a run still owes is in its queue.
LEMMA RunInvariant == RunSpec => []RunInv
<1>1. RunInit => RunInv
  <2> SUFFICES ASSUME RunInit PROVE RunInv
    OBVIOUS
  <2>1. work \in [Runs -> Work] /\ \A r \in Runs : work[r] = NoWork /\ ledger[r] = "none"
    BY NoWorkType DEF RunInit
  <2>2. WorkOK(NoWork)
    BY NoWorkType DEF WorkOK, NoWork
  <2>3. QED
    BY <2>1, <2>2, RunAssumption DEF RunInit, RunInv, RunTypeOK, RunStatus, WorkOK
<1>2. RunInv /\ [RunNext]_runvars => RunInv'
  <2> SUFFICES ASSUME RunInv, [RunNext]_runvars PROVE RunInv'
    OBVIOUS
  <2>1. CASE UNCHANGED runvars
    BY <2>1 DEF runvars, RunInv, RunTypeOK
  <2>2. QED
    BY <2>1, StartRun, RunBlock, RunEnds DEF RunNext
<1>3. QED
  BY <1>1, <1>2, PTL DEF RunSpec

\* A run that counts as completed has a completed block for every topic of its outline
\* and for every topic it took in on the way, at every depth; what a run owes is in its
\* queue until then (routes/research.py, interest_growth_native/research.py).
THEOREM CompletedRuns == RunSpec => []CompletedIsWhole
<1>1. RunInv => CompletedIsWhole
  BY DEF RunInv, CompletedIsWhole
<1>2. QED
  BY <1>1, RunInvariant, PTL

-----------------------------------------------------------------------------
(* Writing: what the requests know of the rows while others commit. *)

DocumentsOK == \A d \in Documents : IF Open(d) THEN document[d].text \in Texts ELSE document[d].text = NoText

RevisionsOK == \A r \in Revisions :
  IF revision[r].status = "absent" THEN revision[r].doc = NoText /\ applied[r] = {}
  ELSE revision[r].doc \in Documents /\ revision[r].base \in Texts /\ revision[r].result \in Texts

WriteRequestOK(q) ==
  /\ q.op = "propose" => revision[q.rev].status = "absent"
  /\ q.op = "decide" => /\ revision[q.rev].status # "absent"
                        /\ q.accept => q.seen = revision[q.rev].base
  /\ q.op = "delete" => \A r \in q.revs : revision[r].status # "absent"

OneProposal == \A t, u \in WriteThreads : /\ wreq[t].op = "propose" /\ wreq[u].op = "propose"
                                          /\ wreq[t].rev = wreq[u].rev
                                          => t = u

WriteInv == /\ WriteTypeOK /\ DocumentsOK /\ RevisionsOK /\ OneProposal /\ AcceptedOnItsBase
            /\ \A t \in WriteThreads : WriteRequestOK(wreq[t])

\* What each kind of request holds.
LEMMA WriteRequestTypes ==
  ASSUME WriteTypeOK, NEW t \in WriteThreads
  PROVE  /\ wreq[t].op = "edit" => wreq[t].doc \in Documents /\ wreq[t].text \in Texts /\ wreq[t].seen \in Texts
         /\ wreq[t].op = "propose" => /\ wreq[t].doc \in Documents /\ wreq[t].rev \in Revisions
                                      /\ wreq[t].base \in Texts
         /\ wreq[t].op = "decide" => /\ wreq[t].rev \in Revisions /\ wreq[t].seen \in Texts
                                     /\ wreq[t].accept \in BOOLEAN
         /\ wreq[t].op = "delete" => wreq[t].doc \in Documents /\ wreq[t].revs \subseteq Revisions
<1>1. wreq[t] \in WriteRequests
  BY DEF WriteTypeOK
<1>2. QED
  BY <1>1 DEF WriteRequests, Free

\* A request that ends, or that opens knowing what it read, when the rows are as they were.
LEMMA WriteOpens ==
  ASSUME WriteInv, NEW t \in WriteThreads, NEW q \in WriteRequests, wreq' = [wreq EXCEPT ![t] = q],
         WriteRequestOK(q), UNCHANGED <<document, revision, applied, beaten>>,
         q.op = "propose" => \A u \in WriteThreads : wreq[u].op = "propose" => wreq[u].rev # q.rev
  PROVE  WriteInv'
<1>1. wreq' \in [WriteThreads -> WriteRequests] /\ wreq'[t] = q /\ \A u \in WriteThreads \ {t} : wreq'[u] = wreq[u]
  BY DEF WriteInv, WriteTypeOK
<1>2. WriteTypeOK' /\ DocumentsOK' /\ RevisionsOK' /\ AcceptedOnItsBase'
  BY <1>1 DEF WriteInv, WriteTypeOK, DocumentsOK, RevisionsOK, AcceptedOnItsBase, Open
<1>3. OneProposal'
  BY <1>1 DEF WriteInv, OneProposal
<1>4. \A u \in WriteThreads : WriteRequestOK(wreq[u])'
  <2> SUFFICES ASSUME NEW u \in WriteThreads PROVE WriteRequestOK(wreq[u])'
    OBVIOUS
  <2>1. WriteRequestOK(wreq'[u])
    BY <1>1 DEF WriteInv
  <2>2. QED
    BY <2>1 DEF WriteRequestOK
<1>5. QED
  BY <1>2, <1>3, <1>4 DEF WriteInv

LEMMA WriteReads ==
  ASSUME WriteInv, NEW t \in WriteThreads,
         \/ \E d \in Documents : edit_read(t, d) \/ delete_read(t, d)
         \/ \E d \in Documents : \E r \in Revisions : propose_read(t, d, r)
         \/ \E r \in Revisions : decide_read(t, r)
         \/ write_refused(t)
  PROVE  WriteInv'
<1>1. CASE \E d \in Documents : edit_read(t, d) \/ delete_read(t, d)
  <2>1. PICK d \in Documents : edit_read(t, d) \/ delete_read(t, d)
    BY <1>1
  <2>2. CASE edit_read(t, d)
    <3>1. document[d].text \in Texts
      BY <2>2 DEF edit_read, WriteInv, DocumentsOK
    <3>2. PICK x \in Texts : Asks(t, [op |-> "edit", doc |-> d, seen |-> document[d].text, text |-> x])
      BY <2>2 DEF edit_read
    <3>3. PICK q : q = [op |-> "edit", doc |-> d, seen |-> document[d].text, text |-> x]
      OBVIOUS
    <3>4. q \in WriteRequests /\ q.op = "edit" /\ wreq' = [wreq EXCEPT ![t] = q]
      BY <3>1, <3>2, <3>3 DEF WriteRequests, Asks
    <3>5. WriteRequestOK(q) /\ UNCHANGED <<document, revision, applied, beaten>>
      BY <2>2, <3>4 DEF WriteRequestOK, edit_read
    <3>6. QED
      BY <3>4, <3>5, WriteOpens
  <2>3. CASE delete_read(t, d)
    <3>1. PICK revs \in SUBSET Revisions : revs = {r \in Revisions : revision[r].doc = d /\ revision[r].status # "gone"}
      OBVIOUS
    <3>2. PICK q : q = [op |-> "delete", doc |-> d, revs |-> revs]
      OBVIOUS
    <3>3. /\ q \in WriteRequests /\ q.op = "delete" /\ q.revs = revs
          /\ wreq' = [wreq EXCEPT ![t] = q]
      BY <2>3, <3>1, <3>2 DEF WriteRequests, Asks, delete_read
    <3>4. \A r \in revs : revision[r].status # "absent"
      BY <3>1, WriteAssumption DEF WriteInv, RevisionsOK
    <3>5. WriteRequestOK(q) /\ UNCHANGED <<document, revision, applied, beaten>>
      BY <2>3, <3>3, <3>4 DEF WriteRequestOK, delete_read
    <3>6. QED
      BY <3>3, <3>5, WriteOpens
  <2>4. QED
    BY <2>1, <2>2, <2>3
<1>2. CASE \E d \in Documents : \E r \in Revisions : propose_read(t, d, r)
  <2>1. PICK d \in Documents, r \in Revisions : propose_read(t, d, r)
    BY <1>2
  <2>2. document[d].text \in Texts
    BY <2>1 DEF propose_read, WriteInv, DocumentsOK
  <2>3. PICK q : q = [op |-> "propose", doc |-> d, rev |-> r, base |-> document[d].text]
    OBVIOUS
  <2>4. /\ q \in WriteRequests /\ q.op = "propose" /\ q.rev = r
        /\ wreq' = [wreq EXCEPT ![t] = q]
    BY <2>1, <2>2, <2>3 DEF WriteRequests, Asks, propose_read
  <2>5. WriteRequestOK(q) /\ UNCHANGED <<document, revision, applied, beaten>>
    BY <2>1, <2>4 DEF WriteRequestOK, propose_read
  <2>6. \A u \in WriteThreads : wreq[u].op = "propose" => wreq[u].rev # q.rev
    BY <2>1, <2>4 DEF propose_read
  <2>7. QED
    BY <2>4, <2>5, <2>6, WriteOpens
<1>3. CASE \E r \in Revisions : decide_read(t, r)
  <2>1. PICK r \in Revisions : decide_read(t, r)
    BY <1>3
  <2>2. revision[r].status = "proposed" /\ Open(revision[r].doc) /\ UNCHANGED <<document, revision, applied, beaten>>
    BY <2>1 DEF decide_read
  <2>3. revision[r].doc \in Documents
    BY <2>2 DEF WriteInv, RevisionsOK
  <2>4. document[revision[r].doc].text \in Texts
    BY <2>2, <2>3 DEF WriteInv, DocumentsOK
  <2>5. PICK accept \in BOOLEAN :
          /\ accept => document[revision[r].doc].text = revision[r].base
          /\ Asks(t, [op |-> "decide", rev |-> r, seen |-> document[revision[r].doc].text, accept |-> accept])
    BY <2>1 DEF decide_read
  <2>6. PICK q : q = [op |-> "decide", rev |-> r, seen |-> document[revision[r].doc].text, accept |-> accept]
    OBVIOUS
  <2>7. /\ q \in WriteRequests /\ q.op = "decide" /\ q.rev = r /\ q.accept = accept
        /\ q.seen = document[revision[r].doc].text /\ wreq' = [wreq EXCEPT ![t] = q]
    BY <2>4, <2>5, <2>6 DEF WriteRequests, Asks
  <2>8. WriteRequestOK(q)
    BY <2>2, <2>5, <2>7 DEF WriteRequestOK
  <2>9. QED
    BY <2>2, <2>7, <2>8, WriteOpens
<1>4. CASE write_refused(t)
  <2>1. PICK q : q = Free
    OBVIOUS
  <2>2. /\ q \in WriteRequests /\ q.op = "idle" /\ wreq' = [wreq EXCEPT ![t] = q]
        /\ UNCHANGED <<document, revision, applied, beaten>>
    BY <1>4, <2>1 DEF write_refused, Ready, WriteRequests, Free
  <2>3. WriteRequestOK(q)
    BY <2>2 DEF WriteRequestOK
  <2>4. QED
    BY <2>2, <2>3, WriteOpens
<1>5. QED
  BY <1>1, <1>2, <1>3, <1>4

\* The other requests stay right when a request ends: a row that one of them names is not taken
\* from it, and a revision keeps the text it was proposed for.
LEMMA WriteEnds ==
  ASSUME WriteInv, NEW t \in WriteThreads, wreq' = [wreq EXCEPT ![t] = Free],
         \A r \in Revisions :
           IF revision[r].status = "absent"
           THEN revision'[r].status = "absent" \/ (wreq[t].op = "propose" /\ wreq[t].rev = r)
           ELSE revision'[r].status # "absent" /\ revision'[r].base = revision[r].base
  PROVE  /\ wreq' \in [WriteThreads -> WriteRequests]
         /\ OneProposal' /\ \A u \in WriteThreads : WriteRequestOK(wreq[u])'
<1>1. /\ Free \in WriteRequests /\ Free.op = "idle"
  BY DEF Free, WriteRequests
<1>2. /\ wreq' \in [WriteThreads -> WriteRequests] /\ wreq'[t] = Free
      /\ \A u \in WriteThreads \ {t} : wreq'[u] = wreq[u]
  BY <1>1 DEF WriteInv, WriteTypeOK
<1>3. OneProposal'
  BY <1>1, <1>2 DEF WriteInv, OneProposal
<1>4. \A u \in WriteThreads : WriteRequestOK(wreq[u])'
  <2> SUFFICES ASSUME NEW u \in WriteThreads PROVE WriteRequestOK(wreq[u])'
    OBVIOUS
  <2>1. CASE u = t
    BY <1>1, <1>2, <2>1 DEF WriteRequestOK
  <2>2. CASE u # t
    <3>1. wreq'[u] = wreq[u] /\ WriteRequestOK(wreq[u])
      BY <1>2, <2>2 DEF WriteInv
    <3>2. /\ wreq[u].op \in {"propose", "decide"} => wreq[u].rev \in Revisions
          /\ wreq[u].op = "delete" => wreq[u].revs \subseteq Revisions
      BY WriteRequestTypes DEF WriteInv
    <3>3. wreq[u].op = "propose" => revision'[wreq[u].rev].status = "absent"
      BY <2>2, <3>1, <3>2 DEF WriteInv, OneProposal, WriteRequestOK
    <3>4. QED
      BY <3>1, <3>2, <3>3 DEF WriteRequestOK
  <2>3. QED
    BY <2>1, <2>2
<1>5. QED
  BY <1>2, <1>3, <1>4

\* Rows that are written without a word to the revisions.
LEMMA WriteDocuments ==
  ASSUME WriteInv,
         \/ \E d \in Documents : create_document(d) \/ set_status(d)
         \/ \E t \in WriteThreads : update_document(t)
  PROVE  WriteInv'
<1>1. /\ document' \in [Documents -> [status : {"absent", "draft", "review", "published", "archived", "gone"},
                                      text : Texts \cup {NoText}]]
      /\ DocumentsOK' /\ UNCHANGED <<revision, applied, beaten>>
  <2>1. CASE \E d \in Documents : create_document(d)
    BY <2>1 DEF create_document, WriteInv, WriteTypeOK, DocumentsOK, Open
  <2>2. CASE \E d \in Documents : set_status(d)
    BY <2>2 DEF set_status, WriteInv, WriteTypeOK, DocumentsOK, Open
  <2>3. CASE \E t \in WriteThreads : update_document(t)
    <3>1. PICK t \in WriteThreads : update_document(t)
      BY <2>3
    <3>2. /\ wreq[t].doc \in Documents /\ wreq[t].text \in Texts /\ Open(wreq[t].doc)
      BY <3>1, WriteRequestTypes DEF update_document, WriteInv
    <3>3. document[wreq[t].doc].text \in Texts
      BY <3>2 DEF WriteInv, DocumentsOK
    <3>4. PICK x \in Texts : document' = [document EXCEPT ![wreq[t].doc].text = x]
      BY <3>1, <3>2, <3>3 DEF update_document
    <3>5. /\ document'[wreq[t].doc].text = x /\ document'[wreq[t].doc].status = document[wreq[t].doc].status
          /\ \A d \in Documents \ {wreq[t].doc} : document'[d] = document[d]
      BY <3>2, <3>4 DEF WriteInv, WriteTypeOK
    <3>6. \A d \in Documents : document'[d].status = document[d].status
      BY <3>5
    <3>7. DocumentsOK'
      BY <3>2, <3>5, <3>6 DEF WriteInv, DocumentsOK, Open
    <3>8. document' \in [Documents -> [status : {"absent", "draft", "review", "published", "archived", "gone"},
                                      text : Texts \cup {NoText}]]
      <4>1. document \in [Documents -> [status : {"absent", "draft", "review", "published", "archived", "gone"},
                                        text : Texts \cup {NoText}]]
        BY DEF WriteInv, WriteTypeOK
      <4>2. QED
        BY <3>4, <4>1
    <3>9. UNCHANGED <<revision, applied, beaten>>
      BY <3>1 DEF update_document
    <3>10. QED
      BY <3>7, <3>8, <3>9
  <2>4. QED
    BY <2>1, <2>2, <2>3
<1>2. /\ wreq' \in [WriteThreads -> WriteRequests]
      /\ OneProposal' /\ \A u \in WriteThreads : WriteRequestOK(wreq[u])'
  <2>1. CASE UNCHANGED wreq
    BY <1>1, <2>1 DEF WriteInv, WriteTypeOK, OneProposal, WriteRequestOK
  <2>2. CASE \E t \in WriteThreads : update_document(t)
    <3>1. PICK t \in WriteThreads : wreq' = [wreq EXCEPT ![t] = Free]
      BY <2>2 DEF update_document, Ready
    <3>2. QED
      BY <1>1, <3>1, WriteEnds
  <2>3. QED
    BY <2>1, <2>2 DEF create_document, set_status
<1>3. QED
  BY <1>1, <1>2 DEF WriteInv, WriteTypeOK, RevisionsOK, AcceptedOnItsBase

LEMMA WriteProposes ==
  ASSUME WriteInv, NEW t \in WriteThreads, propose_revision(t)
  PROVE  WriteInv'
<1> DEFINE r == wreq[t].rev
<1>1. /\ r \in Revisions /\ wreq[t].doc \in Documents /\ wreq[t].base \in Texts
      /\ wreq[t].op = "propose" /\ revision[r].status = "absent"
  BY WriteRequestTypes DEF propose_revision, WriteInv, WriteRequestOK
<1>2. PICK x \in Texts : revision' = [revision EXCEPT ![r] =
        [status |-> "proposed", doc |-> wreq[t].doc, base |-> wreq[t].base, result |-> x]]
  BY DEF propose_revision
<1>3. UNCHANGED <<document, applied, beaten>> /\ wreq' = [wreq EXCEPT ![t] = Free]
  BY DEF propose_revision, Ready
<1> HIDE DEF r
<1>4. /\ revision'[r].status = "proposed" /\ revision'[r].doc = wreq[t].doc
      /\ revision'[r].base = wreq[t].base /\ revision'[r].result = x
      /\ \A q \in Revisions \ {r} : revision'[q] = revision[q]
  BY <1>1, <1>2 DEF WriteInv, WriteTypeOK
<1>5. /\ wreq' \in [WriteThreads -> WriteRequests]
      /\ OneProposal' /\ \A u \in WriteThreads : WriteRequestOK(wreq[u])'
  <2>1. \A q \in Revisions :
          IF revision[q].status = "absent"
          THEN revision'[q].status = "absent" \/ (wreq[t].op = "propose" /\ wreq[t].rev = q)
          ELSE revision'[q].status # "absent" /\ revision'[q].base = revision[q].base
    BY <1>1, <1>4 DEF r
  <2>2. QED
    BY <1>3, <2>1, WriteEnds
<1>6. WriteTypeOK'
  BY <1>1, <1>2, <1>3, <1>5 DEF WriteInv, WriteTypeOK
<1>7. DocumentsOK' /\ RevisionsOK'
  BY <1>1, <1>3, <1>4 DEF WriteInv, DocumentsOK, RevisionsOK, Open
<1>8. AcceptedOnItsBase'
  BY <1>1, <1>3, <1>4 DEF WriteInv, RevisionsOK, AcceptedOnItsBase
<1>9. QED
  BY <1>5, <1>6, <1>7, <1>8 DEF WriteInv

LEMMA WriteDecides ==
  ASSUME WriteInv, NEW t \in WriteThreads, decide_revision(t)
  PROVE  WriteInv'
<1>1. PICK r, d, seen, accept :
        r = wreq[t].rev /\ d = revision[r].doc /\ seen = wreq[t].seen /\ accept = wreq[t].accept
  OBVIOUS
<1>2. /\ r \in Revisions /\ seen \in Texts /\ accept \in BOOLEAN
      /\ revision[r].status \notin {"absent", "gone"} /\ (accept => seen = revision[r].base)
  BY <1>1, WriteRequestTypes DEF decide_revision, WriteInv, WriteRequestOK
<1>3. d \in Documents /\ revision[r].base \in Texts /\ revision[r].result \in Texts
  BY <1>1, <1>2 DEF WriteInv, RevisionsOK
<1>4. IF Open(d) THEN document[d].text \in Texts ELSE document[d].text = NoText
  BY <1>3 DEF WriteInv, DocumentsOK
<1>5. /\ accept /\ revision[r].result # seen => Open(d)
      /\ revision' = [revision EXCEPT ![r].status = IF accept THEN "accepted" ELSE "rejected"]
      /\ document' = IF accept /\ revision[r].result # seen
                     THEN [document EXCEPT ![d].text = revision[r].result] ELSE document
      /\ applied' = IF accept /\ Open(d) THEN [applied EXCEPT ![r] = applied[r] \cup {document[d].text}] ELSE applied
      /\ beaten' = IF Overtakes(r, seen) THEN beaten \cup {r} ELSE beaten
      /\ wreq' = [wreq EXCEPT ![t] = Free]
  BY <1>1 DEF decide_revision, Ready
<1>6. PICK status \in {"accepted", "rejected"} : status = IF accept THEN "accepted" ELSE "rejected"
  OBVIOUS
<1>7. /\ revision' = [revision EXCEPT ![r].status = status]
      /\ revision'[r].status = status /\ revision'[r].doc = d
      /\ revision'[r].base = revision[r].base /\ revision'[r].result = revision[r].result
      /\ \A q \in Revisions \ {r} : revision'[q] = revision[q]
  BY <1>1, <1>2, <1>5, <1>6 DEF WriteInv, WriteTypeOK
<1>8. /\ wreq' \in [WriteThreads -> WriteRequests]
      /\ OneProposal' /\ \A u \in WriteThreads : WriteRequestOK(wreq[u])'
  <2>1. \A q \in Revisions :
          IF revision[q].status = "absent"
          THEN revision'[q].status = "absent" \/ (wreq[t].op = "propose" /\ wreq[t].rev = q)
          ELSE revision'[q].status # "absent" /\ revision'[q].base = revision[q].base
    BY <1>2, <1>7
  <2>2. QED
    BY <1>5, <2>1, WriteEnds
<1>9. WriteTypeOK'
  <2>1. document' \in [Documents -> [status : {"absent", "draft", "review", "published", "archived", "gone"},
                                     text : Texts \cup {NoText}]]
    BY <1>3, <1>5 DEF WriteInv, WriteTypeOK
  <2>2. revision' \in [Revisions -> [status : {"absent", "proposed", "accepted", "rejected", "gone"},
                                     doc : Documents \cup {NoText},
                                     base : Texts \cup {NoText}, result : Texts \cup {NoText}]]
    BY <1>2, <1>7, SMTT(30) DEF WriteInv, WriteTypeOK
  <2>3. applied' \in [Revisions -> SUBSET Texts] /\ beaten' \subseteq Revisions
    BY <1>2, <1>4, <1>5 DEF WriteInv, WriteTypeOK
  <2>4. QED
    BY <1>8, <2>1, <2>2, <2>3 DEF WriteTypeOK
<1>10. DocumentsOK'
  BY <1>2, <1>3, <1>4, <1>5 DEF WriteInv, WriteTypeOK, DocumentsOK, Open
<1>11. applied' \in [Revisions -> SUBSET Texts] /\ \A q \in Revisions \ {r} : applied'[q] = applied[q]
  BY <1>5, <1>9 DEF WriteTypeOK, WriteInv
<1>12. RevisionsOK'
  BY <1>2, <1>3, <1>7, <1>11 DEF WriteInv, RevisionsOK
<1>13. AcceptedOnItsBase'
  <2> SUFFICES ASSUME NEW q \in Revisions \ beaten'
               PROVE  /\ revision'[q].status = "accepted" => applied'[q] = {revision'[q].base}
                      /\ revision'[q].status \in {"proposed", "rejected"} => applied'[q] = {}
    BY DEF AcceptedOnItsBase
  <2>1. q \in Revisions \ beaten
    BY <1>5
  <2>2. CASE q # r
    BY <1>7, <1>11, <2>1, <2>2 DEF WriteInv, AcceptedOnItsBase
  <2>3. CASE q = r
    <3>1. ~Overtakes(r, seen)
      BY <1>5, <2>3
    <3>2. revision[r].status = "proposed" /\ document[d].text = seen /\ applied[r] = {}
      BY <1>1, <2>1, <2>3, <3>1 DEF Overtakes, WriteInv, AcceptedOnItsBase
    <3>3. Open(d)
      BY <1>2, <1>4, <3>2, WriteAssumption
    <3>4. applied'[r] = IF accept THEN {seen} ELSE {}
      BY <1>2, <1>5, <3>2, <3>3 DEF WriteInv, WriteTypeOK
    <3>5. QED
      BY <1>2, <1>6, <1>7, <2>3, <3>4
  <2>4. QED
    BY <2>2, <2>3
<1>14. QED
  BY <1>8, <1>9, <1>10, <1>12, <1>13 DEF WriteInv

LEMMA WriteDeletes ==
  ASSUME WriteInv, NEW t \in WriteThreads, delete_document(t)
  PROVE  WriteInv'
<1>1. PICK d, revs : d = wreq[t].doc /\ revs = wreq[t].revs
  OBVIOUS
<1>2. d \in Documents /\ revs \subseteq Revisions /\ \A r \in revs : revision[r].status # "absent"
  BY <1>1, WriteRequestTypes DEF delete_document, WriteInv, WriteRequestOK
<1>3. /\ document' = [document EXCEPT ![d] = [NoDocument EXCEPT !.status = "gone"]]
      /\ revision' = [r \in Revisions |-> IF r \in revs THEN [revision[r] EXCEPT !.status = "gone"] ELSE revision[r]]
      /\ wreq' = [wreq EXCEPT ![t] = Free] /\ UNCHANGED <<applied, beaten>>
  BY <1>1 DEF delete_document, Ready
<1>4. \A r \in Revisions : /\ revision'[r].doc = revision[r].doc /\ revision'[r].base = revision[r].base
                           /\ revision'[r].result = revision[r].result
                           /\ revision'[r].status = IF r \in revs THEN "gone" ELSE revision[r].status
  BY <1>3 DEF WriteInv, WriteTypeOK
<1>5. /\ wreq' \in [WriteThreads -> WriteRequests]
      /\ OneProposal' /\ \A u \in WriteThreads : WriteRequestOK(wreq[u])'
  <2>1. \A r \in Revisions :
          IF revision[r].status = "absent"
          THEN revision'[r].status = "absent" \/ (wreq[t].op = "propose" /\ wreq[t].rev = r)
          ELSE revision'[r].status # "absent" /\ revision'[r].base = revision[r].base
    BY <1>2, <1>4
  <2>2. QED
    BY <1>3, <2>1, WriteEnds
<1>6. WriteTypeOK'
  <2>1. document' \in [Documents -> [status : {"absent", "draft", "review", "published", "archived", "gone"},
                                     text : Texts \cup {NoText}]]
    BY <1>2, <1>3 DEF WriteInv, WriteTypeOK, NoDocument
  <2>2. revision' \in [Revisions -> [status : {"absent", "proposed", "accepted", "rejected", "gone"},
                                     doc : Documents \cup {NoText},
                                     base : Texts \cup {NoText}, result : Texts \cup {NoText}]]
    BY <1>3 DEF WriteInv, WriteTypeOK
  <2>3. QED
    BY <1>3, <1>5, <2>1, <2>2 DEF WriteInv, WriteTypeOK
<1>7. DocumentsOK'
  BY <1>2, <1>3 DEF WriteInv, WriteTypeOK, DocumentsOK, Open, NoDocument
<1>8. RevisionsOK' /\ AcceptedOnItsBase'
  BY <1>2, <1>3, <1>4 DEF WriteInv, RevisionsOK, AcceptedOnItsBase
<1>9. QED
  BY <1>5, <1>6, <1>7, <1>8 DEF WriteInv

\* What a request that writes has read of a revision stays true until it commits.
LEMMA WriteInvariant == WriteSpec => []WriteInv
<1>1. WriteInit => WriteInv
  BY DEF WriteInit, WriteInv, WriteTypeOK, DocumentsOK, RevisionsOK, OneProposal, AcceptedOnItsBase,
         WriteRequestOK, WriteRequests, NoDocument, NoRevision, Free, Open
<1>2. WriteInv /\ [WriteNext]_writevars => WriteInv'
  <2> SUFFICES ASSUME WriteInv, [WriteNext]_writevars PROVE WriteInv'
    OBVIOUS
  <2>1. CASE UNCHANGED writevars
    BY <2>1 DEF writevars, WriteInv, WriteTypeOK, DocumentsOK, RevisionsOK, OneProposal, AcceptedOnItsBase,
                WriteRequestOK, Open
  <2>2. CASE WriteNext
    BY <2>2, WriteReads, WriteDocuments, WriteProposes, WriteDecides, WriteDeletes DEF WriteNext
  <2>3. QED
    BY <2>1, <2>2
<1>3. QED
  BY <1>1, <1>2, PTL DEF WriteSpec

\* A revision that is accepted was put into the text it was proposed for and into no other, and a
\* rejected one into none, however many edits, proposals, decisions and deletions go on at once,
\* unless another commit fell between the comparison of the hash and the commit (pg_api/cowriter.py,
\* routes/cowriter.py).
THEOREM RevisionsOnTheirBase == WriteSpec => []AcceptedOnItsBase
<1>1. WriteInv => AcceptedOnItsBase
  BY DEF WriteInv
<1>2. QED
  BY <1>1, WriteInvariant, PTL

-----------------------------------------------------------------------------
(* Areas: a question stays where it was asked, and what a request found    *)
(* there holds when it commits.                                            *)

AreaRequestOK(r) ==
  /\ r.op = "transition" => /\ r.target # "active_topic"
                            /\ r.target = "returned" => r.seen.returned < MaxReturns
  /\ r.op \in {"promote", "topic"} /\ r.question # NoQuestion => question[r.question].area = r.area

AreaInv == /\ AreaTypeOK /\ PromotedHasTopic
           /\ \A q \in Questions : question[q].state = "absent" => question[q].area = NoArea
           /\ \A k \in Topics : IF topic[k].question = NoQuestion THEN TRUE
                                ELSE topic[k].at # "absent" /\ topic[k].area \in Areas
           /\ \A t \in AreaThreads : AreaRequestOK(areq[t])

LEMMA AreaRequestTypes ==
  ASSUME AreaTypeOK, NEW t \in AreaThreads
  PROVE  /\ areq[t].op = "transition" => /\ areq[t].question \in Questions /\ areq[t].seen \in Question
                                         /\ areq[t].target \in QuestionStates
         /\ areq[t].op = "promote" => /\ areq[t].question \in Questions /\ areq[t].seen \in Question
                                      /\ areq[t].area \in Areas
         /\ areq[t].op = "topic" => areq[t].question \in Questions \cup {NoQuestion} /\ areq[t].area \in Areas
<1>1. areq[t] \in AreaRequests
  BY DEF AreaTypeOK
<1>2. QED
  BY <1>1 DEF AreaRequests, AtRest

\* The requests of the others stay right as long as no question moves to another area.
LEMMA AreaKeeps ==
  ASSUME AreaInv, NEW t \in AreaThreads, NEW r \in AreaRequests,
         areq' = [areq EXCEPT ![t] = r] \/ UNCHANGED areq, AreaRequestOK(r) \/ UNCHANGED areq,
         \A q \in Questions : question'[q].area = question[q].area \/ question[q].area = NoArea
  PROVE  areq' \in [AreaThreads -> AreaRequests] /\ \A u \in AreaThreads : AreaRequestOK(areq[u])'
<1>1. areq' \in [AreaThreads -> AreaRequests] /\ \A u \in AreaThreads : areq'[u] \in {r, areq[u]}
  BY DEF AreaInv, AreaTypeOK
<1>2. ASSUME NEW u \in AreaThreads PROVE AreaRequestOK(areq[u])'
  <2>1. AreaRequestOK(areq'[u])
    BY <1>1 DEF AreaInv, AreaTypeOK
  <2>2. areq'[u] \in AreaRequests
    BY <1>1
  <2>3. /\ areq'[u].op \in {"promote", "topic"} /\ areq'[u].question # NoQuestion
           => areq'[u].question \in Questions /\ areq'[u].area \in Areas
    BY <2>2 DEF AreaRequests, AtRest
  <2>4. QED
    BY <2>1, <2>3, AreaAssumption DEF AreaRequestOK
<1>3. QED
  BY <1>1, <1>2

\* The areas and the requests alone: rows of areas, reading, and what is refused.
LEMMA AreaReads ==
  ASSUME AreaInv, UNCHANGED <<question, topic>>,
         area' \in [Areas -> [at : {"absent", "active", "archived"}, capability : {"unset", "on", "off"}]],
         areq' \in [AreaThreads -> AreaRequests], \A u \in AreaThreads : AreaRequestOK(areq'[u])
  PROVE  AreaInv'
<1>1. \A u \in AreaThreads : AreaRequestOK(areq[u])'
  BY DEF AreaRequestOK
<1>2. QED
  BY <1>1 DEF AreaInv, AreaTypeOK, PromotedHasTopic

LEMMA AreaRows ==
  ASSUME AreaInv,
         \/ \E a \in Areas : \/ create_interest_area(a) \/ restore_area(a) \/ set_area_capability(a)
                             \/ \E current \in Areas : update_area(a, current)
         \/ seed_default_area
  PROVE  AreaInv'
<1>1. /\ area \in [Areas -> [at : {"absent", "active", "archived"}, capability : {"unset", "on", "off"}]]
      /\ areq \in [AreaThreads -> AreaRequests]
      /\ \A t \in AreaThreads : AreaRequestOK(areq[t])
  BY DEF AreaInv, AreaTypeOK
<1>2. UNCHANGED <<question, topic>>
  BY DEF create_interest_area, restore_area, set_area_capability, update_area, seed_default_area
<1>3. area' \in [Areas -> [at : {"absent", "active", "archived"}, capability : {"unset", "on", "off"}]]
  <2>1. CASE \E a \in Areas : create_interest_area(a)
    BY <1>1, <2>1 DEF create_interest_area
  <2>2. CASE \E a \in Areas : restore_area(a)
    BY <1>1, <2>2 DEF restore_area
  <2>3. CASE \E a \in Areas : set_area_capability(a)
    BY <1>1, <2>3 DEF set_area_capability
  <2>4. CASE \E a, current \in Areas : update_area(a, current)
    BY <1>1, <2>4 DEF update_area
  <2>5. CASE seed_default_area
    <3>1. PICK c \in {"unset", "on", "off"} :
            c = IF area[DefaultArea].capability = "unset" THEN "on" ELSE area[DefaultArea].capability
      BY <1>1, AreaAssumption
    <3>2. area' = [area EXCEPT ![DefaultArea].capability = c]
      BY <2>5, <3>1 DEF seed_default_area
    <3>3. QED
      BY <1>1, <3>2
  <2>6. QED
    BY <2>1, <2>2, <2>3, <2>4, <2>5
<1>4. areq' \in [AreaThreads -> AreaRequests] /\ \A u \in AreaThreads : AreaRequestOK(areq'[u])
  <2>1. CASE UNCHANGED areq
    BY <1>1, <2>1
  <2>2. CASE seed_default_area
    BY <2>2 DEF seed_default_area, AtRest, AreaRequests, AreaRequestOK
  <2>3. QED
    BY <2>1, <2>2 DEF create_interest_area, restore_area, set_area_capability, update_area
<1>5. QED
  BY <1>2, <1>3, <1>4, AreaReads

LEMMA AreaOpens ==
  ASSUME AreaInv, NEW t \in AreaThreads,
         \/ \E a \in Areas : \/ \E q \in Questions : \/ promote_read(t, q, a)
                                                     \/ \E target \in QuestionStates : transition_read(t, q, a, target)
                             \/ \E q \in Questions \cup {NoQuestion} : topic_read(t, q, a)
         \/ area_refused(t)
  PROVE  AreaInv'
<1>1. /\ areq \in [AreaThreads -> AreaRequests] /\ \A u \in AreaThreads : AreaRequestOK(areq[u])
      /\ question \in [Questions -> Question]
      /\ area \in [Areas -> [at : {"absent", "active", "archived"}, capability : {"unset", "on", "off"}]]
  BY DEF AreaInv, AreaTypeOK
<1>2. UNCHANGED <<area, question, topic>>
  BY DEF promote_read, transition_read, topic_read, area_refused
<1>3. ASSUME NEW r \in AreaRequests, AreaRequestOK(r), areq' = [areq EXCEPT ![t] = r]
      PROVE  AreaInv'
  <2>1. areq' \in [AreaThreads -> AreaRequests] /\ \A u \in AreaThreads : AreaRequestOK(areq'[u])
    BY <1>1, <1>3
  <2>2. QED
    BY <1>1, <1>2, <2>1, AreaReads
<1>4. CASE \E a \in Areas, q \in Questions : promote_read(t, q, a)
  <2>1. PICK a \in Areas, q \in Questions : promote_read(t, q, a)
    BY <1>4
  <2>2. PICK r : r = [op |-> "promote", question |-> q, seen |-> question[q], area |-> a]
    OBVIOUS
  <2>3. r \in AreaRequests /\ areq' = [areq EXCEPT ![t] = r]
    BY <1>1, <2>1, <2>2 DEF promote_read, Opens, AreaRequests
  <2>4. AreaRequestOK(r)
    BY <2>1, <2>2 DEF promote_read, require_in_area, AreaRequestOK
  <2>5. QED
    BY <1>3, <2>3, <2>4
<1>5. CASE \E a \in Areas, q \in Questions, target \in QuestionStates : transition_read(t, q, a, target)
  <2>1. PICK a \in Areas, q \in Questions, target \in QuestionStates : transition_read(t, q, a, target)
    BY <1>5
  <2>2. PICK r : r = [op |-> "transition", question |-> q, seen |-> question[q], target |-> target]
    OBVIOUS
  <2>3. r \in AreaRequests /\ areq' = [areq EXCEPT ![t] = r]
    BY <1>1, <2>1, <2>2 DEF transition_read, Opens, AreaRequests
  <2>4. AreaRequestOK(r)
    BY <2>1, <2>2 DEF transition_read, AreaRequestOK
  <2>5. QED
    BY <1>3, <2>3, <2>4
<1>6. CASE \E a \in Areas, q \in Questions \cup {NoQuestion} : topic_read(t, q, a)
  <2>1. PICK a \in Areas, q \in Questions \cup {NoQuestion} : topic_read(t, q, a)
    BY <1>6
  <2>2. PICK r : r = [op |-> "topic", question |-> q, area |-> a]
    OBVIOUS
  <2>3. r \in AreaRequests /\ areq' = [areq EXCEPT ![t] = r]
    BY <1>1, <2>1, <2>2 DEF topic_read, Opens, AreaRequests
  <2>4. AreaRequestOK(r)
    BY <2>1, <2>2 DEF topic_read, AreaRequestOK
  <2>5. QED
    BY <1>3, <2>3, <2>4
<1>7. CASE area_refused(t)
  <2>1. PICK r : r = AtRest
    OBVIOUS
  <2>2. r \in AreaRequests /\ areq' = [areq EXCEPT ![t] = r] /\ AreaRequestOK(r)
    BY <1>7, <2>1 DEF area_refused, Closes, AreaRequests, AtRest, AreaRequestOK
  <2>3. QED
    BY <1>3, <2>2
<1>8. QED
  BY <1>4, <1>5, <1>6, <1>7

\* A transition leaves every question in its area.
LEMMA WrittenRow ==
  ASSUME AreaTypeOK, NEW q \in Questions, NEW seen \in Question, NEW target \in QuestionStates,
         target = "returned" => seen.returned < MaxReturns, question' = Written(q, seen, target)
  PROVE  /\ question' \in [Questions -> Question]
         /\ \A p \in Questions : question'[p].area = question[p].area
         /\ \A p \in Questions \ {q} : question'[p] = question[p]
         /\ question'[q].state \in {target, question[q].state}
<1>1. question \in [Questions -> Question] /\ question[q] \in Question
  BY DEF AreaTypeOK
<1>2. PICK state \in QuestionStates \cup {"absent"} :
        state = IF target = seen.state THEN question[q].state ELSE target
  BY <1>1 DEF Question
<1>3. PICK active \in BOOLEAN :
        active = IF Shows(target) = seen.active THEN question[q].active ELSE Shows(target)
  BY <1>1 DEF Question, Shows
<1>4. PICK returned \in 0 .. MaxReturns :
        returned = IF target = "returned" THEN seen.returned + 1 ELSE question[q].returned
  BY <1>1, AreaAssumption DEF Question
<1>5. question' = [question EXCEPT ![q] = [question[q] EXCEPT !.state = state, !.active = active,
                                                             !.returned = returned]]
  BY <1>2, <1>3, <1>4 DEF Written
<1>6. PICK row : row = [question[q] EXCEPT !.state = state, !.active = active, !.returned = returned]
  OBVIOUS
<1>7. row \in Question /\ row.area = question[q].area /\ row.state = state
  BY <1>1, <1>6 DEF Question
<1>8. question' = [question EXCEPT ![q] = row]
  BY <1>5, <1>6
<1>9. QED
  BY <1>1, <1>2, <1>7, <1>8

LEMMA AreaCloses ==
  ASSUME AreaInv, NEW t \in AreaThreads, Closes(t) \/ UNCHANGED areq,
         \A q \in Questions : question'[q].area = question[q].area \/ question[q].area = NoArea
  PROVE  areq' \in [AreaThreads -> AreaRequests] /\ \A u \in AreaThreads : AreaRequestOK(areq[u])'
<1>1. PICK r : r = AtRest
  OBVIOUS
<1>2. r \in AreaRequests /\ AreaRequestOK(r)
  BY <1>1 DEF AtRest, AreaRequests, AreaRequestOK
<1>3. areq' = [areq EXCEPT ![t] = r] \/ UNCHANGED areq
  BY <1>1 DEF Closes
<1>4. QED
  BY <1>2, <1>3, AreaKeeps

LEMMA QuestionRows ==
  ASSUME AreaInv,
         \/ \E a \in Areas : \/ \E q \in Questions : create_question(q, a)
                             \/ \E k \in Topics : archive_topic(k, a)
         \/ \E t \in AreaThreads : transition_commit(t)
  PROVE  AreaInv'
<1>1. CASE \E a \in Areas, q \in Questions : create_question(q, a)
  <2>1. PICK a \in Areas, q \in Questions : create_question(q, a)
    BY <1>1
  <2>2. PICK row : row = [state |-> "captured", active |-> TRUE, returned |-> 0, area |-> a]
    OBVIOUS
  <2>3. row \in Question /\ row.state = "captured" /\ row.area = a
    BY <2>2, AreaAssumption DEF Question, QuestionStates
  <2>4. /\ question' = [question EXCEPT ![q] = row] /\ question[q].state = "absent"
        /\ UNCHANGED <<area, topic, areq>>
    BY <2>1, <2>2 DEF create_question
  <2>5. /\ question' \in [Questions -> Question] /\ question'[q] = row /\ question[q].area = NoArea
        /\ \A p \in Questions \ {q} : question'[p] = question[p]
    BY <2>3, <2>4 DEF AreaInv, AreaTypeOK
  <2>6. \A k \in Topics : topic[k].question # q
    BY <2>5, AreaAssumption DEF AreaInv, PromotedHasTopic
  <2>7. areq' \in [AreaThreads -> AreaRequests] /\ \A u \in AreaThreads : AreaRequestOK(areq[u])'
    <3>1. \A u \in AreaThreads : areq[u] \in AreaRequests /\ AreaRequestOK(areq[u])
      BY DEF AreaInv, AreaTypeOK
    <3>2. ASSUME NEW u \in AreaThreads PROVE AreaRequestOK(areq[u])'
      <4>1. areq[u].op \in {"promote", "topic"} /\ areq[u].question # NoQuestion
              => areq[u].question \in Questions /\ areq[u].area \in Areas
        BY AreaRequestTypes DEF AreaInv
      <4>2. QED
        BY <2>4, <2>5, <3>1, <4>1, AreaAssumption DEF AreaRequestOK
    <3>3. QED
      BY <2>4, <3>1, <3>2 DEF AreaInv, AreaTypeOK
  <2>8. PromotedHasTopic'
    BY <2>3, <2>4, <2>5, <2>6 DEF AreaInv, AreaTypeOK, PromotedHasTopic
  <2>9. \A p \in Questions : question'[p].state = "absent" => question'[p].area = NoArea
    BY <2>3, <2>5 DEF AreaInv
  <2>10. QED
    BY <2>4, <2>5, <2>7, <2>8, <2>9 DEF AreaInv, AreaTypeOK
<1>2. CASE \E a \in Areas, k \in Topics : archive_topic(k, a)
  <2>1. PICK k \in Topics, at \in {"active", "archived"} :
          topic[k].at # "absent" /\ topic' = [topic EXCEPT ![k].at = at]
    BY <1>2 DEF archive_topic
  <2>2. UNCHANGED <<area, question, areq>>
    BY <1>2 DEF archive_topic
  <2>3. /\ topic' \in [Topics -> [at : {"absent", "active", "archived"}, question : Questions \cup {NoQuestion},
                                  area : Areas \cup {NoArea}]]
        /\ \A j \in Topics : /\ topic'[j].question = topic[j].question /\ topic'[j].area = topic[j].area
                             /\ topic'[j].at = "absent" => topic[j].at = "absent"
    BY <2>1 DEF AreaInv, AreaTypeOK
  <2>4. \A u \in AreaThreads : AreaRequestOK(areq[u])'
    BY <2>2 DEF AreaInv, AreaRequestOK
  <2>5. QED
    BY <2>2, <2>3, <2>4 DEF AreaInv, AreaTypeOK, PromotedHasTopic
<1>3. CASE \E t \in AreaThreads : transition_commit(t)
  <2>1. PICK t \in AreaThreads : transition_commit(t)
    BY <1>3
  <2>2. PICK q, seen, target : q = areq[t].question /\ seen = areq[t].seen /\ target = areq[t].target
    OBVIOUS
  <2>3. /\ q \in Questions /\ seen \in Question /\ target \in QuestionStates
        /\ target # "active_topic" /\ (target = "returned" => seen.returned < MaxReturns)
        /\ question' = Written(q, seen, target) /\ Closes(t) /\ UNCHANGED <<area, topic>>
    BY <2>1, <2>2, AreaRequestTypes DEF transition_commit, AreaInv, AreaRequestOK
  <2>4. /\ question' \in [Questions -> Question]
        /\ \A p \in Questions : question'[p].area = question[p].area
        /\ \A p \in Questions \ {q} : question'[p] = question[p]
        /\ question'[q].state \in {target, question[q].state}
    BY <2>3, WrittenRow DEF AreaInv
  <2>5. areq' \in [AreaThreads -> AreaRequests] /\ \A u \in AreaThreads : AreaRequestOK(areq[u])'
    BY <2>3, <2>4, AreaCloses
  <2>6. PromotedHasTopic'
    BY <2>3, <2>4 DEF AreaInv, AreaTypeOK, PromotedHasTopic
  <2>7. \A p \in Questions : question'[p].state = "absent" => question'[p].area = NoArea
    BY <2>3, <2>4 DEF AreaInv, QuestionStates
  <2>8. QED
    BY <2>3, <2>4, <2>5, <2>6, <2>7 DEF AreaInv, AreaTypeOK
<1>4. QED
  BY <1>1, <1>2, <1>3

\* The new topic of a request, with or without a transition of its question.
LEMMA TopicRows ==
  ASSUME AreaInv, NEW t \in AreaThreads, promote_to_topic(t) \/ create_topic(t)
  PROVE  AreaInv'
<1>1. PICK k \in Topics : Bound(t, k)
  BY DEF promote_to_topic, create_topic
<1>2. PICK q, a : q = areq[t].question /\ a = areq[t].area
  OBVIOUS
<1>3. /\ q \in Questions \cup {NoQuestion} /\ a \in Areas /\ (q # NoQuestion => question[q].area = a)
      /\ Closes(t) /\ UNCHANGED area
  BY <1>2, AreaRequestTypes DEF AreaInv, AreaRequestOK, promote_to_topic, create_topic
<1>4. PICK row : row = [at |-> "active", question |-> q, area |-> a]
  OBVIOUS
<1>5. topic[k].at = "absent" /\ topic' = [topic EXCEPT ![k] = row]
  BY <1>1, <1>2, <1>4 DEF Bound
<1>6. /\ topic' \in [Topics -> [at : {"absent", "active", "archived"}, question : Questions \cup {NoQuestion},
                                area : Areas \cup {NoArea}]]
      /\ topic'[k].at = "active" /\ topic'[k].question = q /\ topic'[k].area = a
      /\ \A j \in Topics \ {k} : topic'[j] = topic[j]
  BY <1>3, <1>4, <1>5 DEF AreaInv, AreaTypeOK
<1>7. topic[k].question = NoQuestion
  BY <1>5 DEF AreaInv
<1>8. /\ question' \in [Questions -> Question]
      /\ \A p \in Questions : /\ question'[p].area = question[p].area
                              /\ question'[p].state = question[p].state \/ (p = q /\ question'[p].state = "active_topic")
  <2>1. CASE create_topic(t)
    BY <2>1 DEF create_topic, AreaInv, AreaTypeOK
  <2>2. CASE promote_to_topic(t)
    <3>1. PICK seen, target : seen = areq[t].seen /\ target = "active_topic"
      OBVIOUS
    <3>2. /\ q \in Questions /\ seen \in Question /\ target \in QuestionStates /\ target # "returned"
          /\ question' = Written(q, seen, target)
      BY <1>2, <2>2, <3>1, AreaRequestTypes DEF promote_to_topic, AreaInv, QuestionStates
    <3>3. /\ question' \in [Questions -> Question]
          /\ \A p \in Questions : question'[p].area = question[p].area
          /\ \A p \in Questions \ {q} : question'[p] = question[p]
          /\ question'[q].state \in {target, question[q].state}
      BY <3>2, WrittenRow DEF AreaInv
    <3>4. QED
      BY <3>1, <3>3
  <2>3. QED
    BY <2>1, <2>2
<1>9. areq' \in [AreaThreads -> AreaRequests] /\ \A u \in AreaThreads : AreaRequestOK(areq[u])'
  BY <1>3, <1>8, AreaCloses
<1>10. PromotedHasTopic'
  <2>1. ASSUME NEW p \in Questions, question'[p].state = "active_topic"
        PROVE  \E j \in Topics : topic'[j].question = p
    <3>1. CASE p = q
      BY <1>6, <3>1
    <3>2. CASE p # q
      <4>1. PICK j \in Topics : topic[j].question = p
        BY <1>8, <2>1, <3>2 DEF AreaInv, PromotedHasTopic
      <4>2. j # k
        BY <1>7, <4>1, AreaAssumption
      <4>3. QED
        BY <1>6, <4>1, <4>2
    <3>3. QED
      BY <3>1, <3>2
  <2>2. ASSUME NEW j \in Topics, topic'[j].question # NoQuestion
        PROVE  topic'[j].area = question'[topic'[j].question].area
    <3>1. topic'[j].question \in Questions
      BY <1>6, <2>2
    <3>2. topic'[j].area = question[topic'[j].question].area
      BY <1>3, <1>6, <2>2 DEF AreaInv, PromotedHasTopic
    <3>3. QED
      BY <1>8, <3>1, <3>2
  <2>3. QED
    BY <2>1, <2>2 DEF PromotedHasTopic
<1>11. \A p \in Questions : question'[p].state = "absent" => question'[p].area = NoArea
  BY <1>8 DEF AreaInv
<1>12. \A j \in Topics : IF topic'[j].question = NoQuestion THEN TRUE
                         ELSE topic'[j].at # "absent" /\ topic'[j].area \in Areas
  BY <1>3, <1>6 DEF AreaInv
<1>13. QED
  BY <1>3, <1>6, <1>8, <1>9, <1>10, <1>11, <1>12 DEF AreaInv, AreaTypeOK

\* A topic lies in the area of its question, and what a request found there holds.
LEMMA AreaInvariant == AreaSpec => []AreaInv
<1>1. AreaInit => AreaInv
  BY AreaAssumption DEF AreaInit, AreaInv, AreaTypeOK, PromotedHasTopic, NoQuestionRow, NoTopicRow, AtRest,
     AreaRequests, AreaRequestOK, Question
<1>2. AreaInv /\ [AreaNext]_areavars => AreaInv'
  <2> SUFFICES ASSUME AreaInv, [AreaNext]_areavars PROVE AreaInv'
    OBVIOUS
  <2>1. CASE UNCHANGED areavars
    BY <2>1 DEF areavars, AreaInv, AreaTypeOK, PromotedHasTopic, AreaRequestOK
  <2>2. CASE AreaNext
    BY <2>2, AreaRows, AreaOpens, QuestionRows, TopicRows DEF AreaNext
  <2>3. QED
    BY <2>1, <2>2
<1>3. QED
  BY <1>1, <1>2, PTL DEF AreaSpec

\* A question that counts as a topic has one, and the topic lies in the question's area, whatever
\* transitions overlap and whichever area is archived between the reading and the commit
\* (routes/questions.py: promote_to_topic; question_transitions.py; scoping.py).
THEOREM PromotionsKept == AreaSpec => []PromotedHasTopic
<1>1. AreaInv => PromotedHasTopic
  BY DEF AreaInv
<1>2. QED
  BY <1>1, AreaInvariant, PTL

-----------------------------------------------------------------------------
(* Practice: a row is made once, and what refers to it is counted. *)

NewAttempts ==
  /\ \A t \in LearnThreads : lreq[t].op = "try" => attempt[lreq[t].attempt].at = "absent"
  /\ \A t, u \in LearnThreads : /\ lreq[t].op = "try" /\ lreq[u].op = "try" /\ lreq[t].attempt = lreq[u].attempt
                                => t = u

LearnInv == /\ LearnTypeOK /\ EvidenceHasAttempt /\ NewAttempts
            /\ \A a \in Attempts : Held(attempt[a]) => attempt[a].item \in Items
            /\ \A m \in Proofs : Held(proof[m]) => proof[m].attempt \in Attempts

LEMMA LearnRequestTypes ==
  ASSUME LearnTypeOK, NEW t \in LearnThreads
  PROVE  /\ lreq[t].op = "try" => lreq[t].item \in Items /\ lreq[t].attempt \in Attempts
         /\ lreq[t].op = "promote" => lreq[t].attempt \in Attempts /\ lreq[t].concept \in Concepts
         /\ lreq[t].op = "drop item" => lreq[t].item \in Items /\ lreq[t].attempts \subseteq Attempts
         /\ lreq[t].op = "drop concept" => /\ lreq[t].concept \in Concepts /\ lreq[t].items \subseteq Items
                                           /\ lreq[t].attempts \subseteq Attempts
                                           /\ lreq[t].proofs \subseteq Proofs
<1>1. lreq[t] \in LearnRequests
  BY DEF LearnTypeOK
<1>2. PICK r : r = lreq[t]
  OBVIOUS
<1>3. \/ r = Waiting
      \/ r \in [op : {"try"}, item : Items, attempt : Attempts]
      \/ r \in [op : {"promote"}, attempt : Attempts, concept : Concepts, seen : BOOLEAN]
      \/ r \in [op : {"drop item"}, item : Items, attempts : SUBSET Attempts]
      \/ r \in [op : {"drop concept"}, concept : Concepts, items : SUBSET Items, attempts : SUBSET Attempts,
                proofs : SUBSET Proofs]
  BY <1>1, <1>2, Zenon DEF LearnRequests
<1>4. CASE r = Waiting
  BY <1>2, <1>4 DEF Waiting
<1>5. CASE r \in [op : {"try"}, item : Items, attempt : Attempts]
  BY <1>2, <1>5
<1>6. CASE r \in [op : {"promote"}, attempt : Attempts, concept : Concepts, seen : BOOLEAN]
  BY <1>2, <1>6
<1>7. CASE r \in [op : {"drop item"}, item : Items, attempts : SUBSET Attempts]
  BY <1>2, <1>7
<1>8. CASE r \in [op : {"drop concept"}, concept : Concepts, items : SUBSET Items, attempts : SUBSET Attempts,
                  proofs : SUBSET Proofs]
  BY <1>2, <1>8
<1>9. QED
  BY <1>3, <1>4, <1>5, <1>6, <1>7, <1>8

\* A request that ends leaves what it found to the others, new attempts but its own.
LEMMA LearnEnds ==
  ASSUME LearnInv, NEW t \in LearnThreads, lreq' = [lreq EXCEPT ![t] = Waiting],
         \A a \in Attempts : attempt[a].at = "absent" =>
           attempt'[a].at = "absent" \/ (lreq[t].op = "try" /\ lreq[t].attempt = a)
  PROVE  lreq' \in [LearnThreads -> LearnRequests] /\ NewAttempts'
<1>1. Waiting \in LearnRequests /\ Waiting.op = "idle"
  BY DEF Waiting, LearnRequests
<1>2. /\ lreq' \in [LearnThreads -> LearnRequests] /\ lreq'[t] = Waiting
      /\ \A u \in LearnThreads \ {t} : lreq'[u] = lreq[u]
  BY <1>1 DEF LearnInv, LearnTypeOK
<1>3. ASSUME NEW u \in LearnThreads, lreq'[u].op = "try"
      PROVE  attempt'[lreq'[u].attempt].at = "absent"
  <2>1. u # t /\ lreq'[u] = lreq[u] /\ lreq[u].op = "try" /\ lreq[u].attempt \in Attempts
    BY <1>1, <1>2, <1>3, LearnRequestTypes DEF LearnInv
  <2>2. attempt[lreq[u].attempt].at = "absent"
    BY <2>1 DEF LearnInv, NewAttempts
  <2>3. ~(lreq[t].op = "try" /\ lreq[t].attempt = lreq[u].attempt)
    BY <2>1 DEF LearnInv, NewAttempts
  <2>4. QED
    BY <2>1, <2>2, <2>3
<1>4. NewAttempts'
  <2>1. \A u, v \in LearnThreads : /\ lreq'[u].op = "try" /\ lreq'[v].op = "try" /\ lreq'[u].attempt = lreq'[v].attempt
                                   => u = v
    BY <1>1, <1>2 DEF LearnInv, NewAttempts
  <2>2. QED
    BY <1>3, <2>1 DEF NewAttempts
<1>5. QED
  BY <1>2, <1>4

\* A request that opens changes no row.
LEMMA LearnOpens ==
  ASSUME LearnInv, NEW t \in LearnThreads, NEW r \in LearnRequests, lreq' = [lreq EXCEPT ![t] = r],
         UNCHANGED <<concept, item, attempt, proof, strayed>>,
         r.op = "try" => /\ attempt[r.attempt].at = "absent"
                         /\ \A u \in LearnThreads : lreq[u].op = "try" => lreq[u].attempt # r.attempt
  PROVE  LearnInv'
<1>1. /\ lreq' \in [LearnThreads -> LearnRequests] /\ lreq'[t] = r
      /\ \A u \in LearnThreads \ {t} : lreq'[u] = lreq[u]
  BY DEF LearnInv, LearnTypeOK
<1>2. NewAttempts'
  BY <1>1 DEF LearnInv, NewAttempts
<1>3. QED
  BY <1>1, <1>2 DEF LearnInv, LearnTypeOK, EvidenceHasAttempt, Held

LEMMA LearnReads ==
  ASSUME LearnInv, NEW t \in LearnThreads,
         \/ \E c \in Concepts : drop_concept_read(t, c)
         \/ \E i \in Items : drop_item_read(t, i) \/ \E a \in Attempts : try_read(t, i, a)
         \/ \E a \in Attempts : attempt_read(t, a)
         \/ learn_refused(t)
  PROVE  LearnInv'
<1>1. CASE \E c \in Concepts : drop_concept_read(t, c)
  <2>1. PICK c \in Concepts : drop_concept_read(t, c)
    BY <1>1
  <2>2. PICK its \in SUBSET Items, ms \in SUBSET Proofs :
          /\ its = {i \in Items : Held(item[i]) /\ item[i].concept = c}
          /\ ms = {m \in Proofs : Held(proof[m]) /\ proof[m].concept = c}
    OBVIOUS
  <2>3. PICK as \in SUBSET Attempts : as = UNION {Of(i) : i \in its}
    BY DEF Of
  <2>4. PICK r : r = [op |-> "drop concept", concept |-> c, items |-> its, attempts |-> as, proofs |-> ms]
    OBVIOUS
  <2>5. r \in LearnRequests /\ r.op = "drop concept"
    BY <2>4 DEF LearnRequests
  <2>6. lreq' = [lreq EXCEPT ![t] = r] /\ UNCHANGED <<concept, item, attempt, proof, strayed>>
    BY <2>1, <2>2, <2>3, <2>4 DEF drop_concept_read, Begins
  <2>7. QED
    BY <2>5, <2>6, LearnOpens
<1>2. CASE \E i \in Items : drop_item_read(t, i)
  <2>1. PICK i \in Items : drop_item_read(t, i)
    BY <1>2
  <2>2. PICK as \in SUBSET Attempts : as = Of(i)
    BY DEF Of
  <2>3. PICK r : r = [op |-> "drop item", item |-> i, attempts |-> as]
    OBVIOUS
  <2>4. r \in LearnRequests /\ r.op = "drop item"
    BY <2>3 DEF LearnRequests
  <2>5. lreq' = [lreq EXCEPT ![t] = r] /\ UNCHANGED <<concept, item, attempt, proof, strayed>>
    BY <2>1, <2>2, <2>3 DEF drop_item_read, Begins
  <2>6. QED
    BY <2>4, <2>5, LearnOpens
<1>3. CASE \E i \in Items : \E a \in Attempts : try_read(t, i, a)
  <2>1. PICK i \in Items, a \in Attempts : try_read(t, i, a)
    BY <1>3
  <2>2. PICK r : r = [op |-> "try", item |-> i, attempt |-> a]
    OBVIOUS
  <2>3. r \in LearnRequests /\ r.attempt = a
    BY <2>2 DEF LearnRequests
  <2>4. /\ lreq' = [lreq EXCEPT ![t] = r] /\ UNCHANGED <<concept, item, attempt, proof, strayed>>
        /\ attempt[a].at = "absent" /\ \A u \in LearnThreads : lreq[u].op = "try" => lreq[u].attempt # a
    BY <2>1, <2>2 DEF try_read, Begins
  <2>5. QED
    BY <2>3, <2>4, LearnOpens
<1>4. CASE \E a \in Attempts : attempt_read(t, a)
  <2>1. PICK a \in Attempts : attempt_read(t, a)
    BY <1>4
  <2>2. PICK c, seen : c = item[attempt[a].item].concept /\ seen = attempt[a].promoted
    OBVIOUS
  <2>3. c \in Concepts /\ seen \in BOOLEAN
    BY <2>1, <2>2 DEF attempt_read, LearnInv, LearnTypeOK, AnyConcept
  <2>4. PICK r : r = [op |-> "promote", attempt |-> a, concept |-> c, seen |-> seen]
    OBVIOUS
  <2>5. r \in LearnRequests /\ r.op = "promote"
    BY <2>3, <2>4 DEF LearnRequests
  <2>6. lreq' = [lreq EXCEPT ![t] = r] /\ UNCHANGED <<concept, item, attempt, proof, strayed>>
    BY <2>1, <2>2, <2>4 DEF attempt_read, Begins
  <2>7. QED
    BY <2>5, <2>6, LearnOpens
<1>5. CASE learn_refused(t)
  <2>1. PICK r : r = Waiting
    OBVIOUS
  <2>2. /\ r \in LearnRequests /\ r.op = "idle" /\ lreq' = [lreq EXCEPT ![t] = r]
        /\ UNCHANGED <<concept, item, attempt, proof, strayed>>
    BY <1>5, <2>1 DEF learn_refused, Finishes, LearnRequests, Waiting
  <2>3. QED
    BY <2>2, LearnOpens
<1>6. QED
  BY <1>1, <1>2, <1>3, <1>4, <1>5

\* Rows of concepts and items, which evidence does not refer to.
LEMMA LearnRows ==
  ASSUME LearnInv,
         \/ \E c \in Concepts : create_concept(c) \/ update_mastery(c) \/ archive_concept(c)
         \/ \E i \in Items : create_practice_item(i) \/ update_practice(i)
  PROVE  LearnInv'
<1>1. UNCHANGED <<attempt, proof, lreq, strayed>>
  BY DEF create_concept, update_mastery, archive_concept, create_practice_item, update_practice
<1>2. concept' \in [Concepts -> [at : RowStates, mastery : 0 .. MasteryStates]]
  <2>1. /\ concept \in [Concepts -> [at : RowStates, mastery : 0 .. MasteryStates]]
        /\ 1 \in 0 .. MasteryStates /\ 1 .. MasteryStates \subseteq 0 .. MasteryStates
    BY LearningAssumption DEF LearnInv, LearnTypeOK
  <2>2. QED
    BY <2>1 DEF create_concept, update_mastery, archive_concept, create_practice_item, update_practice, RowStates
<1>3. item' \in [Items -> [at : RowStates, concept : AnyConcept]]
  BY DEF create_concept, update_mastery, archive_concept, create_practice_item, update_practice, RowStates,
         AnyConcept, LearnInv, LearnTypeOK
<1>4. NewAttempts'
  BY <1>1 DEF LearnInv, NewAttempts
<1>5. QED
  BY <1>1, <1>2, <1>3, <1>4 DEF LearnInv, LearnTypeOK, EvidenceHasAttempt, Held

LEMMA LearnInvalidates ==
  ASSUME LearnInv, NEW m \in Proofs, invalidate_mastery_evidence(m)
  PROVE  LearnInv'
<1>1. /\ Held(proof[m]) /\ proof' = [proof EXCEPT ![m].at = "invalidated"]
      /\ UNCHANGED <<concept, item, attempt, lreq, strayed>>
  BY DEF invalidate_mastery_evidence
<1>2. proof' \in [Proofs -> [at : {"absent", "active", "invalidated", "gone"}, concept : AnyConcept,
                             attempt : Attempts \cup {NoAttempt}]]
  BY <1>1 DEF LearnInv, LearnTypeOK
<1>3. \A x \in Proofs : proof'[x].attempt = proof[x].attempt /\ (Held(proof'[x]) => Held(proof[x]))
  BY <1>1 DEF LearnInv, LearnTypeOK
<1>4. NewAttempts'
  BY <1>1 DEF LearnInv, NewAttempts
<1>5. QED
  BY <1>1, <1>2, <1>3, <1>4 DEF LearnInv, LearnTypeOK, EvidenceHasAttempt

LEMMA LearnTries ==
  ASSUME LearnInv, NEW t \in LearnThreads, record_practice_attempt(t)
  PROVE  LearnInv'
<1>1. PICK a, i : a = lreq[t].attempt /\ i = lreq[t].item
  OBVIOUS
<1>2. /\ a \in Attempts /\ i \in Items /\ attempt[a].at = "absent" /\ lreq[t].op = "try"
      /\ attempt' = [attempt EXCEPT ![a] = [at |-> "stored", item |-> i, promoted |-> FALSE]]
      /\ lreq' = [lreq EXCEPT ![t] = Waiting] /\ UNCHANGED <<concept, item, proof, strayed>>
  BY <1>1, LearnRequestTypes DEF record_practice_attempt, Finishes, LearnInv, NewAttempts
<1>3. /\ attempt' \in [Attempts -> [at : {"absent", "stored", "gone"}, item : Items \cup {NoConcept}, promoted : BOOLEAN]]
      /\ attempt'[a].item = i /\ \A b \in Attempts \ {a} : attempt'[b] = attempt[b]
  BY <1>2 DEF LearnInv, LearnTypeOK
<1>4. lreq' \in [LearnThreads -> LearnRequests] /\ NewAttempts'
  <2>1. \A b \in Attempts : attempt[b].at = "absent" =>
           attempt'[b].at = "absent" \/ (lreq[t].op = "try" /\ lreq[t].attempt = b)
    BY <1>1, <1>2, <1>3
  <2>2. QED
    BY <1>2, <2>1, LearnEnds
<1>5. EvidenceHasAttempt'
  <2>1. \A m \in Proofs : Held(proof[m]) /\ proof[m].attempt \notin strayed => proof[m].attempt # a
    BY <1>2 DEF LearnInv, EvidenceHasAttempt, Held
  <2>2. QED
    BY <1>2, <1>3, <2>1 DEF LearnInv, EvidenceHasAttempt
<1>6. \A b \in Attempts : Held(attempt'[b]) => attempt'[b].item \in Items
  BY <1>2, <1>3 DEF LearnInv
<1>7. QED
  BY <1>2, <1>3, <1>4, <1>5, <1>6 DEF LearnInv, LearnTypeOK

LEMMA LearnPromotes ==
  ASSUME LearnInv, NEW t \in LearnThreads, promote_attempt_to_mastery_evidence(t)
  PROVE  LearnInv'
<1>1. PICK a, c : a = lreq[t].attempt /\ c = lreq[t].concept
  OBVIOUS
<1>2. /\ a \in Attempts /\ c \in Concepts
      /\ attempt' = [attempt EXCEPT ![a].promoted = TRUE]
      /\ strayed' = IF Held(attempt[a]) THEN strayed ELSE strayed \cup {a}
      /\ lreq' = [lreq EXCEPT ![t] = Waiting] /\ UNCHANGED <<concept, item>>
  BY <1>1, LearnRequestTypes DEF promote_attempt_to_mastery_evidence, Finishes, LearnInv
<1>3. PICK m \in Proofs : proof' = [proof EXCEPT ![m] = [at |-> "active", concept |-> c, attempt |-> a]]
  BY <1>1 DEF promote_attempt_to_mastery_evidence, Proven
<1>4. /\ attempt' \in [Attempts -> [at : {"absent", "stored", "gone"}, item : Items \cup {NoConcept}, promoted : BOOLEAN]]
      /\ attempt'[a].promoted = TRUE
      /\ \A b \in Attempts : /\ attempt'[b].at = attempt[b].at /\ attempt'[b].item = attempt[b].item
                             /\ attempt[b].promoted => attempt'[b].promoted
  <2>1. PICK row : row = [attempt[a] EXCEPT !.promoted = TRUE]
    OBVIOUS
  <2>2. /\ row \in [at : {"absent", "stored", "gone"}, item : Items \cup {NoConcept}, promoted : BOOLEAN]
        /\ row.promoted = TRUE /\ row.at = attempt[a].at /\ row.item = attempt[a].item
    BY <1>2, <2>1, ZenonT(60) DEF LearnInv, LearnTypeOK
  <2>3. attempt' = [attempt EXCEPT ![a] = row]
    BY <1>2, <2>1
  <2>4. attempt'[a] = row /\ \A b \in Attempts \ {a} : attempt'[b] = attempt[b]
    BY <1>2, <2>3 DEF LearnInv, LearnTypeOK
  <2>5. attempt' \in [Attempts -> [at : {"absent", "stored", "gone"}, item : Items \cup {NoConcept}, promoted : BOOLEAN]]
    BY <1>2, <2>2, <2>3 DEF LearnInv, LearnTypeOK
  <2>6. QED
    BY <1>2, <2>2, <2>4, <2>5
<1>5. /\ proof' \in [Proofs -> [at : {"absent", "active", "invalidated", "gone"}, concept : AnyConcept,
                                attempt : Attempts \cup {NoAttempt}]]
      /\ proof'[m].attempt = a /\ \A x \in Proofs \ {m} : proof'[x] = proof[x]
  BY <1>2, <1>3 DEF LearnInv, LearnTypeOK, AnyConcept
<1>6. lreq' \in [LearnThreads -> LearnRequests] /\ NewAttempts'
  BY <1>2, <1>4, LearnEnds
<1>7. strayed' \subseteq Attempts /\ strayed \subseteq strayed'
  BY <1>2 DEF LearnInv, LearnTypeOK
<1>8. EvidenceHasAttempt'
  <2>1. ASSUME NEW x \in Proofs, Held(proof'[x]), proof'[x].attempt \notin strayed'
        PROVE  Held(attempt'[proof'[x].attempt]) /\ attempt'[proof'[x].attempt].promoted
    <3>1. CASE x = m
      BY <1>2, <1>4, <1>5, <2>1, <3>1 DEF Held
    <3>2. CASE x # m
      <4>1. /\ proof'[x] = proof[x] /\ proof[x].attempt \in Attempts
            /\ Held(attempt[proof[x].attempt]) /\ attempt[proof[x].attempt].promoted
        BY <1>5, <1>7, <2>1, <3>2 DEF LearnInv, EvidenceHasAttempt
      <4>2. QED
        BY <1>4, <4>1 DEF Held
    <3>3. QED
      BY <3>1, <3>2
  <2>2. QED
    BY <2>1 DEF EvidenceHasAttempt
<1>9. \A b \in Attempts : Held(attempt'[b]) => attempt'[b].item \in Items
  BY <1>4 DEF LearnInv, Held
<1>10. \A x \in Proofs : Held(proof'[x]) => proof'[x].attempt \in Attempts
  BY <1>2, <1>5 DEF LearnInv
<1>11. QED
  BY <1>2, <1>4, <1>5, <1>6, <1>7, <1>8, <1>9, <1>10 DEF LearnInv, LearnTypeOK

\* Rows that are deleted keep what they say, and lose their place.
LEMMA RemovedRows ==
  ASSUME NEW F, NEW S, NEW f, f = Removed(F, S)
  PROVE  /\ DOMAIN f = DOMAIN F
         /\ \A x \in DOMAIN F : f[x] = IF x \in S /\ Held(F[x]) THEN [F[x] EXCEPT !.at = "gone"] ELSE F[x]
BY DEF Removed

LEMMA LearnDeletes ==
  ASSUME LearnInv, NEW t \in LearnThreads, delete_practice(t) \/ delete_concept(t)
  PROVE  LearnInv'
<1>1. PICK as : as = lreq[t].attempts
  OBVIOUS
<1>2. PICK its \in SUBSET Items, ms \in SUBSET Proofs :
        /\ as \subseteq Attempts
        /\ item' = Removed(item, its) /\ attempt' = Removed(attempt, as) /\ proof' = Removed(proof, ms)
        /\ strayed' \subseteq Attempts /\ strayed \subseteq strayed'
        /\ \A a \in Orphaned(as, ms) : attempt[a].promoted => a \in strayed'
        /\ concept' \in [Concepts -> [at : RowStates, mastery : 0 .. MasteryStates]]
  <2>1. CASE delete_practice(t)
    <3>1. /\ as \subseteq Attempts /\ {lreq[t].item} \subseteq Items
      BY <1>1, <2>1, LearnRequestTypes DEF delete_practice, LearnInv
    <3>2. Removed(proof, {}) = proof
      BY DEF Removed, LearnInv, LearnTypeOK
    <3>3. PICK its \in SUBSET Items, ms \in SUBSET Proofs : its = {lreq[t].item} /\ ms = {}
      BY <3>1
    <3>4. /\ strayed' = strayed \cup {a \in Orphaned(as, {}) : attempt[a].promoted}
          /\ Orphaned(as, {}) \subseteq Attempts
      BY <1>1, <2>1, <3>1 DEF delete_practice, Orphaned
    <3>5. QED
      BY <1>1, <2>1, <3>1, <3>2, <3>3, <3>4 DEF delete_practice, LearnInv, LearnTypeOK
  <2>2. CASE delete_concept(t)
    <3>1. /\ as \subseteq Attempts /\ lreq[t].items \in SUBSET Items /\ lreq[t].proofs \in SUBSET Proofs
          /\ lreq[t].concept \in Concepts
      BY <1>1, <2>2, LearnRequestTypes DEF delete_concept, LearnInv
    <3>2. strayed' = strayed \cup Orphaned(as, lreq[t].proofs) /\ Orphaned(as, lreq[t].proofs) \subseteq Attempts
      BY <1>1, <2>2, <3>1 DEF delete_concept, Orphaned
    <3>3. concept' \in [Concepts -> [at : RowStates, mastery : 0 .. MasteryStates]]
      <4>1. 0 \in 0 .. MasteryStates
        BY LearningAssumption
      <4>2. QED
        BY <2>2, <3>1, <4>1 DEF delete_concept, LearnInv, LearnTypeOK, RowStates
    <3>4. PICK its \in SUBSET Items, ms \in SUBSET Proofs : its = lreq[t].items /\ ms = lreq[t].proofs
      BY <3>1
    <3>5. QED
      BY <1>1, <2>2, <3>1, <3>2, <3>3, <3>4 DEF delete_concept, LearnInv, LearnTypeOK
  <2>3. QED
    BY <2>1, <2>2
<1>3. /\ item' \in [Items -> [at : RowStates, concept : AnyConcept]]
  <2>1. item \in [Items -> [at : RowStates, concept : AnyConcept]]
    BY DEF LearnInv, LearnTypeOK
  <2>2. QED
    BY <1>2, <2>1 DEF Removed, RowStates
<1>4. /\ attempt' \in [Attempts -> [at : {"absent", "stored", "gone"}, item : Items \cup {NoConcept}, promoted : BOOLEAN]]
      /\ \A a \in Attempts : /\ attempt'[a].item = attempt[a].item /\ attempt'[a].promoted = attempt[a].promoted
                             /\ Held(attempt'[a]) => Held(attempt[a])
                             /\ Held(attempt[a]) /\ a \notin as => Held(attempt'[a])
                             /\ attempt[a].at = "absent" => attempt'[a].at = "absent"
  BY <1>2, ZenonT(60) DEF Removed, LearnInv, LearnTypeOK, Held
<1>5. /\ proof' \in [Proofs -> [at : {"absent", "active", "invalidated", "gone"}, concept : AnyConcept,
                                attempt : Attempts \cup {NoAttempt}]]
      /\ \A m \in Proofs : /\ proof'[m].attempt = proof[m].attempt
                           /\ Held(proof'[m]) => Held(proof[m]) /\ m \notin ms
  BY <1>2 DEF Removed, LearnInv, LearnTypeOK, Held
<1>6. lreq' \in [LearnThreads -> LearnRequests] /\ NewAttempts'
  BY <1>4, LearnEnds DEF delete_practice, delete_concept, Finishes
<1>7. EvidenceHasAttempt'
  <2>1. ASSUME NEW m \in Proofs, Held(proof'[m]), proof'[m].attempt \notin strayed'
        PROVE  Held(attempt'[proof'[m].attempt]) /\ attempt'[proof'[m].attempt].promoted
    <3>1. PICK a : a = proof[m].attempt
      OBVIOUS
    <3>2. /\ Held(proof[m]) /\ m \notin ms /\ proof'[m].attempt = a /\ a \in Attempts
          /\ a \notin strayed' /\ a \notin strayed
      BY <1>2, <1>5, <2>1, <3>1 DEF LearnInv
    <3>3. Held(attempt[a]) /\ attempt[a].promoted
      BY <3>1, <3>2 DEF LearnInv, EvidenceHasAttempt
    <3>4. a \notin as
      BY <1>2, <3>1, <3>2, <3>3 DEF Orphaned, ProofOf
    <3>5. QED
      BY <1>4, <3>2, <3>3, <3>4
  <2>2. QED
    BY <2>1 DEF EvidenceHasAttempt
<1>8. \A a \in Attempts : Held(attempt'[a]) => attempt'[a].item \in Items
  BY <1>4 DEF LearnInv
<1>9. \A m \in Proofs : Held(proof'[m]) => proof'[m].attempt \in Attempts
  BY <1>5 DEF LearnInv
<1>10. QED
  BY <1>2, <1>3, <1>4, <1>5, <1>6, <1>7, <1>8, <1>9 DEF LearnInv, LearnTypeOK

\* Attempts are made once, and what is made of one refers to one.
LEMMA LearnInvariant == LearnSpec => []LearnInv
<1>1. LearnInit => LearnInv
  BY LearningAssumption
     DEF LearnInit, LearnInv, LearnTypeOK, EvidenceHasAttempt, NewAttempts, NoItem, NoTry, NoProof, Waiting,
         LearnRequests, RowStates, AnyConcept, Held
<1>2. LearnInv /\ [LearnNext]_learnvars => LearnInv'
  <2> SUFFICES ASSUME LearnInv, [LearnNext]_learnvars PROVE LearnInv'
    OBVIOUS
  <2>1. CASE UNCHANGED learnvars
    BY <2>1 DEF learnvars, LearnInv, LearnTypeOK, EvidenceHasAttempt, NewAttempts, Held
  <2>2. CASE LearnNext
    BY <2>2, LearnReads, LearnRows, LearnInvalidates, LearnTries, LearnPromotes, LearnDeletes DEF LearnNext
  <2>3. QED
    BY <2>1, <2>2
<1>3. QED
  BY <1>1, <1>2, PTL DEF LearnSpec

\* Evidence of mastery keeps the attempt it was made of, marked as promoted, whatever is deleted,
\* moved or invalidated at the same time, except where the deletion had looked before the promotion
\* or the item had moved (routes/learning_assets.py: delete_practice; learning_assets.py).
THEOREM EvidenceKept == LearnSpec => []EvidenceHasAttempt
<1>1. LearnInv => EvidenceHasAttempt
  BY DEF LearnInv
<1>2. QED
  BY <1>1, LearnInvariant, PTL

-----------------------------------------------------------------------------
(* Claims, and what is published from them: a claim rests on rows that     *)
(* were there, a new row is made once, and what is shown is current or a   *)
(* notice is due.                                                          *)

Requests == ResearchRequests \cup PublicationRequests

RestingOK(c) == /\ claim[c].support \subseteq claim[c].cited
                /\ \A e \in claim[c].cited : evidence[e] # "absent"

PackOK(p) ==
  /\ InStore(p) /\ pack[p].approved => pack[p].ready
  /\ InStore(p) /\ pack[p].ready /\ ~pack[p].review /\ ~pack[p].late =>
       \A c \in ClaimsIn(pack[p]) : \/ pack[p].shown[c] = claim[c].version /\ claim[c].verified
                                    \/ Untold(c, "content")

BookOK(b) ==
  book[b].chapter = "current" /\ ~book[b].late =>
    \A c \in ClaimsIn(book[b]) : \/ /\ book[b].shown[c] = claim[c].version
                                    /\ c \in book[b].saw => claim[c].verified
                                 \/ Untold(c, "book")

\* A verification that the deletion r has to know of, and a claim that rests on source s.
Stands(c, r) == claim[c].verified /\ c \notin overtaken /\ c \notin r.since
RestsOn(c, s) == \E e \in claim[c].support : SourceOf[e] = s

\* After each search of a deletion, the claims that have still to be unverified are among what it has
\* found, then among what it has seen; after the last one there are none.
DeletionOK(r) ==
  /\ \A e \in r.found : SourceOf[e] = r.src /\ evidence[e] # "absent"
  /\ r.at \in {"locked", "claims", "versions"} =>
       \A c \in Claims : Stands(c, r) => \A e \in claim[c].support : SourceOf[e] = r.src => e \in r.found
  /\ r.at = "versions" => \A c \in Claims : Stands(c, r) => c \in r.seen
  /\ r.at = "dependents" =>
       r.seen \subseteq r.cites /\ \A c \in Claims : Stands(c, r) /\ RestsOn(c, r.src) => c \in r.seen
  /\ r.at \in {"derivatives", "rows"} => \A c \in Claims : Stands(c, r) => ~RestsOn(c, r.src)

RequestOK(r) ==
  /\ r.op = "delete" => DeletionOK(r)
  /\ r.op = "evidence" => evidence[r.ev] = "absent"
  /\ r.op = "revise" => r.support \subseteq r.cited /\ \A e \in r.cited : evidence[e] # "absent"
  /\ r.op = "build" => pack[r.pack].at = "absent"
  /\ r.op = "approve" => pack[r.pack].at # "absent" /\ (InStore(r.pack) => pack[r.pack].ready)

MakesSame(r, q) == \/ r.op = "evidence" /\ q.op = "evidence" /\ r.ev = q.ev
                   \/ r.op = "build" /\ q.op = "build" /\ r.pack = q.pack

RequestsOK == /\ \A t \in ResearchThreads : RequestOK(req[t])
              /\ \A t, u \in ResearchThreads : MakesSame(req[t], req[u]) => t = u

PublicationInv == /\ PublicationTypeOK /\ VerifiedHasBasis /\ RequestsOK
                  /\ \A c \in Claims : RestingOK(c)
                  /\ \A p \in Packs : PackOK(p)
                  /\ \A b \in Books : BookOK(b)

Deletions == [op : {"delete"}, at : DeleteSteps, src : Sources, found : SUBSET Evidences,
              seen : SUBSET Claims, cites : SUBSET Claims, since : SUBSET Claims]

\* What each kind of request holds.
LEMMA RequestTypes ==
  ASSUME NEW r \in Requests
  PROVE  /\ r.op = "evidence" => r.ev \in Evidences /\ r.verified \in BOOLEAN
         /\ r.op = "verify" => r.claim \in Claims /\ r.seen \in BOOLEAN
         /\ r.op = "revise" => /\ r.claim \in Claims /\ r.support \in SUBSET Evidences
                               /\ r.cited \in SUBSET Evidences /\ r.seen \in BOOLEAN
         /\ r.op = "invalidate" => r.src \in Sources /\ r.seen \in BOOLEAN
         /\ r.op = "delete" => r \in Deletions
         /\ r.op = "emit" => r.to \in {"content", "book"} /\ r.claims \in SUBSET Claims
         /\ r.op = "build" => /\ r.pack \in Packs /\ r.shown \in Shown /\ r.srefs \in SUBSET Sources
                              /\ r.ready \in BOOLEAN
         /\ r.op = "approve" => r.pack \in Packs
         /\ r.op = "project" => r.book \in Books
         /\ r.op = "compile" => /\ r.book \in Books /\ r.shown \in Shown /\ r.saw \in SUBSET Claims
                                /\ r.srefs \in SUBSET Sources
<1>1. \/ r = Idle
      \/ r \in [op : {"evidence"}, ev : Evidences, verified : BOOLEAN]
      \/ r \in [op : {"verify"}, claim : Claims, seen : BOOLEAN]
      \/ r \in [op : {"revise"}, claim : Claims, support : SUBSET Evidences, cited : SUBSET Evidences, seen : BOOLEAN]
      \/ r \in [op : {"invalidate"}, src : Sources, seen : BOOLEAN]
      \/ r \in Deletions
      \/ r \in [op : {"emit"}, to : {"content", "book"}, claims : SUBSET Claims]
      \/ r \in [op : {"build"}, pack : Packs, shown : Shown, srefs : SUBSET Sources, ready : BOOLEAN]
      \/ r \in [op : {"approve"}, pack : Packs]
      \/ r \in [op : {"project"}, book : Books]
      \/ r \in [op : {"compile"}, book : Books, shown : Shown, saw : SUBSET Claims, srefs : SUBSET Sources]
  BY Zenon DEF Requests, ResearchRequests, PublicationRequests, Deletions
<1>2. CASE r = Idle
  BY <1>2 DEF Idle
<1>3. CASE r \in [op : {"evidence"}, ev : Evidences, verified : BOOLEAN]
  BY <1>3
<1>4. CASE r \in [op : {"verify"}, claim : Claims, seen : BOOLEAN]
  BY <1>4
<1>5. CASE r \in [op : {"revise"}, claim : Claims, support : SUBSET Evidences, cited : SUBSET Evidences, seen : BOOLEAN]
  BY <1>5
<1>6. CASE r \in [op : {"invalidate"}, src : Sources, seen : BOOLEAN]
  BY <1>6
<1>a. CASE r \in Deletions
  BY <1>a DEF Deletions
<1>7. CASE r \in [op : {"emit"}, to : {"content", "book"}, claims : SUBSET Claims]
  BY <1>7
<1>8. CASE r \in [op : {"build"}, pack : Packs, shown : Shown, srefs : SUBSET Sources, ready : BOOLEAN]
  BY <1>8
<1>9. CASE r \in [op : {"approve"}, pack : Packs]
  BY <1>9
<1>10. CASE r \in [op : {"project"}, book : Books]
  BY <1>10
<1>11. CASE r \in [op : {"compile"}, book : Books, shown : Shown, saw : SUBSET Claims, srefs : SUBSET Sources]
  BY <1>11
<1>12. QED
  BY <1>1, <1>2, <1>3, <1>4, <1>5, <1>6, <1>a, <1>7, <1>8, <1>9, <1>10, <1>11

\* A deletion that has only been told of a verification.
SameDeletion(q, r) == /\ q.op = "delete" /\ r.op = "delete" /\ q.at = r.at /\ q.src = r.src
                      /\ q.found = r.found /\ q.seen = r.seen /\ q.cites = r.cites

\* What a deletion knows stays true while no verification but those it is told of is added.
LEMMA DeletionKept ==
  ASSUME NEW r, NEW q, q = r \/ SameDeletion(q, r), r.found \subseteq Evidences, DeletionOK(r),
         \A e \in Evidences : evidence[e] # "absent" => evidence'[e] # "absent",
         r.at # "evidence" => \A c \in Claims : Stands(c, q)' => /\ Stands(c, r)
                                                              /\ claim'[c].support = claim[c].support
  PROVE  DeletionOK(q)'
<1>1. q.at = r.at /\ q.src = r.src /\ q.found = r.found /\ q.seen = r.seen /\ q.cites = r.cites
  BY DEF SameDeletion
<1>2. \A e \in q.found : SourceOf[e] = q.src /\ evidence'[e] # "absent"
  BY <1>1 DEF DeletionOK
<1>3. ASSUME q.at # "evidence", NEW c \in Claims, Stands(c, q)'
      PROVE  Stands(c, r) /\ claim'[c].support = claim[c].support /\ (RestsOn(c, q.src)' => RestsOn(c, r.src))
  BY <1>1, <1>3 DEF RestsOn
<1>4. QED
  BY <1>1, <1>2, <1>3 DEF DeletionOK

\* A commit leaves what the other requests know as it was: a row they are to make is not made, a
\* row they name stays, the text of a pack stays the one that was checked, and a deletion is told of
\* what is verified.
LEMMA RequestsGoOn ==
  ASSUME PublicationInv, req' \in [ResearchThreads -> Requests],
         \A u \in ResearchThreads : \/ req'[u] = req[u] \/ req'[u].op \in {"idle", "emit"}
                                    \/ SameDeletion(req'[u], req[u]),
         \A u \in ResearchThreads : req'[u].op = "delete" /\ req'[u].at # "evidence" =>
           \A c \in Claims : Stands(c, req[u])' => Stands(c, req[u]) /\ claim'[c].support = claim[c].support,
         \A e \in Evidences :
           IF evidence[e] = "absent"
           THEN \/ evidence'[e] = "absent"
                \/ \E t \in ResearchThreads : /\ req[t].op = "evidence" /\ req[t].ev = e
                                              /\ req'[t].op \in {"idle", "emit"}
           ELSE evidence'[e] # "absent",
         \A p \in Packs :
           IF pack[p].at = "absent"
           THEN \/ pack'[p].at = "absent"
                \/ \E t \in ResearchThreads : /\ req[t].op = "build" /\ req[t].pack = p
                                              /\ req'[t].op \in {"idle", "emit"}
           ELSE /\ pack'[p].at # "absent"
                /\ pack'[p].at \in {"active", "archived"} => InStore(p) /\ pack'[p].ready = pack[p].ready
  PROVE  RequestsOK'
<1>0. ASSUME NEW u \in ResearchThreads, req[u].op = "delete", req'[u] = req[u] \/ SameDeletion(req'[u], req[u])
      PROVE  DeletionOK(req[u])'
  <2>1. PICK r, q : r = req[u] /\ q = req'[u]
    OBVIOUS
  <2>2. r \in Deletions /\ DeletionOK(r)
    BY <1>0, <2>1, RequestTypes
       DEF PublicationInv, PublicationTypeOK, Requests, RequestsOK, RequestOK
  <2>3. q.op = "delete" /\ q.at = r.at /\ r.found \subseteq Evidences
    BY <1>0, <2>1, <2>2 DEF SameDeletion, Deletions
  <2>4. r.at # "evidence" => \A c \in Claims : Stands(c, q)' => Stands(c, r) /\ claim'[c].support = claim[c].support
    BY <2>1, <2>3 DEF Stands
  <2>5. \A e \in Evidences : evidence[e] # "absent" => evidence'[e] # "absent"
    OBVIOUS
  <2>6. DeletionOK(q)'
    BY <1>0, <2>1, <2>2, <2>3, <2>4, <2>5, DeletionKept
  <2>7. QED
    BY <2>1, <2>6 DEF DeletionOK, Stands, RestsOn
<1>1. ASSUME NEW u \in ResearchThreads PROVE RequestOK(req[u])'
  <2>1. CASE req'[u].op \in {"idle", "emit"}
    BY <2>1 DEF RequestOK
  <2>a. CASE SameDeletion(req'[u], req[u])
    BY <1>0, <2>a DEF SameDeletion, RequestOK
  <2>2. CASE req'[u] = req[u] /\ req[u].op \notin {"idle", "emit"}
    <3>1. req[u] \in Requests /\ RequestOK(req[u])
      BY <2>2 DEF PublicationInv, RequestsOK
    <3>2. req[u].op = "evidence" => evidence'[req[u].ev] = "absent"
      <4>1. CASE req[u].op = "evidence"
        <5>1. req[u].ev \in Evidences /\ evidence[req[u].ev] = "absent"
          BY <3>1, <4>1, RequestTypes DEF RequestOK
        <5>2. \A t \in ResearchThreads : req[t].op = "evidence" /\ req[t].ev = req[u].ev => t = u
          BY <4>1 DEF PublicationInv, RequestsOK, MakesSame
        <5>3. QED
          BY <2>2, <4>1, <5>1, <5>2
      <4>2. QED
        BY <4>1
    <3>3. req[u].op = "build" => pack'[req[u].pack].at = "absent"
      <4>1. CASE req[u].op = "build"
        <5>1. req[u].pack \in Packs /\ pack[req[u].pack].at = "absent"
          BY <3>1, <4>1, RequestTypes DEF RequestOK
        <5>2. \A t \in ResearchThreads : req[t].op = "build" /\ req[t].pack = req[u].pack => t = u
          BY <4>1 DEF PublicationInv, RequestsOK, MakesSame
        <5>3. QED
          BY <2>2, <4>1, <5>1, <5>2
      <4>2. QED
        BY <4>1
    <3>4. req[u].op = "revise" => /\ req[u].support \subseteq req[u].cited
                                  /\ \A e \in req[u].cited : evidence'[e] # "absent"
      <4>1. CASE req[u].op = "revise"
        <5>1. /\ req[u].cited \subseteq Evidences /\ req[u].support \subseteq req[u].cited
              /\ \A e \in req[u].cited : evidence[e] # "absent"
          BY <3>1, <4>1, RequestTypes DEF RequestOK
        <5>2. QED
          BY <5>1
      <4>2. QED
        BY <4>1
    <3>5. req[u].op = "approve" => /\ pack'[req[u].pack].at # "absent"
                                   /\ pack'[req[u].pack].at \in {"active", "archived"} => pack'[req[u].pack].ready
      <4>1. CASE req[u].op = "approve"
        <5>1. /\ req[u].pack \in Packs /\ pack[req[u].pack].at # "absent"
              /\ InStore(req[u].pack) => pack[req[u].pack].ready
          BY <3>1, <4>1, RequestTypes DEF RequestOK
        <5>2. QED
          BY <5>1
      <4>2. QED
        BY <4>1
    <3>6. QED
      BY <1>0, <2>2, <3>2, <3>3, <3>4, <3>5 DEF RequestOK, InStore
  <2>3. QED
    BY <2>1, <2>2, <2>a
<1>2. ASSUME NEW t \in ResearchThreads, NEW u \in ResearchThreads, MakesSame(req'[t], req'[u])
      PROVE  t = u
  <2>1. req'[t] = req[t] /\ req'[u] = req[u]
    BY <1>2 DEF MakesSame, SameDeletion
  <2>2. QED
    BY <1>2, <2>1 DEF PublicationInv, RequestsOK
<1>3. QED
  BY <1>1, <1>2 DEF RequestsOK, MakesSame

\* A claim that is verified now was so before.
NoneVerified == \A c \in Claims : claim'[c].verified /\ c \notin overtaken' =>
                  claim[c].verified /\ c \notin overtaken /\ claim'[c].support = claim[c].support

LEMMA RequestsKept ==
  ASSUME PublicationInv, req' \in [ResearchThreads -> Requests],
         \A u \in ResearchThreads : req'[u] = req[u] \/ req'[u].op \in {"idle", "emit"},
         NoneVerified,
         \A e \in Evidences :
           IF evidence[e] = "absent"
           THEN \/ evidence'[e] = "absent"
                \/ \E t \in ResearchThreads : /\ req[t].op = "evidence" /\ req[t].ev = e
                                              /\ req'[t].op \in {"idle", "emit"}
           ELSE evidence'[e] # "absent",
         \A p \in Packs :
           IF pack[p].at = "absent"
           THEN \/ pack'[p].at = "absent"
                \/ \E t \in ResearchThreads : /\ req[t].op = "build" /\ req[t].pack = p
                                              /\ req'[t].op \in {"idle", "emit"}
           ELSE /\ pack'[p].at # "absent"
                /\ pack'[p].at \in {"active", "archived"} => InStore(p) /\ pack'[p].ready = pack[p].ready
  PROVE  RequestsOK'
<1>1. ASSUME NEW u \in ResearchThreads, req'[u].op = "delete", NEW c \in Claims, Stands(c, req[u])'
      PROVE  Stands(c, req[u]) /\ claim'[c].support = claim[c].support
  BY <1>1 DEF Stands, NoneVerified
<1>2. QED
  BY <1>1, RequestsGoOn

\* A request that opens, goes on or ends while the rows are as they were.
LEMMA RequestOpens ==
  ASSUME PublicationInv, NEW t \in ResearchThreads, NEW r \in Requests, req' = [req EXCEPT ![t] = r],
         req[t].op # "emit", RequestOK(r), \A u \in ResearchThreads : ~MakesSame(r, req[u]),
         UNCHANGED <<source_row, evidence, claim, overtaken, pack, book, missed>>
  PROVE  PublicationInv'
<1>1. /\ req' \in [ResearchThreads -> Requests] /\ req'[t] = r
      /\ \A u \in ResearchThreads \ {t} : req'[u] = req[u]
  BY DEF PublicationInv, PublicationTypeOK, Requests
<1>2. \A u \in ResearchThreads : RequestOK(req[u])'
  <2> SUFFICES ASSUME NEW u \in ResearchThreads PROVE RequestOK(req[u])'
    OBVIOUS
  <2>1. RequestOK(req'[u])
    BY <1>1 DEF PublicationInv, RequestsOK
  <2>2. QED
    BY <2>1 DEF RequestOK, InStore, DeletionOK, Stands, RestsOn
<1>3. \A u, v \in ResearchThreads : MakesSame(req'[u], req'[v]) => u = v
  BY <1>1 DEF PublicationInv, RequestsOK, MakesSame
<1>4. RequestsOK'
  BY <1>2, <1>3 DEF RequestsOK, MakesSame
<1>5. \A c \in Claims, h \in {"content", "book"} : Untold(c, h) => Untold(c, h)'
  BY <1>1 DEF Untold
<1>6. \A p \in Packs : PackOK(p)'
  BY <1>5 DEF PublicationInv, PackOK, InStore, ClaimsIn
<1>7. \A b \in Books : BookOK(b)'
  BY <1>5 DEF PublicationInv, BookOK, ClaimsIn
<1>8. QED
  BY <1>1, <1>4, <1>6, <1>7
     DEF PublicationInv, PublicationTypeOK, Requests, ResearchTypeOK, VerifiedHasBasis, Basis, RestingOK

RestUnchanged == UNCHANGED <<source_row, evidence, claim, overtaken, pack, book, missed>>

LEMMA ResearchReads ==
  ASSUME PublicationInv, NEW t \in ResearchThreads, UNCHANGED <<pack, book, missed>>,
         \/ \E e \in Evidences : evidence_read(t, e)
         \/ \E c \in Claims : verify_read(t, c) \/ revise_read(t, c)
         \/ \E s \in Sources : source_read(t, s)
  PROVE  PublicationInv'
<1>1. ASSUME NEW r \in Requests, req' = [req EXCEPT ![t] = r], req[t] = Idle, RequestOK(r),
             \A u \in ResearchThreads : ~MakesSame(r, req[u]), RestUnchanged
      PROVE  PublicationInv'
  <2>1. req[t].op # "emit"
    BY <1>1 DEF Idle
  <2>2. UNCHANGED <<source_row, evidence, claim, overtaken, pack, book, missed>>
    BY <1>1 DEF RestUnchanged
  <2>3. QED
    BY <1>1, <2>1, <2>2, RequestOpens
<1>2. claim \in [Claims -> Claim]
  BY DEF PublicationInv, PublicationTypeOK, ResearchTypeOK
<1>3. CASE \E e \in Evidences : evidence_read(t, e)
  <2>1. PICK e \in Evidences : evidence_read(t, e)
    BY <1>3
  <2>2. PICK v \in BOOLEAN : Reads(t, [op |-> "evidence", ev |-> e, verified |-> v])
    BY <2>1 DEF evidence_read
  <2>3. PICK r : r = [op |-> "evidence", ev |-> e, verified |-> v]
    OBVIOUS
  <2>4. r \in [op : {"evidence"}, ev : Evidences, verified : BOOLEAN]
    BY <2>3
  <2>5. r \in Requests
    BY <2>4, Zenon DEF Requests, ResearchRequests
  <2>6. RequestOK(r) /\ \A u \in ResearchThreads : ~MakesSame(r, req[u])
    BY <2>1, <2>3 DEF RequestOK, MakesSame, evidence_read
  <2>7. QED
    BY <1>1, <2>1, <2>2, <2>3, <2>5, <2>6 DEF evidence_read, Reads, RestUnchanged
<1>4. CASE \E c \in Claims : verify_read(t, c)
  <2>1. PICK c \in Claims : verify_read(t, c)
    BY <1>4
  <2>2. PICK r : r = [op |-> "verify", claim |-> c, seen |-> claim[c].verified]
    OBVIOUS
  <2>3. r \in [op : {"verify"}, claim : Claims, seen : BOOLEAN]
    BY <1>2, <2>2 DEF Claim
  <2>4. r \in Requests
    BY <2>3, Zenon DEF Requests, ResearchRequests
  <2>5. RequestOK(r) /\ \A u \in ResearchThreads : ~MakesSame(r, req[u])
    BY <2>2 DEF RequestOK, MakesSame
  <2>6. QED
    BY <1>1, <2>1, <2>2, <2>4, <2>5 DEF verify_read, Reads, RestUnchanged
<1>5. CASE \E c \in Claims : revise_read(t, c)
  <2>1. PICK c \in Claims : revise_read(t, c)
    BY <1>5
  <2>2. PICK cited \in SUBSET Recorded, support \in SUBSET Recorded :
          support \subseteq cited /\ Reads(t, [op |-> "revise", claim |-> c, support |-> support, cited |-> cited, seen |-> claim[c].verified])
    BY <2>1 DEF revise_read
  <2>3. PICK r : r = [op |-> "revise", claim |-> c, support |-> support, cited |-> cited, seen |-> claim[c].verified]
    OBVIOUS
  <2>4. r \in [op : {"revise"}, claim : Claims, support : SUBSET Evidences, cited : SUBSET Evidences, seen : BOOLEAN]
    BY <1>2, <2>3 DEF Claim, Recorded
  <2>5. r \in Requests
    BY <2>4, Zenon DEF Requests, ResearchRequests
  <2>a. /\ r.op = "revise" /\ r.cited = cited /\ r.support = support
        /\ support \subseteq cited /\ \A e \in cited : evidence[e] # "absent"
    BY <2>2, <2>3 DEF Recorded
  <2>6. RequestOK(r) /\ \A u \in ResearchThreads : ~MakesSame(r, req[u])
    BY <2>a DEF RequestOK, MakesSame
  <2>7. QED
    BY <1>1, <2>1, <2>2, <2>3, <2>5, <2>6 DEF revise_read, Reads, RestUnchanged
<1>6. CASE \E s \in Sources : source_read(t, s)
  <2>1. PICK s \in Sources : source_read(t, s)
    BY <1>6
  <2>2. PICK seen \in BOOLEAN : seen = (source_row[s] = "verified")
    OBVIOUS
  <2>3. PICK r, q : /\ r = [op |-> "invalidate", src |-> s, seen |-> seen]
                    /\ q = [op |-> "delete", at |-> "evidence", src |-> s, found |-> {}, seen |-> {}, cites |-> {},
                           since |-> {}]
    OBVIOUS
  <2>4. r \in [op : {"invalidate"}, src : Sources, seen : BOOLEAN] /\ q \in Deletions
    BY <2>3 DEF Deletions, DeleteSteps
  <2>5. r \in Requests /\ q \in Requests
    BY <2>4, Zenon DEF Requests, ResearchRequests, Deletions
  <2>6. /\ RequestOK(r) /\ \A u \in ResearchThreads : ~MakesSame(r, req[u])
        /\ RequestOK(q) /\ \A u \in ResearchThreads : ~MakesSame(q, req[u])
    BY <2>3 DEF RequestOK, DeletionOK, MakesSame
  <2>7. Reads(t, r) \/ Reads(t, q)
    BY <2>1, <2>2, <2>3 DEF source_read
  <2>8. QED
    BY <1>1, <2>1, <2>5, <2>6, <2>7 DEF source_read, Reads, RestUnchanged
<1>7. QED
  BY <1>3, <1>4, <1>5, <1>6

LEMMA PublicationReads ==
  ASSUME PublicationInv, NEW t \in ResearchThreads,
         \/ \E p \in Packs : build_read(t, p) \/ approve_read(t, p)
         \/ \E b \in Books : compile_read(t, b) \/ project_read(t, b)
  PROVE  PublicationInv'
<1>1. ASSUME NEW r \in Requests, req' = [req EXCEPT ![t] = r], req[t] = Idle, RequestOK(r),
             \A u \in ResearchThreads : ~MakesSame(r, req[u]), RestUnchanged
      PROVE  PublicationInv'
  <2>1. req[t].op # "emit"
    BY <1>1 DEF Idle
  <2>2. UNCHANGED <<source_row, evidence, claim, overtaken, pack, book, missed>>
    BY <1>1 DEF RestUnchanged
  <2>3. QED
    BY <1>1, <2>1, <2>2, RequestOpens
<1>2. RestUnchanged
  BY DEF build_read, approve_read, compile_read, project_read, RowsKept, RestUnchanged
<1>3. claim \in [Claims -> Claim]
  BY DEF PublicationInv, PublicationTypeOK, ResearchTypeOK
<1>4. ASSUME NEW cs PROVE Versions(cs) \in Shown
  BY <1>3, ResearchAssumption DEF Versions, Shown, Claim
<1>5. CASE \E p \in Packs : build_read(t, p)
  <2>1. PICK p \in Packs : build_read(t, p)
    BY <1>5
  <2>2. PICK cs \in SUBSET Claims, srefs \in SUBSET Sources, ready \in BOOLEAN :
          Reads(t, [op |-> "build", pack |-> p, shown |-> Versions(cs), srefs |-> srefs, ready |-> ready])
    BY <2>1 DEF build_read
  <2>3. PICK r : r = [op |-> "build", pack |-> p, shown |-> Versions(cs), srefs |-> srefs, ready |-> ready]
    OBVIOUS
  <2>4. r \in [op : {"build"}, pack : Packs, shown : Shown, srefs : SUBSET Sources, ready : BOOLEAN]
    BY <1>4, <2>3
  <2>5. r \in Requests
    BY <2>4, Zenon DEF Requests, PublicationRequests
  <2>6. RequestOK(r) /\ \A u \in ResearchThreads : ~MakesSame(r, req[u])
    BY <2>1, <2>3 DEF RequestOK, MakesSame, build_read
  <2>7. QED
    BY <1>1, <1>2, <2>2, <2>3, <2>5, <2>6 DEF Reads
<1>6. CASE \E p \in Packs : approve_read(t, p)
  <2>1. PICK p \in Packs : approve_read(t, p)
    BY <1>6
  <2>2. PICK r : r = [op |-> "approve", pack |-> p]
    OBVIOUS
  <2>3. r \in [op : {"approve"}, pack : Packs]
    BY <2>2
  <2>4. r \in Requests
    BY <2>3, Zenon DEF Requests, PublicationRequests
  <2>5. RequestOK(r) /\ \A u \in ResearchThreads : ~MakesSame(r, req[u])
    BY <2>1, <2>2 DEF RequestOK, MakesSame, approve_read, InStore
  <2>6. QED
    BY <1>1, <1>2, <2>1, <2>2, <2>4, <2>5 DEF approve_read, Reads
<1>7. CASE \E b \in Books : compile_read(t, b)
  <2>1. PICK b \in Books : compile_read(t, b)
    BY <1>7
  <2>2. PICK cs \in SUBSET Claims : cs = {c \in Claims : claim[c].version > 0}
    OBVIOUS
  <2>3. PICK cites \in SUBSET Recorded :
          Reads(t, [op |-> "compile", book |-> b, shown |-> Versions(cs), saw |-> {c \in cs : claim[c].verified},
                    srefs |-> {SourceOf[e] : e \in cites}])
    BY <2>1, <2>2 DEF compile_read
  <2>4. PICK saw \in SUBSET Claims : saw = {c \in cs : claim[c].verified}
    OBVIOUS
  <2>5. PICK srefs \in SUBSET Sources : srefs = {SourceOf[e] : e \in cites}
    BY ResearchAssumption DEF Recorded
  <2>6. PICK r : r = [op |-> "compile", book |-> b, shown |-> Versions(cs), saw |-> saw, srefs |-> srefs]
    OBVIOUS
  <2>7. r \in [op : {"compile"}, book : Books, shown : Shown, saw : SUBSET Claims, srefs : SUBSET Sources]
    BY <1>4, <2>6
  <2>8. r \in Requests
    BY <2>7, Zenon DEF Requests, PublicationRequests
  <2>9. RequestOK(r) /\ \A u \in ResearchThreads : ~MakesSame(r, req[u])
    BY <2>6 DEF RequestOK, MakesSame
  <2>10. QED
    BY <1>1, <1>2, <2>3, <2>4, <2>5, <2>6, <2>8, <2>9 DEF Reads
<1>8. CASE \E b \in Books : project_read(t, b)
  <2>1. PICK b \in Books : project_read(t, b)
    BY <1>8
  <2>2. PICK r : r = [op |-> "project", book |-> b]
    OBVIOUS
  <2>3. r \in [op : {"project"}, book : Books]
    BY <2>2
  <2>4. r \in Requests
    BY <2>3, Zenon DEF Requests, PublicationRequests
  <2>5. RequestOK(r) /\ \A u \in ResearchThreads : ~MakesSame(r, req[u])
    BY <2>2 DEF RequestOK, MakesSame
  <2>6. QED
    BY <1>1, <1>2, <2>1, <2>2, <2>4, <2>5 DEF project_read, Reads
<1>9. QED
  BY <1>5, <1>6, <1>7, <1>8

LEMMA RequestRefused ==
  ASSUME PublicationInv, NEW t \in ResearchThreads,
         (refused(t) /\ UNCHANGED <<pack, book, missed>>) \/ publication_refused(t)
  PROVE  PublicationInv'
<1>1. PICK r : r = Idle
  OBVIOUS
<1>2. r \in Requests /\ RequestOK(r) /\ \A u \in ResearchThreads : ~MakesSame(r, req[u])
  BY <1>1 DEF Idle, Requests, ResearchRequests, RequestOK, MakesSame
<1>3. req' = [req EXCEPT ![t] = r] /\ req[t].op # "emit" /\ RestUnchanged
  BY <1>1 DEF refused, publication_refused, Done, RowsKept, RestUnchanged
<1>4. QED
  BY <1>2, <1>3, RequestOpens DEF RestUnchanged

\* A claim shows as it did, or a notice of its change is due.
ClaimKept(c, h) ==
  \/ Untold(c, h)'
  \/ /\ ~Untold(c, h)
     /\ claim[c].version > 0 => /\ claim'[c].version = claim[c].version
                                /\ claim[c].verified => claim'[c].verified

LEMMA PackKept ==
  ASSUME PublicationTypeOK, NEW p \in Packs, PackOK(p),
         pack'[p].at \in {"active", "archived"} =>
           /\ InStore(p) /\ pack'[p].ready = pack[p].ready
           /\ pack'[p].approved => pack[p].approved \/ pack[p].ready
           /\ ~pack'[p].review /\ ~pack'[p].late =>
                /\ ~pack[p].review /\ ~pack[p].late /\ pack'[p].shown = pack[p].shown
                /\ \A c \in ClaimsIn(pack[p]) : ClaimKept(c, "content")
  PROVE  PackOK(p)'
<1>1. pack'[p].at \in {"active", "archived"} /\ pack'[p].approved => pack'[p].ready
  BY DEF PackOK
<1>2. ASSUME pack'[p].at \in {"active", "archived"}, pack'[p].ready, ~pack'[p].review, ~pack'[p].late,
             NEW c \in Claims, pack'[p].shown[c] > 0
      PROVE  \/ pack'[p].shown[c] = claim'[c].version /\ claim'[c].verified
             \/ Untold(c, "content")'
  <2>1. /\ InStore(p) /\ pack[p].ready /\ ~pack[p].review /\ ~pack[p].late /\ pack'[p].shown = pack[p].shown
        /\ c \in ClaimsIn(pack[p]) /\ ClaimKept(c, "content")
    BY <1>2 DEF ClaimsIn
  <2>2. \/ pack[p].shown[c] = claim[c].version /\ claim[c].verified
        \/ Untold(c, "content")
    BY <2>1 DEF PackOK
  <2>3. QED
    BY <1>2, <2>1, <2>2 DEF ClaimKept
<1>3. QED
  BY <1>1, <1>2 DEF PackOK, InStore, ClaimsIn

LEMMA BookKept ==
  ASSUME PublicationTypeOK, NEW b \in Books, BookOK(b),
         book'[b].chapter = "current" /\ ~book'[b].late =>
           /\ book[b].chapter = "current" /\ ~book[b].late
           /\ book'[b].shown = book[b].shown /\ book'[b].saw = book[b].saw
           /\ \A c \in ClaimsIn(book[b]) : ClaimKept(c, "book")
  PROVE  BookOK(b)'
<1>1. ASSUME book'[b].chapter = "current", ~book'[b].late, NEW c \in Claims, book'[b].shown[c] > 0
      PROVE  \/ /\ book'[b].shown[c] = claim'[c].version
                /\ c \in book'[b].saw => claim'[c].verified
             \/ Untold(c, "book")'
  <2>1. /\ book[b].chapter = "current" /\ ~book[b].late /\ book'[b].shown = book[b].shown
        /\ book'[b].saw = book[b].saw /\ c \in ClaimsIn(book[b]) /\ ClaimKept(c, "book")
    BY <1>1 DEF ClaimsIn
  <2>2. \/ /\ book[b].shown[c] = claim[c].version
           /\ c \in book[b].saw => claim[c].verified
        \/ Untold(c, "book")
    BY <2>1 DEF BookOK
  <2>3. QED
    BY <1>1, <2>1, <2>2 DEF ClaimKept
<1>2. QED
  BY <1>1 DEF BookOK, ClaimsIn

\* Packs and books that are left alone.
LEMMA DerivedKept ==
  ASSUME PublicationInv, UNCHANGED <<pack, book>>,
         \A c \in Claims, h \in {"content", "book"} : ClaimKept(c, h)
  PROVE  (\A p \in Packs : PackOK(p)') /\ (\A b \in Books : BookOK(b)')
<1>1. ASSUME NEW p \in Packs PROVE PackOK(p)'
  BY PackKept DEF PublicationInv, InStore, ClaimsIn
<1>2. ASSUME NEW b \in Books PROVE BookOK(b)'
  BY BookKept DEF PublicationInv, ClaimsIn
<1>3. QED
  BY <1>1, <1>2

\* A handler that ends, and the notices that its commit makes due.
LEMMA HandlerEnds ==
  ASSUME PublicationInv, NEW t \in ResearchThreads, NEW cs \in SUBSET Claims, Emits(t, cs) \/ (cs = {} /\ Done(t)),
         req[t].op # "emit", UNCHANGED missed
  PROVE  /\ req' \in [ResearchThreads -> Requests] /\ req'[t].op \in {"idle", "emit"}
         /\ \A u \in ResearchThreads : req'[u] = req[u] \/ req'[u].op \in {"idle", "emit"}
         /\ \A c \in Claims, h \in {"content", "book"} : c \in cs \/ Untold(c, h) => Untold(c, h)'
<1>1. PICK r : /\ r = IF cs = {} THEN Idle ELSE [op |-> "emit", to |-> "content", claims |-> cs]
               /\ req' = [req EXCEPT ![t] = r]
  BY DEF Emits, Done
<1>2. r \in Requests /\ r.op \in {"idle", "emit"} /\ (cs # {} => r.op = "emit" /\ r.to = "content" /\ r.claims = cs)
  <2>1. Idle \in Requests /\ Idle.op = "idle"
    BY DEF Idle, Requests, ResearchRequests
  <2>2. PICK q : q = [op |-> "emit", to |-> "content", claims |-> cs]
    OBVIOUS
  <2>3. q \in [op : {"emit"}, to : {"content", "book"}, claims : SUBSET Claims]
    BY <2>2
  <2>4. q \in Requests
    BY <2>3, Zenon DEF Requests, ResearchRequests
  <2>5. QED
    BY <1>1, <2>1, <2>2, <2>4
<1>3. /\ req' \in [ResearchThreads -> Requests] /\ req'[t] = r
      /\ \A u \in ResearchThreads \ {t} : req'[u] = req[u]
  BY <1>1, <1>2 DEF PublicationInv, PublicationTypeOK, Requests
<1>4. ASSUME NEW c \in Claims, NEW h \in {"content", "book"}, c \in cs \/ Untold(c, h)
      PROVE  Untold(c, h)'
  BY <1>2, <1>3, <1>4 DEF Untold
<1>5. QED
  BY <1>2, <1>3, <1>4

\* A claim keeps its basis where evidence and sources only gain.
LEMMA BasisKept ==
  ASSUME NEW c \in Claims, RestingOK(c), Basis(c), claim'[c].support = claim[c].support,
         \A e \in claim[c].support :
            evidence[e] = "verified" /\ source_row[SourceOf[e]] = "verified" =>
              evidence'[e] = "verified" /\ source_row'[SourceOf[e]] = "verified"
  PROVE  Basis(c)'
BY DEF Basis

\* Rows that are entered: sources, and claims of version 1.
LEMMA RowsEntered ==
  ASSUME PublicationInv, UNCHANGED <<pack, book, missed>>,
         \/ \E s \in Sources : create_source(s) \/ verify_source(s)
         \/ \E c \in Claims : create_claim(c)
  PROVE  PublicationInv'
<1>1. UNCHANGED <<evidence, req, overtaken>>
  BY DEF create_source, verify_source, create_claim
<1>2. \A c \in Claims, h \in {"content", "book"} : Untold(c, h)' <=> Untold(c, h)
  BY <1>1 DEF Untold
<1>4. /\ source_row \in [Sources -> SourceStates] /\ claim \in [Claims -> Claim]
      /\ evidence \in [Evidences -> EvidenceStates] /\ req \in [ResearchThreads -> Requests]
  BY DEF PublicationInv, PublicationTypeOK, ResearchTypeOK, Requests
<1>a. NoneVerified
  BY <1>1, <1>4 DEF NoneVerified, create_source, verify_source, create_claim
<1>3. RequestsOK'
  BY <1>1, <1>4, <1>a, RequestsKept DEF InStore
<1>5. CASE \E s \in Sources : create_source(s) \/ verify_source(s)
  <2>1. PICK s \in Sources, kind \in {"unverified", "verified"} :
          /\ source_row' = [source_row EXCEPT ![s] = kind] /\ UNCHANGED claim
          /\ kind = "verified" \/ source_row[s] = "absent"
    BY <1>5 DEF create_source, verify_source
  <2>2. /\ source_row' \in [Sources -> SourceStates]
        /\ \A x \in Sources : source_row[x] = "verified" => source_row'[x] = "verified"
    BY <1>4, <2>1 DEF SourceStates
  <2>3. VerifiedHasBasis'
    BY <1>1, <1>4, <2>1, <2>2, ResearchAssumption
       DEF PublicationInv, PublicationTypeOK, ResearchTypeOK, VerifiedHasBasis, Basis, Claim
  <2>4. \A c \in Claims, h \in {"content", "book"} : ClaimKept(c, h)
    BY <1>2, <2>1 DEF ClaimKept
  <2>5. \A c \in Claims : RestingOK(c)'
    BY <1>1, <2>1 DEF PublicationInv, RestingOK
  <2>6. QED
    BY <1>1, <1>3, <2>1, <2>2, <2>3, <2>4, <2>5, DerivedKept DEF PublicationInv, PublicationTypeOK, ResearchTypeOK
<1>6. CASE \E c \in Claims : create_claim(c)
  <2>1. PICK c \in Claims : create_claim(c)
    BY <1>6
  <2>2. PICK cited \in SUBSET Recorded, support \in SUBSET Recorded :
          /\ support \subseteq cited
          /\ claim' = [claim EXCEPT ![c] = [version |-> 1, support |-> support, cited |-> cited, verified |-> FALSE]]
    BY <2>1 DEF create_claim
  <2>3. PICK row : row = [version |-> 1, support |-> support, cited |-> cited, verified |-> FALSE]
    OBVIOUS
  <2>4. row \in Claim /\ row.verified = FALSE /\ row.support \subseteq row.cited /\ row.cited \subseteq Recorded
    BY <2>2, <2>3, ResearchAssumption DEF Claim, Recorded
  <2>5. /\ claim' = [claim EXCEPT ![c] = row] /\ claim' \in [Claims -> Claim] /\ claim'[c] = row
        /\ \A x \in Claims \ {c} : claim'[x] = claim[x]
    BY <1>4, <2>2, <2>3, <2>4
  <2>6. claim[c].version = 0 /\ UNCHANGED source_row
    BY <2>1 DEF create_claim
  <2>7. VerifiedHasBasis'
    BY <1>1, <2>4, <2>5, <2>6 DEF PublicationInv, VerifiedHasBasis, Basis
  <2>8. \A x \in Claims, h \in {"content", "book"} : ClaimKept(x, h)
    BY <1>2, <2>5, <2>6 DEF ClaimKept
  <2>9. \A x \in Claims : RestingOK(x)'
    BY <1>1, <2>4, <2>5 DEF PublicationInv, RestingOK, Recorded
  <2>10. QED
    BY <1>1, <1>3, <1>4, <2>5, <2>6, <2>7, <2>8, <2>9, DerivedKept
       DEF PublicationInv, PublicationTypeOK, ResearchTypeOK
<1>7. QED
  BY <1>5, <1>6

LEMMA EvidenceEntered ==
  ASSUME PublicationInv, NEW t \in ResearchThreads, create_evidence(t), UNCHANGED <<pack, book, missed>>
  PROVE  PublicationInv'
<1>0. PICK e : e = req[t].ev
  OBVIOUS
<1>1. PICK state \in {"verified", "unverified"} : evidence' = [evidence EXCEPT ![e] = state]
  BY <1>0 DEF create_evidence
<1>2. /\ e \in Evidences /\ evidence[e] = "absent" /\ req[t].op = "evidence"
      /\ Done(t) /\ UNCHANGED <<source_row, claim, overtaken>>
  BY <1>0, RequestTypes
     DEF create_evidence, PublicationInv, PublicationTypeOK, Requests, RequestsOK, RequestOK
<1>3. /\ source_row \in [Sources -> SourceStates] /\ claim \in [Claims -> Claim]
      /\ evidence \in [Evidences -> EvidenceStates]
  BY DEF PublicationInv, PublicationTypeOK, ResearchTypeOK
<1>4. /\ evidence' \in [Evidences -> EvidenceStates] /\ evidence'[e] = state
      /\ \A x \in Evidences \ {e} : evidence'[x] = evidence[x]
  BY <1>1, <1>2, <1>3 DEF EvidenceStates
<1>5. /\ req' \in [ResearchThreads -> Requests] /\ req'[t].op \in {"idle", "emit"}
      /\ \A u \in ResearchThreads : req'[u] = req[u] \/ req'[u].op \in {"idle", "emit"}
      /\ \A c \in Claims, h \in {"content", "book"} : Untold(c, h) => Untold(c, h)'
  <2>1. PICK cs \in SUBSET Claims : cs = {}
    OBVIOUS
  <2>2. QED
    BY <1>2, <2>1, HandlerEnds
<1>6. RequestsOK'
  <2>1. \A x \in Evidences :
           IF evidence[x] = "absent"
           THEN \/ evidence'[x] = "absent"
                \/ \E u \in ResearchThreads : /\ req[u].op = "evidence" /\ req[u].ev = x
                                              /\ req'[u].op \in {"idle", "emit"}
           ELSE evidence'[x] # "absent"
    BY <1>0, <1>2, <1>4, <1>5
  <2>2. \A p \in Packs :
           IF pack[p].at = "absent"
           THEN pack'[p].at = "absent"
           ELSE /\ pack'[p].at # "absent"
                /\ pack'[p].at \in {"active", "archived"} => InStore(p) /\ pack'[p].ready = pack[p].ready
    BY DEF InStore
  <2>3. NoneVerified
    BY <1>2 DEF NoneVerified
  <2>4. QED
    BY <1>5, <2>1, <2>2, <2>3, RequestsKept
<1>7. VerifiedHasBasis'
  <2>1. ASSUME NEW c \in Claims \ overtaken', claim'[c].verified PROVE Basis(c)'
    <3>1. RestingOK(c) /\ Basis(c) /\ claim'[c].support = claim[c].support
      BY <1>2, <2>1 DEF PublicationInv, VerifiedHasBasis
    <3>2. \A x \in claim[c].support : evidence'[x] = evidence[x]
      BY <1>2, <1>3, <1>4, <3>1 DEF RestingOK, Claim
    <3>3. QED
      BY <1>2, <3>1, <3>2, BasisKept
  <2>2. QED
    BY <2>1 DEF VerifiedHasBasis
<1>8. \A c \in Claims : RestingOK(c)'
  BY <1>2, <1>3, <1>4 DEF PublicationInv, RestingOK, Claim
<1>9. \A c \in Claims, h \in {"content", "book"} : ClaimKept(c, h)
  BY <1>2, <1>5 DEF ClaimKept
<1>10. QED
  BY <1>2, <1>4, <1>5, <1>6, <1>7, <1>8, <1>9, DerivedKept
     DEF PublicationInv, PublicationTypeOK, ResearchTypeOK, Requests

\* The end of a verification, of which the deletions under way are told.
LEMMA VerifyEnds ==
  ASSUME PublicationInv, NEW t \in ResearchThreads, NEW c \in Claims, Verifies(t, c), req[t].op = "verify",
         UNCHANGED missed
  PROVE  /\ req' \in [ResearchThreads -> Requests] /\ req'[t].op = "idle"
         /\ \A u \in ResearchThreads : \/ req'[u] = req[u]
                                       \/ req'[u].op = "idle"
                                       \/ SameDeletion(req'[u], req[u]) /\ req[u].since \subseteq req'[u].since
         /\ \A u \in ResearchThreads :
              req'[u].op = "delete" /\ req'[u].at # "evidence" /\ ~req[t].seen => c \in req'[u].since
         /\ \A x \in Claims, h \in {"content", "book"} : Untold(x, h) => Untold(x, h)'
<1>1. req \in [ResearchThreads -> Requests] /\ Idle \in Requests /\ Idle.op = "idle"
  BY DEF PublicationInv, PublicationTypeOK, Requests, ResearchRequests, Idle
<1>2. PICK tells : tells = [u \in ResearchThreads |-> req[u].op = "delete" /\ req[u].at # "evidence" /\ ~req[t].seen]
  OBVIOUS
<1>3. req' = [u \in ResearchThreads |-> IF u = t THEN Idle
                                        ELSE IF tells[u] THEN [req[u] EXCEPT !.since = @ \cup {c}] ELSE req[u]]
  BY <1>2 DEF Verifies
<1>4. ASSUME NEW u \in ResearchThreads
      PROVE  /\ req'[u] \in Requests
             /\ u = t => req'[u].op = "idle"
             /\ \/ req'[u] = req[u]
                \/ req'[u].op = "idle"
                \/ SameDeletion(req'[u], req[u]) /\ req[u].since \subseteq req'[u].since
             /\ req'[u].op = "delete" /\ req'[u].at # "evidence" /\ ~req[t].seen => c \in req'[u].since
             /\ req[u].op = "emit" => req'[u] = req[u]
  <2>1. CASE u = t
    BY <1>1, <1>3, <2>1
  <2>2. CASE u # t /\ tells[u]
    <3>1. PICK r, q : r = req[u] /\ q = [r EXCEPT !.since = @ \cup {c}]
      OBVIOUS
    <3>2. r \in Deletions
      BY <1>1, <1>2, <2>2, <3>1, RequestTypes
    <3>3. q \in Deletions /\ SameDeletion(q, r) /\ r.since \subseteq q.since /\ c \in q.since
      BY <3>1, <3>2 DEF Deletions, SameDeletion
    <3>4. q \in Requests
      BY <3>3, Zenon DEF Requests, ResearchRequests, Deletions
    <3>5. req'[u] = q /\ r.op = "delete"
      BY <1>2, <1>3, <2>2, <3>1
    <3>6. QED
      BY <2>2, <3>1, <3>3, <3>4, <3>5
  <2>3. CASE u # t /\ ~tells[u]
    BY <1>1, <1>2, <1>3, <2>3
  <2>4. QED
    BY <2>1, <2>2, <2>3
<1>5. req' = [u \in ResearchThreads |-> req'[u]]
  BY <1>3
<1>6. req' \in [ResearchThreads -> Requests]
  BY <1>4, <1>5
<1>7. \A x \in Claims, h \in {"content", "book"} : Untold(x, h) => Untold(x, h)'
  BY <1>4 DEF Untold
<1>8. QED
  BY <1>4, <1>6, <1>7

LEMMA ClaimsDecided ==
  ASSUME PublicationInv, NEW t \in ResearchThreads, verify_claim(t) \/ revise_claim(t),
         UNCHANGED <<pack, book, missed>>
  PROVE  PublicationInv'
<1>1. PICK c, r : c = req[t].claim /\ r = req[t]
  OBVIOUS
<1>2. /\ claim \in [Claims -> Claim] /\ r \in Requests /\ RequestOK(r) /\ RestingOK(c)
      /\ c \in Claims /\ r.op \in {"verify", "revise"} /\ r.seen \in BOOLEAN
      /\ r.op = "revise" => r.support \in SUBSET Evidences /\ r.cited \in SUBSET Evidences
      /\ UNCHANGED <<source_row, evidence>>
  BY <1>1, RequestTypes
     DEF verify_claim, revise_claim, PublicationInv, PublicationTypeOK, ResearchTypeOK, Requests, RequestsOK
<1>3. PICK cs \in SUBSET {c}, row \in Claim :
        /\ Emits(t, cs) \/ (cs = {} /\ r.op = "verify" /\ Verifies(t, c))
        /\ claim' = [claim EXCEPT ![c] = row]
        /\ row.support \subseteq row.cited /\ \A e \in row.cited : evidence[e] # "absent"
        /\ cs = {} => row.version = claim[c].version /\ (claim[c].verified => row.verified)
        /\ overtaken' \subseteq overtaken \cup {c} /\ overtaken \ {c} \subseteq overtaken'
        /\ row.verified /\ c \notin overtaken' =>
             /\ row.support = claim[c].support /\ Basis(c) /\ c \notin overtaken
             /\ claim[c].verified \/ (Verifies(t, c) /\ r.op = "verify" /\ ~r.seen)
  <2>1. CASE verify_claim(t)
    <3>1. PICK v \in BOOLEAN : v = (claim[c].verified \/ ~r.seen)
      BY <1>2
    <3>2. PICK row : row = [claim[c] EXCEPT !.verified = v]
      OBVIOUS
    <3>3. /\ row \in Claim /\ row.support = claim[c].support /\ row.cited = claim[c].cited
          /\ row.version = claim[c].version /\ row.verified = v
      BY <1>2, <3>1, <3>2 DEF Claim
    <3>4. claim' = [claim EXCEPT ![c] = row]
      <4>1. claim' = [claim EXCEPT ![c].verified = claim[c].verified \/ ~r.seen]
        BY <1>1, <1>2, <2>1 DEF verify_claim
      <4>2. QED
        BY <3>1, <3>2, <4>1
    <3>5. /\ overtaken' = IF Basis(c) THEN overtaken ELSE overtaken \cup {c}
          /\ Verifies(t, c) /\ r.op = "verify"
      BY <1>1, <2>1 DEF verify_claim
    <3>6. PICK cs \in SUBSET {c} : cs = {}
      OBVIOUS
    <3>7. QED
      BY <1>2, <3>1, <3>3, <3>4, <3>5, <3>6 DEF RestingOK
  <2>2. CASE revise_claim(t)
    <3>1. PICK kept \in BOOLEAN : kept = (~r.seen /\ claim[c].verified)
      BY <1>2 DEF Claim
    <3>2. claim[c].version + 1 \in 0 .. MaxVersions
      BY <1>1, <1>2, <2>2, ResearchAssumption DEF revise_claim, Claim
    <3>3. PICK row : row = [version |-> claim[c].version + 1, support |-> r.support,
                            cited |-> claim[c].cited \cup r.cited, verified |-> kept]
      OBVIOUS
    <3>4. r.op = "revise" /\ r.support \subseteq r.cited /\ \A e \in r.cited : evidence[e] # "absent"
      BY <1>1, <1>2, <2>2 DEF revise_claim, RequestOK
    <3>5. row \in Claim
      BY <1>2, <3>2, <3>3, <3>4 DEF Claim
    <3>6. claim' = [claim EXCEPT ![c] = row]
      BY <1>1, <2>2, <3>1, <3>3 DEF revise_claim, Revised
    <3>7. /\ overtaken' = IF kept THEN overtaken \cup {c} ELSE overtaken \ {c}
          /\ Emits(t, {c})
      BY <1>1, <2>2, <3>1 DEF revise_claim
    <3>8. PICK cs \in SUBSET {c} : cs = {c}
      OBVIOUS
    <3>9. QED
      BY <1>2, <3>3, <3>4, <3>5, <3>6, <3>7, <3>8 DEF RestingOK
  <2>3. QED
    BY <2>1, <2>2
<1>4. /\ claim' \in [Claims -> Claim] /\ claim'[c] = row /\ \A x \in Claims \ {c} : claim'[x] = claim[x]
  BY <1>2, <1>3
<1>5. /\ req' \in [ResearchThreads -> Requests] /\ req'[t].op \in {"idle", "emit"}
      /\ \A u \in ResearchThreads : \/ req'[u] = req[u]
                                    \/ req'[u].op \in {"idle", "emit"}
                                    \/ SameDeletion(req'[u], req[u]) /\ req[u].since \subseteq req'[u].since
      /\ \A x \in Claims, h \in {"content", "book"} : x \in cs \/ Untold(x, h) => Untold(x, h)'
  <2>1. cs \in SUBSET Claims /\ req[t].op # "emit" /\ UNCHANGED missed
    BY <1>1, <1>2
  <2>2. CASE Emits(t, cs)
    BY <2>1, <2>2, HandlerEnds
  <2>3. CASE cs = {} /\ r.op = "verify" /\ Verifies(t, c)
    BY <1>1, <1>2, <2>1, <2>3, VerifyEnds
  <2>4. QED
    BY <1>3, <2>2, <2>3
<1>a. ASSUME NEW u \in ResearchThreads, req'[u].op = "delete", req'[u].at # "evidence",
             NEW x \in Claims, Stands(x, req[u])'
      PROVE  Stands(x, req[u]) /\ claim'[x].support = claim[x].support
  <2>1. claim'[x].verified /\ x \notin overtaken' /\ x \notin req'[u].since
    BY <1>a DEF Stands
  <2>2. x \notin req[u].since
    BY <1>5, <1>a, <2>1
  <2>3. CASE x # c
    BY <1>3, <1>4, <2>1, <2>2, <2>3 DEF Stands
  <2>4. CASE x = c
    <3>1. ~(Verifies(t, c) /\ r.op = "verify" /\ ~r.seen)
      BY <1>1, <1>2, <1>a, <2>1, <2>4, VerifyEnds
    <3>2. QED
      BY <1>3, <1>4, <2>1, <2>2, <2>4, <3>1 DEF Stands
  <2>5. QED
    BY <2>3, <2>4
<1>6. RequestsOK'
  <2>1. \A p \in Packs :
           IF pack[p].at = "absent"
           THEN pack'[p].at = "absent"
           ELSE /\ pack'[p].at # "absent"
                /\ pack'[p].at \in {"active", "archived"} => InStore(p) /\ pack'[p].ready = pack[p].ready
    BY DEF InStore
  <2>2. QED
    BY <1>2, <1>5, <1>a, <2>1, RequestsGoOn
<1>7. VerifiedHasBasis'
  <2>1. ASSUME NEW x \in Claims \ overtaken', claim'[x].verified PROVE Basis(x)'
    <3>1. RestingOK(x) /\ Basis(x) /\ claim'[x].support = claim[x].support
      BY <1>3, <1>4, <2>1 DEF PublicationInv, VerifiedHasBasis
    <3>2. QED
      BY <1>2, <3>1, BasisKept
  <2>2. QED
    BY <2>1 DEF VerifiedHasBasis
<1>8. \A x \in Claims : RestingOK(x)'
  BY <1>2, <1>3, <1>4 DEF PublicationInv, RestingOK
<1>9. \A x \in Claims, h \in {"content", "book"} : ClaimKept(x, h)
  BY <1>3, <1>4, <1>5 DEF ClaimKept
<1>10. QED
  BY <1>2, <1>3, <1>4, <1>5, <1>6, <1>7, <1>8, <1>9, DerivedKept
     DEF PublicationInv, PublicationTypeOK, ResearchTypeOK, Requests

\* What an invalidation or a deletion of a source commits: its evidence `es` is now unverified or gone,
\* and the claims `cs` with it; no other claim that is verified rests on the source.
SourceChange(t, es, cs, cites, now) ==
  LET s == req[t].src
  IN /\ s \in Sources /\ req[t].op # "emit" /\ cs \subseteq cites /\ Emits(t, cites) /\ UNCHANGED missed
     /\ source_row' \in [Sources -> SourceStates]
     /\ \A x \in Sources \ {s} : source_row'[x] = source_row[x]
     /\ \A e \in es : SourceOf[e] = s /\ evidence[e] # "absent"
     /\ evidence' = [e \in Evidences |-> IF e \in es THEN now ELSE evidence[e]]
     /\ claim' = Unverified(cs) /\ overtaken' \subseteq Claims
     /\ \A c \in Claims \ cs : c \notin overtaken' => c \notin overtaken /\ (claim[c].verified => ~RestsOn(c, s))

LEMMA SourceRows ==
  ASSUME PublicationInv, NEW t \in ResearchThreads, NEW es \in SUBSET Evidences, NEW cs \in SUBSET Claims,
         NEW cites \in SUBSET Claims, NEW now \in {"unverified", "gone"}, SourceChange(t, es, cs, cites, now)
  PROVE  /\ source_row' \in [Sources -> SourceStates] /\ evidence' \in [Evidences -> EvidenceStates]
         /\ claim' \in [Claims -> Claim] /\ overtaken' \subseteq Claims
         /\ VerifiedHasBasis' /\ \A c \in Claims : RestingOK(c)'
         /\ \A e \in Evidences : evidence'[e] = "absent" <=> evidence[e] = "absent"
         /\ \A c \in Claims, h \in {"content", "book"} : ClaimKept(c, h)
         /\ req' \in [ResearchThreads -> Requests]
         /\ \A u \in ResearchThreads : req'[u] = req[u] \/ req'[u].op \in {"idle", "emit"}
         /\ NoneVerified
<1> DEFINE s == req[t].src
<1>1. /\ s \in Sources /\ req[t].op # "emit" /\ overtaken' \subseteq Claims
      /\ source_row \in [Sources -> SourceStates] /\ claim \in [Claims -> Claim]
      /\ evidence \in [Evidences -> EvidenceStates] /\ overtaken \subseteq Claims
  BY DEF SourceChange, PublicationInv, PublicationTypeOK, ResearchTypeOK
<1>2. evidence' = [e \in Evidences |-> IF e \in es THEN now ELSE evidence[e]]
  BY DEF SourceChange
<1>3. source_row' \in [Sources -> SourceStates] /\ \A x \in Sources \ {s} : source_row'[x] = source_row[x]
  BY DEF SourceChange
<1>5. claim' = [c \in Claims |-> IF c \in cs THEN [claim[c] EXCEPT !.verified = FALSE] ELSE claim[c]]
  BY DEF SourceChange, Unverified
<1>6. /\ claim' \in [Claims -> Claim]
      /\ \A c \in Claims : /\ claim'[c].version = claim[c].version /\ claim'[c].support = claim[c].support
                           /\ claim'[c].cited = claim[c].cited
                           /\ c \in cs => claim'[c].verified = FALSE
                           /\ c \notin cs => claim'[c].verified = claim[c].verified
  <2>1. ASSUME NEW c \in Claims
        PROVE  /\ claim'[c] \in Claim
               /\ claim'[c].version = claim[c].version /\ claim'[c].support = claim[c].support
               /\ claim'[c].cited = claim[c].cited
               /\ c \in cs => claim'[c].verified = FALSE
               /\ c \notin cs => claim'[c].verified = claim[c].verified
    <3>1. PICK row \in Claim : row = claim[c]
      BY <1>1
    <3>2. claim'[c] = IF c \in cs THEN [row EXCEPT !.verified = FALSE] ELSE row
      BY <1>5, <3>1
    <3>3. QED
      BY <3>1, <3>2 DEF Claim
  <2>2. claim' = [c \in Claims |-> claim'[c]]
    BY <1>5
  <2>3. QED
    BY <2>1, <2>2
<1>4. \A e \in es : SourceOf[e] = s /\ evidence[e] # "absent"
  BY DEF SourceChange
<1>7. /\ evidence' \in [Evidences -> EvidenceStates]
      /\ \A e \in Evidences : /\ evidence'[e] = "absent" <=> evidence[e] = "absent"
                              /\ e \notin es => evidence'[e] = evidence[e]
  BY <1>1, <1>2, <1>4 DEF EvidenceStates
<1>8. /\ req' \in [ResearchThreads -> Requests]
      /\ \A u \in ResearchThreads : req'[u] = req[u] \/ req'[u].op \in {"idle", "emit"}
      /\ \A c \in Claims, h \in {"content", "book"} : c \in cs \/ Untold(c, h) => Untold(c, h)'
  <2>1. Emits(t, cites) /\ cs \subseteq cites /\ UNCHANGED missed
    BY DEF SourceChange
  <2>2. QED
    BY <1>1, <2>1, HandlerEnds
<1>a. ASSUME NEW c \in Claims, c \notin overtaken', claim'[c].verified
      PROVE  c \notin overtaken /\ claim[c].verified /\ ~RestsOn(c, s)
  <2>1. c \notin cs /\ claim[c].verified
    BY <1>6, <1>a
  <2>2. QED
    BY <1>a, <2>1 DEF SourceChange
<1>9. VerifiedHasBasis'
  <2>1. ASSUME NEW c \in Claims \ overtaken', claim'[c].verified PROVE Basis(c)'
    <3>2. RestingOK(c) /\ Basis(c) /\ claim'[c].support = claim[c].support /\ ~RestsOn(c, s)
      BY <1>6, <1>a, <2>1 DEF PublicationInv, VerifiedHasBasis
    <3>3. ASSUME NEW e \in claim[c].support, evidence[e] = "verified", source_row[SourceOf[e]] = "verified"
          PROVE  evidence'[e] = "verified" /\ source_row'[SourceOf[e]] = "verified"
      <4>1. e \in Evidences /\ SourceOf[e] # s
        BY <1>1, <3>2 DEF Claim, RestsOn
      <4>2. e \notin es /\ SourceOf[e] \in Sources \ {s}
        BY <1>4, <4>1, ResearchAssumption
      <4>3. QED
        BY <1>3, <1>7, <3>3, <4>1, <4>2
    <3>4. QED
      BY <3>2, <3>3, BasisKept
  <2>2. QED
    BY <2>1 DEF VerifiedHasBasis
<1>10. \A c \in Claims : RestingOK(c)'
  BY <1>1, <1>6, <1>7 DEF PublicationInv, RestingOK, Claim
<1>11. \A c \in Claims, h \in {"content", "book"} : ClaimKept(c, h)
  BY <1>6, <1>8 DEF ClaimKept
<1>12. NoneVerified
  BY <1>6, <1>a DEF NoneVerified
<1>13. QED
  BY <1>1, <1>3, <1>6, <1>7, <1>8, <1>9, <1>10, <1>11, <1>12

\* A claim whose verification stands rests on what a deletion has found, when it has looked.
LEMMA DeletionRests ==
  ASSUME PublicationInv, NEW t \in ResearchThreads, req[t].op = "delete", NEW cs \in SUBSET Claims,
         \/ req[t].at = "locked" /\ cs = citing(req[t].found)
         \/ req[t].at = "dependents" /\ cs = req[t].seen
         \/ req[t].at = "rows" /\ cs = {},
         NEW c \in Claims \ cs, claim[c].verified, c \notin overtaken, c \notin req[t].since
  PROVE  ~RestsOn(c, req[t].src)
<1>1. DeletionOK(req[t]) /\ Stands(c, req[t]) /\ RestingOK(c)
  BY DEF PublicationInv, RequestsOK, RequestOK, Stands
<1>2. CASE req[t].at = "locked" /\ cs = citing(req[t].found)
  BY <1>1, <1>2 DEF DeletionOK, RestsOn, RestingOK, citing
<1>3. CASE req[t].at = "dependents" /\ cs = req[t].seen
  BY <1>1, <1>3 DEF DeletionOK
<1>4. CASE req[t].at = "rows" /\ cs = {}
  BY <1>1, <1>4 DEF DeletionOK
<1>5. QED
  BY <1>2, <1>3, <1>4

\* A commit of an invalidation or a deletion, with the claims that it tells of.
LEMMA SourceDecided ==
  ASSUME PublicationInv, NEW t \in ResearchThreads,
         invalidate_source(t) \/ delete_locked(t) \/ delete_changing(t) \/ delete_unchanging(t)
  PROVE  \E es \in SUBSET Evidences, cs \in SUBSET Claims, cites \in SUBSET Claims, now \in {"unverified", "gone"} :
           SourceChange(t, es, cs, cites, now)
<1>1. /\ source_row \in [Sources -> SourceStates] /\ claim \in [Claims -> Claim]
      /\ evidence \in [Evidences -> EvidenceStates] /\ overtaken \subseteq Claims
      /\ req[t] \in Requests /\ RequestOK(req[t])
  BY DEF PublicationInv, PublicationTypeOK, ResearchTypeOK, Requests, RequestsOK
<1>2. ASSUME NEW s, NEW es, es = EvidenceOf(s)
      PROVE  es \in SUBSET Evidences /\ \A e \in es : SourceOf[e] = s /\ evidence[e] # "absent"
  BY <1>2 DEF EvidenceOf, Recorded
<1>3. CASE invalidate_source(t)
  <2>1. PICK s : s = req[t].src
    OBVIOUS
  <2>2. /\ invalidate_rows(t) /\ UNCHANGED missed /\ req[t].op = "invalidate" /\ s \in Sources
    BY <1>1, <1>3, <2>1, RequestTypes DEF invalidate_source, invalidate_rows
  <2>3. PICK es \in SUBSET Evidences, cs \in SUBSET Claims : es = EvidenceOf(s) /\ cs = affected_claims(s)
    BY <1>2 DEF affected_claims, citing
  <2>4. /\ source_row' \in [Sources -> SourceStates] /\ \A x \in Sources \ {s} : source_row'[x] = source_row[x]
    BY <1>1, <2>1, <2>2 DEF invalidate_rows, SourceStates
  <2>5. /\ evidence' = [e \in Evidences |-> IF e \in es THEN "unverified" ELSE evidence[e]]
        /\ claim' = Unverified(cs) /\ overtaken' = overtaken \ cs /\ Emits(t, cs)
    BY <2>1, <2>2, <2>3 DEF invalidate_rows
  <2>6. ASSUME NEW c \in Claims \ cs, c \notin overtaken', claim[c].verified, RestsOn(c, s) PROVE FALSE
    <3>1. Basis(c) /\ RestingOK(c)
      BY <2>5, <2>6 DEF PublicationInv, VerifiedHasBasis
    <3>2. PICK e \in claim[c].support : SourceOf[e] = s
      BY <2>6 DEF RestsOn
    <3>3. e \in claim[c].cited /\ e \in Evidences /\ evidence[e] = "verified"
      BY <1>1, <3>1, <3>2 DEF Basis, RestingOK, Claim
    <3>4. e \in es
      BY <2>3, <3>2, <3>3 DEF EvidenceOf, Recorded
    <3>5. QED
      BY <2>3, <2>6, <3>3, <3>4 DEF affected_claims, citing
  <2>7. SourceChange(t, es, cs, cs, "unverified")
    BY <1>1, <1>2, <2>1, <2>2, <2>3, <2>4, <2>5, <2>6 DEF SourceChange
  <2>8. QED
    BY <2>7
<1>4. ASSUME NEW es, NEW cs, NEW cites, delete_rows(t, es, cs, cites), UNCHANGED missed, req[t].op = "delete",
             \/ req[t].at = "locked" /\ es = EvidenceOf(req[t].src) /\ cs = citing(req[t].found) /\ cites = cs
             \/ /\ req[t].at = "dependents" /\ es = EvidenceOf(req[t].src)
                /\ cs = req[t].seen /\ cites = req[t].cites
             \/ req[t].at = "rows" /\ es = req[t].found /\ cs = {} /\ cites = req[t].cites
      PROVE  /\ es \in SUBSET Evidences /\ cs \in SUBSET Claims /\ cites \in SUBSET Claims
             /\ SourceChange(t, es, cs, cites, "gone")
  <2>1. PICK r, s : r = req[t] /\ s = r.src
    OBVIOUS
  <2>2. r \in Deletions /\ DeletionOK(r)
    BY <1>1, <1>4, <2>1, RequestTypes DEF RequestOK
  <2>3. /\ s \in Sources /\ r.found \subseteq Evidences /\ r.seen \subseteq Claims /\ r.cites \subseteq Claims
        /\ r.since \subseteq Claims
    BY <2>1, <2>2 DEF Deletions
  <2>4. /\ es \in SUBSET Evidences /\ cs \in SUBSET Claims /\ cites \in SUBSET Claims /\ cs \subseteq cites
        /\ \A e \in es : SourceOf[e] = s /\ evidence[e] # "absent"
    BY <1>2, <1>4, <2>1, <2>2, <2>3 DEF DeletionOK, citing
  <2>5. /\ source_row' = [source_row EXCEPT ![s] = "gone"] /\ claim' = Unverified(cs) /\ Emits(t, cites)
        /\ evidence' = [e \in Evidences |-> IF e \in es THEN "gone" ELSE evidence[e]]
        /\ overtaken' = (overtaken \cup {c \in r.since : RestsOn(c, s)}) \ cs
    BY <1>4, <2>1 DEF delete_rows, RestsOn
  <2>6. /\ source_row' \in [Sources -> SourceStates] /\ \A x \in Sources \ {s} : source_row'[x] = source_row[x]
    BY <1>1, <2>5 DEF SourceStates
  <2>7. ASSUME NEW c \in Claims \ cs, c \notin overtaken' PROVE c \notin overtaken /\ (claim[c].verified => ~RestsOn(c, s))
    <3>1. c \notin overtaken /\ (c \in r.since => ~RestsOn(c, s))
      BY <2>5, <2>7
    <3>2. QED
      BY <1>4, <2>1, <2>4, <3>1, DeletionRests
  <2>8. SourceChange(t, es, cs, cites, "gone")
    BY <1>1, <1>4, <2>1, <2>3, <2>4, <2>5, <2>6, <2>7 DEF SourceChange
  <2>9. QED
    BY <2>4, <2>8
<1>5. CASE delete_locked(t)
  <2>1. /\ req[t].op = "delete" /\ req[t].at = "locked" /\ UNCHANGED missed
        /\ delete_rows(t, EvidenceOf(req[t].src), citing(req[t].found), citing(req[t].found))
    BY <1>5 DEF delete_locked, Deleting, delete_dependents
  <2>2. QED
    BY <1>4, <2>1
<1>6. CASE delete_changing(t)
  <2>1. /\ req[t].op = "delete" /\ req[t].at = "dependents" /\ UNCHANGED missed
        /\ delete_rows(t, EvidenceOf(req[t].src), req[t].seen, req[t].cites)
    BY <1>6 DEF delete_changing, Deleting, delete_dependents
  <2>2. QED
    BY <1>4, <2>1
<1>7. CASE delete_unchanging(t)
  <2>1. /\ req[t].op = "delete" /\ req[t].at = "rows" /\ UNCHANGED missed
        /\ delete_rows(t, req[t].found, {}, req[t].cites)
    BY <1>7 DEF delete_unchanging, Deleting
  <2>2. QED
    BY <1>4, <2>1
<1>8. QED
  BY <1>3, <1>5, <1>6, <1>7

\* What a source's change does to a pack, and to a book: only their review and their state.
LEMMA ReturnedPack ==
  ASSUME NEW p \in Packs, NEW srefs \in SUBSET Sources, NEW cs, pack[p] \in Pack,
         NEW z, z \in {[Returned(p, cs) EXCEPT !.srefs = srefs], [pack[p] EXCEPT !.srefs = srefs], Returned(p, cs)}
  PROVE  /\ z \in Pack /\ z.at = pack[p].at /\ z.ready = pack[p].ready /\ z.shown = pack[p].shown
         /\ z.late = pack[p].late
         /\ z.approved => pack[p].approved
         /\ pack[p].review => z.review
<1>1. PICK old \in Pack : old = pack[p]
  OBVIOUS
<1>2. PICK back : back = [old EXCEPT !.review = TRUE, !.approved = FALSE]
  OBVIOUS
<1>3. back \in Pack /\ Returned(p, cs) \in {old, back}
  BY <1>1, <1>2 DEF Returned, Pack
<1>4. PICK row \in {old, back} : z = row \/ z = [row EXCEPT !.srefs = srefs]
  BY <1>1, <1>3
<1>5. /\ back.at = old.at /\ back.ready = old.ready /\ back.shown = old.shown /\ back.late = old.late
      /\ back.approved = FALSE /\ back.review = TRUE
  BY <1>2 DEF Pack
<1>6. /\ row \in Pack /\ row.at = old.at /\ row.ready = old.ready /\ row.shown = old.shown /\ row.late = old.late
      /\ row.approved => old.approved
      /\ old.review => row.review
  BY <1>3, <1>5
<1>7. /\ z \in Pack /\ z.at = row.at /\ z.ready = row.ready /\ z.shown = row.shown /\ z.late = row.late
      /\ z.approved = row.approved /\ z.review = row.review
  BY <1>4, <1>6 DEF Pack
<1>8. QED
  BY <1>1, <1>6, <1>7

LEMMA RestaledBook ==
  ASSUME NEW b \in Books, NEW s, NEW cs, book[b] \in Book
  PROVE  /\ Restaled(b, s, cs) \in Book
         /\ Restaled(b, s, cs).chapter = "current" => book[b].chapter = "current"
         /\ Restaled(b, s, cs).shown = book[b].shown /\ Restaled(b, s, cs).saw = book[b].saw
         /\ Restaled(b, s, cs).late = book[b].late
<1>1. /\ Staled(b) \in Book /\ Staled(b).chapter # "current"
      /\ Staled(b).shown = book[b].shown /\ Staled(b).saw = book[b].saw
      /\ Staled(b).late = book[b].late
  BY DEF Staled, Book
<1>2. PICK x \in {Staled(b), book[b]} :
        Restaled(b, s, cs) = IF s \in book[b].srefs THEN [x EXCEPT !.status = "stale"] ELSE x
  BY DEF Restaled
<1>3. /\ x \in Book /\ (x.chapter = "current" => book[b].chapter = "current")
      /\ x.shown = book[b].shown /\ x.saw = book[b].saw /\ x.late = book[b].late
  BY <1>1
<1>4. PICK y : y = [x EXCEPT !.status = "stale"]
  OBVIOUS
<1>5. /\ y \in Book /\ y.chapter = x.chapter /\ y.shown = x.shown /\ y.saw = x.saw /\ y.late = x.late
  BY <1>3, <1>4 DEF Book
<1>6. QED
  BY <1>2, <1>3, <1>4, <1>5

\* What such a commit does to packs and books.
LEMMA DependentsChange ==
  ASSUME PublicationTypeOK, NEW t \in ResearchThreads,
         invalidate_source(t) \/ delete_locked(t) \/ delete_changing(t) \/ delete_unchanging(t)
  PROVE  /\ pack' \in [Packs -> Pack]
         /\ \A p \in Packs : /\ pack'[p].at = pack[p].at /\ pack'[p].ready = pack[p].ready
                             /\ pack'[p].shown = pack[p].shown /\ pack'[p].late = pack[p].late
                             /\ pack'[p].approved => pack[p].approved
                             /\ pack[p].review => pack'[p].review
         /\ book' \in [Books -> Book]
         /\ \A b \in Books : /\ book'[b].chapter = "current" => book[b].chapter = "current"
                             /\ book'[b].shown = book[b].shown /\ book'[b].saw = book[b].saw
                             /\ book'[b].late = book[b].late
<1>1. pack \in [Packs -> Pack] /\ book \in [Books -> Book]
  BY DEF PublicationTypeOK
<1>2. PICK s : s = req[t].src
  OBVIOUS
<1>3. \E cs : \/ pack' = [p \in Packs |-> Returned(p, cs)]
              \/ pack' = [p \in Packs |-> [Returned(p, cs) EXCEPT !.srefs = @ \ {s}]]
              \/ pack' = [p \in Packs |-> [pack[p] EXCEPT !.srefs = @ \ {s}]]
  <2>1. CASE invalidate_source(t)
    BY <1>2, <2>1, Zenon DEF invalidate_source
  <2>2. CASE delete_locked(t)
    BY <1>2, <2>2, Zenon DEF delete_locked, delete_dependents
  <2>3. CASE delete_changing(t)
    BY <1>2, <2>3, Zenon DEF delete_changing, delete_dependents
  <2>4. CASE delete_unchanging(t)
    BY <1>2, <2>4, Zenon DEF delete_unchanging
  <2>5. QED
    BY <2>1, <2>2, <2>3, <2>4
<1>4. PICK cs : \/ pack' = [p \in Packs |-> Returned(p, cs)]
                \/ pack' = [p \in Packs |-> [Returned(p, cs) EXCEPT !.srefs = @ \ {s}]]
                \/ pack' = [p \in Packs |-> [pack[p] EXCEPT !.srefs = @ \ {s}]]
  BY <1>3
<1>5. ASSUME NEW p \in Packs
      PROVE  /\ pack'[p] \in Pack /\ pack'[p].at = pack[p].at /\ pack'[p].ready = pack[p].ready
             /\ pack'[p].shown = pack[p].shown /\ pack'[p].late = pack[p].late
             /\ pack'[p].approved => pack[p].approved
             /\ pack[p].review => pack'[p].review
  <2>1. PICK srefs \in SUBSET Sources : srefs = pack[p].srefs \ {s}
    BY <1>1 DEF Pack
  <2>2. Returned(p, cs).srefs = pack[p].srefs
    BY <1>1 DEF Returned, Pack
  <2>3. pack'[p] \in {[Returned(p, cs) EXCEPT !.srefs = srefs], [pack[p] EXCEPT !.srefs = srefs], Returned(p, cs)}
    BY <1>4, <2>1, <2>2
  <2>4. PICK z : z = pack'[p]
    OBVIOUS
  <2>5. pack[p] \in Pack
    BY <1>1
  <2>6. QED
    BY <2>3, <2>4, <2>5, ReturnedPack
<1>6. pack' = [p \in Packs |-> pack'[p]]
  BY <1>4
<1>7. (\E ds : book' = [b \in Books |-> Restaled(b, s, ds)]) \/ UNCHANGED book
  BY <1>2 DEF invalidate_source, delete_locked, delete_changing, delete_unchanging, delete_dependents
<1>8. CASE UNCHANGED book
  BY <1>1, <1>5, <1>6, <1>8
<1>9. CASE \E ds : book' = [b \in Books |-> Restaled(b, s, ds)]
  <2>1. PICK ds : book' = [b \in Books |-> Restaled(b, s, ds)]
    BY <1>9
  <2>2. QED
    BY <1>1, <1>5, <1>6, <2>1, RestaledBook
<1>10. QED
  BY <1>7, <1>8, <1>9

\* What is published from the source's claims goes back to review.
LEMMA SourceChanges ==
  ASSUME PublicationInv, NEW t \in ResearchThreads,
         invalidate_source(t) \/ delete_locked(t) \/ delete_changing(t) \/ delete_unchanging(t)
  PROVE  PublicationInv'
<1>1. PICK es \in SUBSET Evidences, cs \in SUBSET Claims, cites \in SUBSET Claims, now \in {"unverified", "gone"} :
        SourceChange(t, es, cs, cites, now)
  BY SourceDecided
<1>2. UNCHANGED missed
  BY <1>1 DEF SourceChange
<1>3. /\ source_row' \in [Sources -> SourceStates] /\ evidence' \in [Evidences -> EvidenceStates]
      /\ claim' \in [Claims -> Claim] /\ overtaken' \subseteq Claims
      /\ VerifiedHasBasis' /\ \A c \in Claims : RestingOK(c)'
      /\ \A e \in Evidences : evidence'[e] = "absent" <=> evidence[e] = "absent"
      /\ \A c \in Claims, h \in {"content", "book"} : ClaimKept(c, h)
      /\ req' \in [ResearchThreads -> Requests]
      /\ \A u \in ResearchThreads : req'[u] = req[u] \/ req'[u].op \in {"idle", "emit"}
      /\ NoneVerified
  BY <1>1, SourceRows
<1>4. PublicationTypeOK
  BY DEF PublicationInv
<1>5. /\ pack' \in [Packs -> Pack]
      /\ \A p \in Packs : /\ pack'[p].at = pack[p].at /\ pack'[p].ready = pack[p].ready
                          /\ pack'[p].shown = pack[p].shown /\ pack'[p].late = pack[p].late
                          /\ pack'[p].approved => pack[p].approved
                          /\ pack[p].review => pack'[p].review
      /\ book' \in [Books -> Book]
      /\ \A b \in Books : /\ book'[b].chapter = "current" => book[b].chapter = "current"
                          /\ book'[b].shown = book[b].shown /\ book'[b].saw = book[b].saw
                          /\ book'[b].late = book[b].late
  BY <1>4, DependentsChange
<1>7. \A p \in Packs : PackOK(p)'
  <2>1. ASSUME NEW p \in Packs PROVE PackOK(p)'
    <3>1. ClaimsIn(pack[p]) \subseteq Claims
      BY DEF ClaimsIn
    <3>2. QED
      BY <1>3, <1>5, <3>1, PackKept DEF PublicationInv, InStore
  <2>2. QED
    BY <2>1
<1>8. \A b \in Books : BookOK(b)'
  <2>1. ASSUME NEW b \in Books PROVE BookOK(b)'
    <3>1. ClaimsIn(book[b]) \subseteq Claims
      BY DEF ClaimsIn
    <3>2. QED
      BY <1>3, <1>5, <3>1, BookKept DEF PublicationInv
  <2>2. QED
    BY <2>1
<1>9. RequestsOK'
  <2>1. \A p \in Packs :
           IF pack[p].at = "absent"
           THEN pack'[p].at = "absent"
           ELSE /\ pack'[p].at # "absent"
                /\ pack'[p].at \in {"active", "archived"} => InStore(p) /\ pack'[p].ready = pack[p].ready
    BY <1>5 DEF InStore
  <2>2. QED
    BY <1>3, <2>1, RequestsKept
<1>10. QED
  BY <1>2, <1>3, <1>5, <1>7, <1>8, <1>9 DEF PublicationInv, PublicationTypeOK, ResearchTypeOK, Requests

\* The rows of the claims are as they were: what is left to show of a step on packs and books.
LEMMA RowsAsTheyWere ==
  ASSUME PublicationInv, RowsKept, req' \in [ResearchThreads -> Requests], RequestsOK',
         pack' \in [Packs -> Pack], book' \in [Books -> Book], missed' \subseteq Claims \X {"content", "book"},
         \A p \in Packs : PackOK(p)', \A b \in Books : BookOK(b)'
  PROVE  PublicationInv'
BY DEF PublicationInv, RowsKept, PublicationTypeOK, ResearchTypeOK, Requests, VerifiedHasBasis, Basis, RestingOK

LEMMA PackRows ==
  ASSUME PublicationInv,
         \/ \E p \in Packs : archive_pack(p) \/ delete_pack(p)
         \/ \E t \in ResearchThreads : build_commit(t) \/ approve_commit(t)
  PROVE  PublicationInv'
<1>1. /\ pack \in [Packs -> Pack] /\ book \in [Books -> Book] /\ missed \subseteq Claims \X {"content", "book"}
      /\ req \in [ResearchThreads -> Requests] /\ claim \in [Claims -> Claim]
      /\ RowsKept /\ UNCHANGED <<book, missed>>
  BY DEF PublicationInv, PublicationTypeOK, ResearchTypeOK, Requests, archive_pack, delete_pack, build_commit,
         approve_commit
<1>2. ASSUME NEW p \in Packs, NEW row \in Pack, pack' = [pack EXCEPT ![p] = row],
             req' \in [ResearchThreads -> Requests],
             \A u \in ResearchThreads : req'[u] = req[u] \/ req'[u].op \in {"idle", "emit"},
             \A c \in Claims, h \in {"content", "book"} : Untold(c, h) => Untold(c, h)',
             IF pack[p].at = "absent"
             THEN \E t \in ResearchThreads : /\ req[t].op = "build" /\ req[t].pack = p
                                             /\ req'[t].op \in {"idle", "emit"}
             ELSE /\ row.at # "absent"
                  /\ row.at \in {"active", "archived"} => InStore(p) /\ row.ready = pack[p].ready,
             PackOK(p)'
      PROVE  PublicationInv'
  <2>1. pack' \in [Packs -> Pack] /\ pack'[p] = row /\ \A q \in Packs \ {p} : pack'[q] = pack[q]
    BY <1>1, <1>2
  <2>2. \A c \in Claims, h \in {"content", "book"} : ClaimKept(c, h)
    BY <1>1, <1>2 DEF ClaimKept, RowsKept
  <2>3. ASSUME NEW q \in Packs \ {p} PROVE PackOK(q)'
    <3>1. ClaimsIn(pack[q]) \subseteq Claims
      BY DEF ClaimsIn
    <3>2. QED
      BY <2>1, <2>2, <3>1, PackKept DEF PublicationInv, InStore
  <2>4. ASSUME NEW b \in Books PROVE BookOK(b)'
    <3>1. ClaimsIn(book[b]) \subseteq Claims
      BY DEF ClaimsIn
    <3>2. QED
      BY <1>1, <2>2, <3>1, BookKept DEF PublicationInv
  <2>5. RequestsOK'
    <3>1. \A q \in Packs :
            IF pack[q].at = "absent"
            THEN \/ pack'[q].at = "absent"
                 \/ \E t \in ResearchThreads : /\ req[t].op = "build" /\ req[t].pack = q
                                               /\ req'[t].op \in {"idle", "emit"}
            ELSE /\ pack'[q].at # "absent"
                 /\ pack'[q].at \in {"active", "archived"} => InStore(q) /\ pack'[q].ready = pack[q].ready
      BY <1>2, <2>1 DEF InStore
    <3>2. \A e \in Evidences : evidence'[e] = evidence[e]
      BY <1>1 DEF RowsKept
    <3>3. NoneVerified
      BY <1>1 DEF NoneVerified, RowsKept
    <3>4. QED
      BY <1>2, <3>1, <3>2, <3>3, RequestsKept
  <2>6. QED
    BY <1>1, <1>2, <2>1, <2>3, <2>4, <2>5, RowsAsTheyWere
<1>3. CASE \E p \in Packs : archive_pack(p) \/ delete_pack(p)
  <2>1. PICK p \in Packs : archive_pack(p) \/ delete_pack(p)
    BY <1>3
  <2>2. PICK row \in Pack :
          /\ pack' = [pack EXCEPT ![p] = row]
          /\ \/ row.at = "gone"
             \/ /\ row.at \in {"active", "archived"} /\ row.ready = pack[p].ready /\ row.approved = pack[p].approved
                /\ row.review = pack[p].review /\ row.late = pack[p].late /\ row.shown = pack[p].shown
    <3>1. CASE archive_pack(p)
      <4>1. PICK at \in {"active", "archived"} : pack' = [pack EXCEPT ![p].at = at]
        BY <3>1 DEF archive_pack
      <4>2. PICK row : row = [pack[p] EXCEPT !.at = at]
        OBVIOUS
      <4>3. row \in Pack /\ pack' = [pack EXCEPT ![p] = row]
        BY <1>1, <4>1, <4>2 DEF Pack
      <4>4. QED
        BY <1>1, <4>2, <4>3 DEF Pack
    <3>2. CASE delete_pack(p)
      <4>1. PICK row : row = [NoPack EXCEPT !.at = "gone"]
        OBVIOUS
      <4>2. Nothing \in Shown
        BY ResearchAssumption DEF Nothing, Shown
      <4>3. NoPack \in Pack
        BY <4>2 DEF NoPack, Pack
      <4>4. row \in Pack /\ row.at = "gone"
        BY <4>1, <4>3 DEF Pack
      <4>5. pack' = [pack EXCEPT ![p] = row]
        BY <3>2, <4>1 DEF delete_pack
      <4>6. QED
        BY <4>4, <4>5
    <3>3. QED
      BY <2>1, <3>1, <3>2
  <2>3. InStore(p) /\ UNCHANGED req
    BY <2>1 DEF archive_pack, delete_pack
  <2>4. pack'[p] = row
    BY <1>1, <2>2
  <2>5. \A c \in Claims, h \in {"content", "book"} : Untold(c, h) => Untold(c, h)'
    BY <1>1, <2>3 DEF Untold
  <2>6. PackOK(p)'
    <3>1. \A c \in Claims : ClaimKept(c, "content")
      BY <1>1, <2>5 DEF ClaimKept, RowsKept
    <3>2. ClaimsIn(pack[p]) \subseteq Claims
      BY DEF ClaimsIn
    <3>3. QED
      BY <2>2, <2>3, <2>4, <3>1, <3>2, PackKept DEF PublicationInv
  <2>7. QED
    BY <1>1, <1>2, <2>2, <2>3, <2>5, <2>6 DEF InStore
<1>4. CASE \E t \in ResearchThreads : build_commit(t) \/ approve_commit(t)
  <2>1. PICK t \in ResearchThreads : build_commit(t) \/ approve_commit(t)
    BY <1>4
  <2>2. PICK r : r = req[t]
    OBVIOUS
  <2>3. r \in Requests /\ RequestOK(r) /\ r.op \in {"build", "approve"} /\ r.pack \in Packs
    BY <1>1, <2>1, <2>2, RequestTypes DEF build_commit, approve_commit, PublicationInv, RequestsOK
  <2>4. /\ req' \in [ResearchThreads -> Requests] /\ req'[t].op \in {"idle", "emit"}
        /\ \A u \in ResearchThreads : req'[u] = req[u] \/ req'[u].op \in {"idle", "emit"}
        /\ \A c \in Claims, h \in {"content", "book"} : Untold(c, h) => Untold(c, h)'
    <3>1. PICK cs \in SUBSET Claims : cs = {}
      OBVIOUS
    <3>2. Done(t) /\ req[t].op # "emit" /\ UNCHANGED missed
      BY <1>1, <2>1, <2>2, <2>3 DEF build_commit, approve_commit
    <3>3. QED
      BY <3>1, <3>2, HandlerEnds
  <2>5. CASE build_commit(t)
    <3>1. r.op = "build" /\ r.shown \in Shown /\ r.srefs \in SUBSET Sources /\ r.ready \in BOOLEAN
      BY <2>2, <2>3, <2>5, RequestTypes DEF build_commit
    <3>2. PICK late \in BOOLEAN : late = Outdated(r, IF r.ready THEN ClaimsIn(r) ELSE {})
      BY DEF Outdated
    <3>3. PICK row : row = [at |-> "active", shown |-> r.shown, srefs |-> r.srefs, ready |-> r.ready,
                            review |-> FALSE, approved |-> FALSE, late |-> late]
      OBVIOUS
    <3>4. row \in Pack
      BY <3>1, <3>3 DEF Pack
    <3>5. pack' = [pack EXCEPT ![r.pack] = row]
      BY <2>2, <2>5, <3>2, <3>3 DEF build_commit
    <3>6. pack'[r.pack] = row
      BY <1>1, <2>3, <3>5
    <3>7. ASSUME r.ready, ~late, NEW c \in Claims, r.shown[c] > 0
          PROVE  r.shown[c] = claim[c].version /\ claim[c].verified
      BY <3>2, <3>7 DEF Outdated, ClaimsIn
    <3>8. PackOK(r.pack)'
      BY <1>1, <3>3, <3>6, <3>7 DEF PackOK, InStore, ClaimsIn, RowsKept
    <3>9. pack[r.pack].at = "absent"
      BY <2>3, <3>1 DEF RequestOK
    <3>10. QED
      BY <1>2, <2>2, <2>3, <2>4, <3>1, <3>4, <3>5, <3>8, <3>9
  <2>6. CASE approve_commit(t)
    <3>1. InStore(r.pack) /\ pack[r.pack].ready /\ pack' = [pack EXCEPT ![r.pack].approved = TRUE]
      BY <2>2, <2>3, <2>6 DEF approve_commit, RequestOK
    <3>2. PICK row : row = [pack[r.pack] EXCEPT !.approved = TRUE]
      OBVIOUS
    <3>3. /\ row \in Pack /\ row.at = pack[r.pack].at /\ row.ready = pack[r.pack].ready
          /\ row.review = pack[r.pack].review /\ row.late = pack[r.pack].late /\ row.shown = pack[r.pack].shown
      <4>1. PICK old \in Pack : old = pack[r.pack]
        BY <1>1, <2>3
      <4>2. row = [old EXCEPT !.approved = TRUE]
        BY <3>2, <4>1
      <4>3. row \in Pack
        BY <4>2 DEF Pack
      <4>4. QED
        BY <4>1, <4>2, <4>3 DEF Pack
    <3>4. pack' = [pack EXCEPT ![r.pack] = row] /\ pack'[r.pack] = row
      BY <1>1, <2>3, <3>1, <3>2
    <3>5. PackOK(r.pack)'
      <4>1. \A c \in Claims : ClaimKept(c, "content")
        BY <1>1, <2>4 DEF ClaimKept, RowsKept
      <4>2. ClaimsIn(pack[r.pack]) \subseteq Claims
        BY DEF ClaimsIn
      <4>3. QED
        BY <2>3, <3>1, <3>3, <3>4, <4>1, <4>2, PackKept DEF PublicationInv
    <3>6. QED
      BY <1>2, <2>3, <2>4, <3>1, <3>3, <3>4, <3>5 DEF InStore
  <2>7. QED
    BY <2>1, <2>5, <2>6
<1>5. QED
  BY <1>3, <1>4

LEMMA BookRows ==
  ASSUME PublicationInv,
         \/ \E b \in Books : \/ create_book(b) \/ archive_book(b) \/ restore_book(b) \/ delete_book(b)
                             \/ confirm_projected_proposal(b) \/ confirm_projected_spine(b)
         \/ \E t \in ResearchThreads : compile_commit(t) \/ project_commit(t)
  PROVE  PublicationInv'
<1>1. /\ pack \in [Packs -> Pack] /\ book \in [Books -> Book] /\ missed \subseteq Claims \X {"content", "book"}
      /\ req \in [ResearchThreads -> Requests] /\ claim \in [Claims -> Claim]
      /\ RowsKept /\ UNCHANGED <<pack, missed>>
  BY DEF PublicationInv, PublicationTypeOK, ResearchTypeOK, Requests, create_book, archive_book, restore_book,
         delete_book, confirm_projected_proposal, confirm_projected_spine, compile_commit, project_commit, WithBook
<1>2. ASSUME NEW b \in Books, NEW row \in Book, book' = [book EXCEPT ![b] = row],
             req' \in [ResearchThreads -> Requests],
             \A u \in ResearchThreads : req'[u] = req[u] \/ req'[u].op \in {"idle", "emit"},
             \A c \in Claims, h \in {"content", "book"} : Untold(c, h) => Untold(c, h)',
             \/ row.chapter = "current" =>
                  /\ book[b].chapter = "current" /\ row.late = book[b].late
                  /\ row.shown = book[b].shown /\ row.saw = book[b].saw
             \/ row.late
             \/ \A c \in Claims : row.shown[c] > 0 => /\ row.shown[c] = claim[c].version
                                                      /\ c \in row.saw => claim[c].verified
      PROVE  PublicationInv'
  <2>1. book' \in [Books -> Book] /\ book'[b] = row /\ \A x \in Books \ {b} : book'[x] = book[x]
    BY <1>1, <1>2
  <2>2. \A c \in Claims, h \in {"content", "book"} : ClaimKept(c, h)
    BY <1>1, <1>2 DEF ClaimKept, RowsKept
  <2>3. ASSUME NEW p \in Packs PROVE PackOK(p)'
    <3>1. ClaimsIn(pack[p]) \subseteq Claims
      BY DEF ClaimsIn
    <3>2. QED
      BY <1>1, <2>2, <3>1, PackKept DEF PublicationInv, InStore
  <2>4. ASSUME NEW x \in Books PROVE BookOK(x)'
    <3>1. ClaimsIn(book[x]) \subseteq Claims
      BY DEF ClaimsIn
    <3>2. CASE \A c \in Claims : row.shown[c] > 0 => /\ row.shown[c] = claim[c].version
                                                     /\ c \in row.saw => claim[c].verified
      <4>1. CASE x = b
        BY <1>1, <2>1, <3>2, <4>1 DEF BookOK, ClaimsIn, RowsKept
      <4>2. CASE x # b
        BY <1>1, <2>1, <2>2, <3>1, <4>2, BookKept DEF PublicationInv
      <4>3. QED
        BY <4>1, <4>2
    <3>3. CASE row.late
      <4>1. CASE x = b
        BY <2>1, <3>3, <4>1 DEF BookOK
      <4>2. CASE x # b
        BY <1>1, <2>1, <2>2, <3>1, <4>2, BookKept DEF PublicationInv
      <4>3. QED
        BY <4>1, <4>2
    <3>4. CASE row.chapter = "current" =>
                 /\ book[b].chapter = "current" /\ row.late = book[b].late
                 /\ row.shown = book[b].shown /\ row.saw = book[b].saw
      BY <1>1, <2>1, <2>2, <3>1, <3>4, BookKept DEF PublicationInv
    <3>5. QED
      BY <1>2, <3>2, <3>3, <3>4
  <2>5. RequestsOK'
    <3>1. \A q \in Packs : pack'[q] = pack[q] /\ (pack[q].at \in {"active", "archived"} => InStore(q))
      BY <1>1 DEF InStore
    <3>2. \A e \in Evidences : evidence'[e] = evidence[e]
      BY <1>1 DEF RowsKept
    <3>3. NoneVerified
      BY <1>1 DEF NoneVerified, RowsKept
    <3>4. QED
      BY <1>2, <3>1, <3>2, <3>3, RequestsKept
  <2>6. QED
    BY <1>1, <1>2, <2>1, <2>3, <2>4, <2>5, RowsAsTheyWere
<1>3. CASE \E b \in Books : \/ create_book(b) \/ archive_book(b) \/ restore_book(b) \/ delete_book(b)
                            \/ confirm_projected_proposal(b) \/ confirm_projected_spine(b)
  <2>1. PICK b \in Books : \/ create_book(b) \/ archive_book(b) \/ restore_book(b) \/ delete_book(b)
                           \/ confirm_projected_proposal(b) \/ confirm_projected_spine(b)
    BY <1>3
  <2>2. PICK old \in Book : old = book[b]
    BY <1>1
  <2>3. PICK row \in Book :
          /\ book' = [book EXCEPT ![b] = row]
          /\ row.chapter = "current" =>
               /\ old.chapter = "current" /\ row.late = old.late
               /\ row.shown = old.shown /\ row.saw = old.saw
    <3>1. CASE create_book(b) \/ delete_book(b)
      <4>1. Nothing \in Shown
        BY ResearchAssumption DEF Nothing, Shown
      <4>2. NoBook \in Book
        BY <4>1 DEF NoBook, Book
      <4>3. PICK status \in {"draft", "gone"} : book' = [book EXCEPT ![b] = [NoBook EXCEPT !.status = status]]
        BY <3>1 DEF create_book, delete_book, WithBook
      <4>4. PICK row : row = [NoBook EXCEPT !.status = status]
        OBVIOUS
      <4>5. row \in Book
        BY <4>2, <4>4 DEF Book
      <4>6. row.chapter = "none"
        BY <4>4 DEF NoBook
      <4>7. QED
        BY <4>3, <4>4, <4>5, <4>6
    <3>2. CASE archive_book(b) \/ restore_book(b)
      <4>1. PICK status \in {"archived", "draft", "compiled"} : book' = [book EXCEPT ![b] = [old EXCEPT !.status = status]]
        BY <2>2, <3>2 DEF archive_book, restore_book, WithBook
      <4>2. PICK row : row = [old EXCEPT !.status = status]
        OBVIOUS
      <4>3. row \in Book
        BY <4>2 DEF Book
      <4>4. row.chapter = old.chapter /\ row.late = old.late /\ row.shown = old.shown /\ row.saw = old.saw
        BY <4>2 DEF Book
      <4>5. QED
        BY <4>1, <4>2, <4>3, <4>4
    <3>3. CASE confirm_projected_proposal(b) \/ confirm_projected_spine(b)
      <4>1. PICK projection \in {"spine_pending_review", "accepted"}, spine \in BOOLEAN :
              book' = [book EXCEPT ![b] = [old EXCEPT !.projection = projection, !.spine = spine]]
        <5>1. old = [old EXCEPT !.spine = old.spine] /\ old.spine \in BOOLEAN
          BY DEF Book
        <5>2. CASE confirm_projected_proposal(b)
          BY <2>2, <5>2 DEF confirm_projected_proposal, WithBook
        <5>3. CASE confirm_projected_spine(b)
          <6>1. book' = [book EXCEPT ![b] = [old EXCEPT !.projection = "accepted"]]
            BY <2>2, <5>3 DEF confirm_projected_spine, WithBook
          <6>2. [old EXCEPT !.projection = "accepted"] = [old EXCEPT !.projection = "accepted", !.spine = old.spine]
            BY DEF Book
          <6>3. QED
            BY <5>1, <6>1, <6>2
        <5>4. QED
          BY <3>3, <5>2, <5>3
      <4>2. PICK row : row = [old EXCEPT !.projection = projection, !.spine = spine]
        OBVIOUS
      <4>3. row \in Book
        BY <4>2 DEF Book
      <4>4. row.chapter = old.chapter /\ row.late = old.late /\ row.shown = old.shown /\ row.saw = old.saw
        BY <4>2 DEF Book
      <4>5. QED
        BY <4>1, <4>2, <4>3, <4>4
    <3>4. QED
      BY <2>1, <3>1, <3>2, <3>3
  <2>4. UNCHANGED req
    BY <2>1 DEF create_book, archive_book, restore_book, delete_book, confirm_projected_proposal,
                confirm_projected_spine
  <2>5. \A c \in Claims, h \in {"content", "book"} : Untold(c, h) => Untold(c, h)'
    BY <1>1, <2>4 DEF Untold
  <2>6. QED
    BY <1>1, <1>2, <2>2, <2>3, <2>4, <2>5
<1>4. CASE \E t \in ResearchThreads : compile_commit(t) \/ project_commit(t)
  <2>1. PICK t \in ResearchThreads : compile_commit(t) \/ project_commit(t)
    BY <1>4
  <2>2. PICK r : r = req[t]
    OBVIOUS
  <2>3. r \in Requests /\ r.op \in {"compile", "project"} /\ r.book \in Books
    BY <1>1, <2>1, <2>2, RequestTypes DEF compile_commit, project_commit
  <2>4. PICK old \in Book : old = book[r.book]
    BY <1>1, <2>3
  <2>5. /\ req' \in [ResearchThreads -> Requests]
        /\ \A u \in ResearchThreads : req'[u] = req[u] \/ req'[u].op \in {"idle", "emit"}
        /\ \A c \in Claims, h \in {"content", "book"} : Untold(c, h) => Untold(c, h)'
    <3>1. PICK cs \in SUBSET Claims : cs = {}
      OBVIOUS
    <3>2. Done(t) /\ req[t].op # "emit" /\ UNCHANGED missed
      BY <1>1, <2>1, <2>2, <2>3 DEF compile_commit, project_commit
    <3>3. QED
      BY <3>1, <3>2, HandlerEnds
  <2>6. CASE compile_commit(t)
    <3>1. r.shown \in Shown /\ r.saw \in SUBSET Claims /\ r.srefs \in SUBSET Sources
      BY <2>2, <2>3, <2>6, RequestTypes DEF compile_commit
    <3>2. PICK late \in BOOLEAN : late = Outdated(r, r.saw)
      BY DEF Outdated
    <3>3. PICK row : row = [old EXCEPT !.status = "compiled", !.chapter = "current", !.shown = r.shown,
                                       !.saw = r.saw, !.srefs = r.srefs, !.late = late]
      OBVIOUS
    <3>4. row \in Book
      BY <3>1, <3>3 DEF Book
    <3>5. row.shown = r.shown /\ row.saw = r.saw /\ row.late = late
      BY <3>3 DEF Book
    <3>6. book' = [book EXCEPT ![r.book] = row]
      BY <2>2, <2>4, <2>6, <3>2, <3>3 DEF compile_commit, WithBook
    <3>7. \A c \in Claims : ~late /\ r.shown[c] > 0 => /\ r.shown[c] = claim[c].version
                                                       /\ c \in r.saw => claim[c].verified
      BY <3>2 DEF Outdated, ClaimsIn
    <3>8. row.late \/ \A c \in Claims : row.shown[c] > 0 => /\ row.shown[c] = claim[c].version
                                                            /\ c \in row.saw => claim[c].verified
      BY <3>2, <3>5, <3>7
    <3>9. QED
      BY <1>2, <2>3, <2>5, <3>4, <3>6, <3>8
  <2>7. CASE project_commit(t)
    <3>1. PICK row : row = [old EXCEPT !.projection = "proposal_pending_review"]
      OBVIOUS
    <3>2. row \in Book
      BY <3>1 DEF Book
    <3>3. row.chapter = old.chapter /\ row.late = old.late /\ row.shown = old.shown /\ row.saw = old.saw
      BY <3>1 DEF Book
    <3>4. book' = [book EXCEPT ![r.book] = row]
      BY <2>2, <2>4, <2>7, <3>1 DEF project_commit
    <3>5. QED
      BY <1>2, <2>3, <2>4, <2>5, <3>2, <3>3, <3>4
  <2>8. QED
    BY <2>1, <2>6, <2>7
<1>5. QED
  BY <1>3, <1>4

\* A notice on its way: it reaches its subscriber, or is counted as missed.
LEMMA Notices ==
  ASSUME PublicationInv,
         \/ \E t \in ResearchThreads : content_handler(t) \/ book_handler(t) \/ handler_skipped(t)
         \/ api_crashes
  PROVE  PublicationInv'
<1>1. /\ pack \in [Packs -> Pack] /\ book \in [Books -> Book] /\ missed \subseteq Claims \X {"content", "book"}
      /\ req \in [ResearchThreads -> Requests] /\ claim \in [Claims -> Claim] /\ RowsKept
  BY DEF PublicationInv, PublicationTypeOK, ResearchTypeOK, Requests, content_handler, book_handler, handler_skipped,
         api_crashes
<1>2. \A t \in ResearchThreads : req[t].op = "emit" => req[t].to \in {"content", "book"} /\ req[t].claims \subseteq Claims
  BY <1>1, RequestTypes
<1>3. /\ req' \in [ResearchThreads -> Requests]
      /\ \A u \in ResearchThreads : req'[u] = req[u] \/ req'[u].op \in {"idle", "emit"}
  <2>1. Idle \in Requests /\ Idle.op = "idle"
    BY DEF Idle, Requests, ResearchRequests
  <2>2. CASE api_crashes
    BY <2>1, <2>2 DEF api_crashes
  <2>3. CASE \E t \in ResearchThreads : content_handler(t) \/ book_handler(t) \/ handler_skipped(t)
    <3>1. PICK t \in ResearchThreads : content_handler(t) \/ book_handler(t) \/ handler_skipped(t)
      BY <2>3
    <3>2. /\ req[t].op = "emit"
          /\ Told(t, "book") \/ Told(t, "none")
      BY <3>1 DEF content_handler, book_handler, handler_skipped
    <3>3. PICK q : q = [req[t] EXCEPT !.to = "book"]
      OBVIOUS
    <3>4. req[t] \in [op : {"emit"}, to : {"content", "book"}, claims : SUBSET Claims]
      <4>1. req[t] \in Requests
        BY <1>1
      <4>2. QED
        BY <3>2, <4>1 DEF Requests, ResearchRequests, PublicationRequests, Idle
    <3>5. q \in [op : {"emit"}, to : {"content", "book"}, claims : SUBSET Claims]
      BY <3>3, <3>4
    <3>6. q \in Requests /\ q.op = "emit"
      <4>1. q \in Requests
        BY <3>5, Zenon DEF Requests, ResearchRequests
      <4>2. QED
        BY <3>5, <4>1
    <3>7. req' = [req EXCEPT ![t] = q] \/ req' = [req EXCEPT ![t] = Idle]
      BY <3>2, <3>3 DEF Told
    <3>8. QED
      BY <1>1, <2>1, <3>6, <3>7
  <2>4. QED
    BY <2>2, <2>3
<1>4. /\ pack' \in [Packs -> Pack]
      /\ \A p \in Packs : /\ pack'[p].at = pack[p].at /\ pack'[p].ready = pack[p].ready
                          /\ pack'[p].shown = pack[p].shown /\ pack'[p].late = pack[p].late
                          /\ pack'[p].approved => pack[p].approved
                          /\ pack[p].review => pack'[p].review
  <2>1. CASE UNCHANGED pack
    BY <1>1, <2>1
  <2>2. CASE \E t \in ResearchThreads : content_handler(t)
    <3>1. PICK t \in ResearchThreads : content_handler(t)
      BY <2>2
    <3>2. PICK hit \in [Packs -> BOOLEAN] : hit = [p \in Packs |-> ClaimsIn(pack[p]) \cap req[t].claims # {}]
      OBVIOUS
    <3>3. pack' = [p \in Packs |-> IF hit[p] THEN [pack[p] EXCEPT !.review = TRUE, !.approved = FALSE] ELSE pack[p]]
      BY <3>1, <3>2 DEF content_handler
    <3>4. QED
      BY <1>1, <3>3, ZenonT(60) DEF Pack
  <2>3. QED
    BY <2>1, <2>2 DEF book_handler, handler_skipped, api_crashes
<1>5. /\ book' \in [Books -> Book]
      /\ \A b \in Books : /\ book'[b].chapter = "current" => book[b].chapter = "current"
                          /\ book'[b].shown = book[b].shown /\ book'[b].saw = book[b].saw
                          /\ book'[b].late = book[b].late
  <2>1. CASE UNCHANGED book
    BY <1>1, <2>1
  <2>2. CASE \E t \in ResearchThreads : book_handler(t)
    <3>1. \A b \in Books : /\ Staled(b) \in Book /\ Staled(b).chapter # "current"
                           /\ Staled(b).shown = book[b].shown /\ Staled(b).saw = book[b].saw
                           /\ Staled(b).late = book[b].late
      BY <1>1 DEF Staled, Book
    <3>2. QED
      BY <1>1, <2>2, <3>1 DEF book_handler
  <2>3. QED
    BY <2>1, <2>2 DEF content_handler, handler_skipped, api_crashes
<1>6. missed' \subseteq Claims \X {"content", "book"} /\ missed \subseteq missed'
  <2>1. CASE UNCHANGED missed
    BY <1>1, <2>1
  <2>2. CASE api_crashes
    BY <1>1, <1>2, <2>2 DEF api_crashes
  <2>3. CASE \E t \in ResearchThreads : handler_skipped(t)
    BY <1>1, <1>2, <2>3 DEF handler_skipped
  <2>4. QED
    BY <2>1, <2>2, <2>3 DEF content_handler, book_handler
<1>7. ASSUME NEW p \in Packs PROVE pack'[p].review \/ \A c \in ClaimsIn(pack[p]) : ClaimKept(c, "content")
  <2> SUFFICES ASSUME ~pack'[p].review, NEW c \in ClaimsIn(pack[p]), Untold(c, "content")
               PROVE  Untold(c, "content")'
    BY <1>1 DEF ClaimKept, RowsKept
  <2>1. CASE <<c, "content">> \in missed
    BY <1>6, <2>1 DEF Untold
  <2>2. CASE \E t \in ResearchThreads : req[t].op = "emit" /\ c \in req[t].claims /\ req[t].to = "content"
    <3>1. PICK t \in ResearchThreads : req[t].op = "emit" /\ c \in req[t].claims /\ req[t].to = "content"
      BY <2>2
    <3>2. CASE api_crashes
      BY <3>1, <3>2 DEF api_crashes, Untold
    <3>3. CASE \E u \in ResearchThreads \ {t} : content_handler(u) \/ book_handler(u) \/ handler_skipped(u)
      <4>1. req'[t] = req[t]
        BY <1>1, <3>3 DEF content_handler, book_handler, handler_skipped, Told
      <4>2. QED
        BY <3>1, <4>1 DEF Untold
    <3>4. CASE content_handler(t)
      <4>1. c \in ClaimsIn(pack[p]) \cap req[t].claims
        BY <3>1
      <4>2. pack'[p] = [pack[p] EXCEPT !.review = TRUE, !.approved = FALSE]
        BY <3>4, <4>1 DEF content_handler
      <4>3. pack'[p].review
        BY <1>1, <4>2 DEF Pack
      <4>4. QED
        BY <4>3
    <3>5. CASE book_handler(t)
      BY <3>1, <3>5 DEF book_handler
    <3>6. CASE handler_skipped(t)
      BY <3>1, <3>6 DEF handler_skipped, Untold
    <3>7. QED
      BY <3>2, <3>3, <3>4, <3>5, <3>6
  <2>3. QED
    BY <2>1, <2>2 DEF Untold
<1>8. ASSUME NEW b \in Books PROVE book'[b].chapter # "current" \/ \A c \in ClaimsIn(book[b]) : ClaimKept(c, "book")
  <2> SUFFICES ASSUME book'[b].chapter = "current", NEW c \in ClaimsIn(book[b]), Untold(c, "book")
               PROVE  Untold(c, "book")'
    BY <1>1 DEF ClaimKept, RowsKept
  <2>1. CASE <<c, "book">> \in missed
    BY <1>6, <2>1 DEF Untold
  <2>2. CASE \E t \in ResearchThreads : req[t].op = "emit" /\ c \in req[t].claims
    <3>1. PICK t \in ResearchThreads : req[t].op = "emit" /\ c \in req[t].claims
      BY <2>2
    <3>2. CASE api_crashes
      BY <1>2, <3>1, <3>2 DEF api_crashes, Untold
    <3>3. CASE \E u \in ResearchThreads \ {t} : content_handler(u) \/ book_handler(u) \/ handler_skipped(u)
      <4>1. req'[t] = req[t]
        BY <1>1, <3>3 DEF content_handler, book_handler, handler_skipped, Told
      <4>2. req[t].to \in {"content", "book"}
        BY <1>2, <3>1
      <4>3. QED
        BY <3>1, <4>1, <4>2 DEF Untold
    <3>4. ASSUME Told(t, "book") PROVE Untold(c, "book")'
      <4>1. /\ req'[t].op = "emit" /\ req'[t].claims = req[t].claims /\ req'[t].to = "book"
        <5>1. req[t] \in [op : {"emit"}, to : {"content", "book"}, claims : SUBSET Claims]
          <6>1. req[t] \in Requests
            BY <1>1
          <6>2. QED
            BY <3>1, <6>1 DEF Requests, ResearchRequests, PublicationRequests, Idle
        <5>2. req'[t] = [req[t] EXCEPT !.to = "book"]
          BY <1>1, <3>4 DEF Told
        <5>3. QED
          BY <5>1, <5>2
      <4>2. QED
        BY <3>1, <4>1 DEF Untold
    <3>5. CASE content_handler(t)
      BY <3>4, <3>5 DEF content_handler
    <3>6. CASE book_handler(t)
      <4>1. c \in ClaimsIn(book[b]) \cap req[t].claims
        BY <3>1
      <4>2. book'[b] = Staled(b)
        BY <3>6, <4>1 DEF book_handler
      <4>3. book'[b].chapter # "current"
        BY <1>1, <4>2 DEF Staled, Book
      <4>4. QED
        BY <4>3
    <3>7. CASE handler_skipped(t)
      <4>1. CASE req[t].to = "content"
        BY <3>4, <3>7, <4>1 DEF handler_skipped
      <4>2. CASE req[t].to = "book"
        BY <3>1, <3>7, <4>2 DEF handler_skipped, Untold
      <4>3. QED
        BY <1>2, <3>1, <4>1, <4>2
    <3>8. QED
      BY <3>2, <3>3, <3>5, <3>6, <3>7
  <2>3. QED
    BY <2>1, <2>2 DEF Untold
<1>9. \A p \in Packs : PackOK(p)'
  <2>1. ASSUME NEW p \in Packs PROVE PackOK(p)'
    BY <1>4, <1>7, PackKept DEF PublicationInv, InStore
  <2>2. QED
    BY <2>1
<1>10. \A b \in Books : BookOK(b)'
  <2>1. ASSUME NEW b \in Books PROVE BookOK(b)'
    BY <1>5, <1>8, BookKept DEF PublicationInv
  <2>2. QED
    BY <2>1
<1>11. RequestsOK'
  <2>1. \A q \in Packs : /\ pack'[q].at = pack[q].at /\ pack'[q].ready = pack[q].ready
                         /\ pack[q].at \in {"active", "archived"} => InStore(q)
    BY <1>4 DEF InStore
  <2>2. \A e \in Evidences : evidence'[e] = evidence[e]
    BY <1>1 DEF RowsKept
  <2>3. NoneVerified
    BY <1>1 DEF NoneVerified, RowsKept
  <2>4. QED
    BY <1>3, <2>1, <2>2, <2>3, RequestsKept
<1>12. QED
  BY <1>1, <1>3, <1>4, <1>5, <1>6, <1>9, <1>10, <1>11, RowsAsTheyWere

\* A deletion that goes on to its next search.
LEMMA DeletionSearches ==
  ASSUME PublicationInv, NEW t \in ResearchThreads,
         \/ (find_evidence(t) \/ find_claims(t) \/ find_versions(t) \/ find_derivatives(t)) /\ UNCHANGED <<pack, book, missed>>
         \/ find_dependents(t)
  PROVE  PublicationInv'
<1>1. PICK r : r = req[t]
  OBVIOUS
<1>2. /\ r \in Deletions /\ DeletionOK(r) /\ claim \in [Claims -> Claim]
      /\ \A c \in Claims : RestingOK(c)
  BY <1>1, RequestTypes
     DEF PublicationInv, PublicationTypeOK, ResearchTypeOK, Requests, RequestsOK, RequestOK, find_evidence, find_claims,
         find_versions, find_derivatives, find_dependents, Deleting
<1>3. ASSUME NEW q \in Deletions, req' = [req EXCEPT ![t] = q], DeletionOK(q), RestUnchanged PROVE PublicationInv'
  <2>1. q \in Requests
    BY Zenon DEF Requests, ResearchRequests, Deletions
  <2>2. q.op = "delete" /\ r.op = "delete"
    BY <1>2 DEF Deletions
  <2>3. RequestOK(q) /\ \A u \in ResearchThreads : ~MakesSame(q, req[u])
    BY <1>3, <2>2 DEF RequestOK, MakesSame
  <2>4. QED
    BY <1>1, <1>3, <2>1, <2>2, <2>3, RequestOpens DEF RestUnchanged
<1>4. CASE find_evidence(t) /\ UNCHANGED <<pack, book, missed>>
  <2>1. PICK at \in {"locked", "claims"} : Searches(t, [r EXCEPT !.at = at, !.found = EvidenceOf(r.src)])
    BY <1>1, <1>4 DEF find_evidence
  <2>2. PICK q : q = [r EXCEPT !.at = at, !.found = EvidenceOf(r.src)]
    OBVIOUS
  <2>3. q \in Deletions /\ q.at = at /\ q.src = r.src /\ q.found = EvidenceOf(r.src)
    BY <1>2, <2>2 DEF Deletions, DeleteSteps, EvidenceOf, Recorded
  <2>4. ASSUME NEW c \in Claims, Stands(c, q), NEW e \in claim[c].support, SourceOf[e] = r.src PROVE e \in q.found
    <3>1. Basis(c) /\ e \in Evidences
      BY <1>2, <2>4 DEF Stands, PublicationInv, VerifiedHasBasis, Claim
    <3>2. QED
      BY <2>3, <2>4, <3>1 DEF Basis, EvidenceOf, Recorded
  <2>5. DeletionOK(q)
    BY <2>3, <2>4 DEF DeletionOK, EvidenceOf, Recorded
  <2>6. QED
    BY <1>3, <1>4, <2>1, <2>2, <2>3, <2>5 DEF Searches, RestUnchanged
<1>5. CASE find_claims(t) /\ UNCHANGED <<pack, book, missed>>
  <2>1. PICK q : q = [r EXCEPT !.at = "versions", !.seen = {c \in Claims : claim[c].verified}]
    OBVIOUS
  <2>2. /\ q \in Deletions /\ q.at = "versions" /\ q.src = r.src /\ q.found = r.found
        /\ q.seen = {c \in Claims : claim[c].verified} /\ q.since = r.since
    BY <1>2, <2>1 DEF Deletions, DeleteSteps
  <2>3. r.at = "claims" /\ req' = [req EXCEPT ![t] = q] /\ RestUnchanged
    BY <1>1, <1>5, <2>1 DEF find_claims, Deleting, Searches, RestUnchanged
  <2>4. DeletionOK(q)
    BY <1>2, <2>2, <2>3 DEF DeletionOK, Stands
  <2>5. QED
    BY <1>3, <2>2, <2>3, <2>4
<1>6. CASE find_versions(t) /\ UNCHANGED <<pack, book, missed>>
  <2>1. PICK q : q = [r EXCEPT !.at = "dependents", !.found = {}, !.seen = @ \cap citing(r.found), !.cites = citing(r.found)]
    OBVIOUS
  <2>2. /\ q \in Deletions /\ q.at = "dependents" /\ q.src = r.src /\ q.found = {}
        /\ q.seen = r.seen \cap citing(r.found) /\ q.cites = citing(r.found) /\ q.since = r.since
    BY <1>2, <2>1 DEF Deletions, DeleteSteps, citing
  <2>3. r.at = "versions" /\ req' = [req EXCEPT ![t] = q] /\ RestUnchanged
    BY <1>1, <1>6, <2>1 DEF find_versions, Deleting, Searches, RestUnchanged
  <2>4. ASSUME NEW c \in Claims, Stands(c, q), RestsOn(c, r.src) PROVE c \in q.seen
    <3>1. Stands(c, r) /\ RestingOK(c)
      BY <1>2, <2>2, <2>4 DEF Stands
    <3>2. c \in r.seen /\ \E e \in claim[c].support : e \in r.found
      BY <1>2, <2>3, <2>4, <3>1 DEF DeletionOK, RestsOn
    <3>3. QED
      BY <2>2, <3>1, <3>2 DEF RestingOK, citing
  <2>5. DeletionOK(q)
    BY <2>2, <2>4 DEF DeletionOK
  <2>6. QED
    BY <1>3, <2>2, <2>3, <2>5
<1>7. CASE find_dependents(t)
  <2>1. PICK q : q = [r EXCEPT !.at = "derivatives"]
    OBVIOUS
  <2>2. /\ q \in Deletions /\ q.at = "derivatives" /\ q.src = r.src /\ q.found = r.found /\ q.since = r.since
    BY <1>2, <2>1 DEF Deletions, DeleteSteps
  <2>3. r.at = "dependents" /\ r.seen = {} /\ req' = [req EXCEPT ![t] = q] /\ RestUnchanged
    BY <1>1, <1>7, <2>1 DEF find_dependents, Deleting, Searches, RestUnchanged
  <2>4. DeletionOK(q)
    BY <1>2, <2>2, <2>3 DEF DeletionOK, Stands
  <2>5. QED
    BY <1>3, <2>2, <2>3, <2>4
<1>8. CASE find_derivatives(t) /\ UNCHANGED <<pack, book, missed>>
  <2>1. PICK q : q = [r EXCEPT !.at = "rows", !.found = EvidenceOf(r.src)]
    OBVIOUS
  <2>2. /\ q \in Deletions /\ q.at = "rows" /\ q.src = r.src /\ q.found = EvidenceOf(r.src) /\ q.since = r.since
    BY <1>2, <2>1 DEF Deletions, DeleteSteps, EvidenceOf, Recorded
  <2>3. r.at = "derivatives" /\ req' = [req EXCEPT ![t] = q] /\ RestUnchanged
    BY <1>1, <1>8, <2>1 DEF find_derivatives, Deleting, Searches, RestUnchanged
  <2>4. DeletionOK(q)
    BY <1>2, <2>2, <2>3 DEF DeletionOK, Stands, EvidenceOf, Recorded
  <2>5. QED
    BY <1>3, <2>2, <2>3, <2>4
<1>9. QED
  BY <1>4, <1>5, <1>6, <1>7, <1>8

LEMMA PublicationInvariant == PublicationSpec => []PublicationInv
<1>1. PublicationInit => PublicationInv
  <2> SUFFICES ASSUME PublicationInit PROVE PublicationInv
    OBVIOUS
  <2>1. Nothing \in Shown /\ 0 \in 0 .. MaxVersions
    BY ResearchAssumption DEF Nothing, Shown
  <2>2. NoPack \in Pack /\ NoBook \in Book /\ NoClaim \in Claim
    BY <2>1 DEF NoPack, Pack, NoBook, Book, NoClaim, Claim
  <2>3. Idle \in Requests /\ Idle.op = "idle"
    BY DEF Idle, Requests, ResearchRequests
  <2>4. PublicationTypeOK
    BY <2>2, <2>3 DEF PublicationInit, ResearchInit, PublicationTypeOK, ResearchTypeOK, Requests, SourceStates,
                      EvidenceStates
  <2>5. RequestsOK
    BY <2>3 DEF PublicationInit, ResearchInit, RequestsOK, RequestOK, MakesSame
  <2>6. VerifiedHasBasis /\ \A c \in Claims : RestingOK(c)
    BY DEF PublicationInit, ResearchInit, VerifiedHasBasis, RestingOK, NoClaim
  <2>7. (\A p \in Packs : PackOK(p)) /\ (\A b \in Books : BookOK(b))
    BY DEF PublicationInit, PackOK, BookOK, InStore, NoPack, NoBook
  <2>8. QED
    BY <2>4, <2>5, <2>6, <2>7 DEF PublicationInv
<1>2. PublicationInv /\ [PublicationNext]_pubvars => PublicationInv'
  <2> SUFFICES ASSUME PublicationInv, [PublicationNext]_pubvars PROVE PublicationInv'
    OBVIOUS
  <2>1. CASE UNCHANGED pubvars
    <3>1. UNCHANGED <<source_row, evidence, claim, req, overtaken, pack, book, missed>>
      BY <2>1 DEF pubvars, researchvars
    <3>2. \A c \in Claims, h \in {"content", "book"} : ClaimKept(c, h)
      BY <3>1 DEF ClaimKept, Untold
    <3>3. RequestsOK'
      BY <3>1 DEF PublicationInv, RequestsOK, RequestOK, DeletionOK, Stands, RestsOn, MakesSame, InStore
    <3>4. QED
      BY <3>1, <3>2, <3>3, DerivedKept
         DEF PublicationInv, PublicationTypeOK, ResearchTypeOK, VerifiedHasBasis, Basis, RestingOK
  <2>2. CASE ResearchNext /\ UNCHANGED <<pack, book, missed>>
    BY <2>2, RowsEntered, ResearchReads, EvidenceEntered, ClaimsDecided, RequestRefused, DeletionSearches DEF ResearchNext
  <2>3. CASE \E p \in Packs : archive_pack(p) \/ delete_pack(p)
    BY <2>3, PackRows
  <2>4. CASE \E b \in Books : \/ create_book(b) \/ archive_book(b) \/ restore_book(b) \/ delete_book(b)
                              \/ confirm_projected_proposal(b) \/ confirm_projected_spine(b)
    BY <2>4, BookRows
  <2>5. CASE \E t \in ResearchThreads :
               \/ \E p \in Packs : build_read(t, p) \/ approve_read(t, p)
               \/ \E b \in Books : compile_read(t, b) \/ project_read(t, b)
               \/ publication_refused(t)
    BY <2>5, PublicationReads, RequestRefused
  <2>6. CASE \E t \in ResearchThreads :
               build_commit(t) \/ approve_commit(t) \/ compile_commit(t) \/ project_commit(t)
    BY <2>6, PackRows, BookRows
  <2>7. CASE \/ \E t \in ResearchThreads : content_handler(t) \/ book_handler(t) \/ handler_skipped(t)
             \/ api_crashes
    BY <2>7, Notices
  <2>8. CASE \E t \in ResearchThreads : invalidate_source(t) \/ delete_source(t)
    BY <2>8, SourceChanges, DeletionSearches DEF delete_source
  <2>9. QED
    BY <2>1, <2>2, <2>3, <2>4, <2>5, <2>6, <2>7, <2>8 DEF PublicationNext
<1>3. QED
  BY <1>1, <1>2, PTL DEF PublicationSpec

\* A claim that counts as human-verified rests on evidence that is verified and whose source still is,
\* in its current version, however many requests revise, verify, invalidate and delete at once, except a
\* claim that was committed over such a change, or was verified between the first search of a deletion
\* and its commit (routes/research.py; source_dependencies.py).
THEOREM VerifiedClaims == PublicationSpec => []VerifiedHasBasis
<1>1. PublicationInv => VerifiedHasBasis
  BY DEF PublicationInv
<1>2. QED
  BY <1>1, PublicationInvariant, PTL

\* What can be exported, and what a book shows as current, is what its claims say now, or the notice
\* of the change is still due, was lost, or the change was stored over (content.py; living_book.py;
\* events.py).
THEOREM DerivedClaims == PublicationSpec => []DerivedIsCurrent
<1>1. PublicationInv => DerivedIsCurrent
  BY DEF PublicationInv, PackOK, BookOK, DerivedIsCurrent, Exportable
<1>2. QED
  BY <1>1, PublicationInvariant, PTL

-----------------------------------------------------------------------------
(* The types of the whole workspace. *)

\* No part of the workspace ever leaves its types, in any of the states that its requests, runs and
\* races reach (routes/research.py, questions.py, learning_assets.py, cowriter.py, publications).
THEOREM WorkspaceTyped ==
  PublicationSpec /\ RunSpec /\ AreaSpec /\ LearnSpec /\ WriteSpec => []WorkspaceTypeOK
<1>1. PublicationInv /\ RunInv /\ AreaInv /\ LearnInv /\ WriteInv => WorkspaceTypeOK
  BY DEF PublicationInv, RunInv, AreaInv, LearnInv, WriteInv, WorkspaceTypeOK
<1>2. QED
  BY <1>1, PublicationInvariant, RunInvariant, AreaInvariant, LearnInvariant, WriteInvariant, PTL

-----------------------------------------------------------------------------
(* Requests that come one at a time: what the histories excuse is overlap. *)

\* What the request of a decision has read of the revision and of its document is still so.
DecisionStands(q) == q.op = "decide" => /\ revision[q.rev].status = "proposed"
                                        /\ document[revision[q.rev].doc].text = q.seen

WriteSerial == beaten = {} /\ \A t \in WriteThreads : DecisionStands(wreq[t])

LEMMA WriteSerialStep ==
  ASSUME \A t, u \in WriteThreads : t = u, WriteInv, WriteSerial, [WriteNext]_writevars
  PROVE  WriteSerial'
<1>1. /\ WriteTypeOK /\ DocumentsOK /\ RevisionsOK /\ beaten = {}
      /\ \A t \in WriteThreads : DecisionStands(wreq[t]) /\ WriteRequestOK(wreq[t])
  BY DEF WriteInv, WriteSerial
<1>2. ASSUME UNCHANGED <<wreq, revision, beaten>>,
             \A d \in Documents : document[d].text \in Texts => document'[d].text = document[d].text
      PROVE  WriteSerial'
  <2> SUFFICES ASSUME NEW t \in WriteThreads, wreq[t].op = "decide"
               PROVE  document'[revision[wreq[t].rev].doc].text = wreq[t].seen
    BY <1>1, <1>2 DEF WriteSerial, DecisionStands
  <2>1. wreq[t].rev \in Revisions /\ wreq[t].seen \in Texts /\ revision[wreq[t].rev].status = "proposed"
    BY <1>1, WriteRequestTypes DEF DecisionStands
  <2>2. revision[wreq[t].rev].doc \in Documents
    BY <1>1, <2>1 DEF RevisionsOK
  <2>3. QED
    BY <1>1, <1>2, <2>1, <2>2 DEF DecisionStands
<1>3. ASSUME NEW t \in WriteThreads, NEW q \in WriteRequests, wreq' = [wreq EXCEPT ![t] = q],
             q.op # "decide", beaten' = {}
      PROVE  WriteSerial'
  BY <1>1, <1>3 DEF WriteSerial, DecisionStands, WriteTypeOK
<1>4. Free \in WriteRequests /\ Free.op = "idle"
  BY DEF WriteRequests, Free
<1>5. CASE UNCHANGED writevars
  BY <1>2, <1>5 DEF writevars
<1>6. ASSUME NEW d \in Documents, create_document(d) PROVE WriteSerial'
  <2>1. document[d].text \notin Texts
    BY <1>1, <1>6, WriteAssumption DEF create_document, DocumentsOK, Open
  <2>2. \A x \in Documents \ {d} : document'[x] = document[x]
    BY <1>1, <1>6 DEF create_document, WriteTypeOK
  <2>3. QED
    BY <1>2, <1>6, <2>1, <2>2 DEF create_document
<1>7. ASSUME NEW d \in Documents, set_status(d) PROVE WriteSerial'
  <2>1. \A x \in Documents : document'[x].text = document[x].text
    BY <1>1, <1>7 DEF set_status, WriteTypeOK
  <2>2. QED
    BY <1>2, <1>7, <2>1 DEF set_status
<1>8. ASSUME NEW t \in WriteThreads, NEW d \in Documents,
             edit_read(t, d) \/ delete_read(t, d) \/ \E r \in Revisions : propose_read(t, d, r)
      PROVE  WriteSerial'
  <2>1. PICK q : q.op \in {"edit", "delete", "propose"} /\ wreq' = [wreq EXCEPT ![t] = q] /\ beaten' = beaten
    BY <1>8 DEF edit_read, delete_read, propose_read, Asks
  <2>2. \A u \in WriteThreads : wreq'[u] = q
    BY <1>1, <2>1 DEF WriteTypeOK
  <2>3. QED
    BY <1>1, <2>1, <2>2 DEF WriteSerial, DecisionStands
<1>9. ASSUME NEW t \in WriteThreads, NEW r \in Revisions, decide_read(t, r) PROVE WriteSerial'
  <2>1. PICK q : /\ q.op = "decide" /\ q.rev = r /\ q.seen = document[revision[r].doc].text
                 /\ wreq' = [wreq EXCEPT ![t] = q]
    BY <1>9 DEF decide_read, Asks
  <2>2. \A u \in WriteThreads : wreq'[u] = q
    BY <1>1, <2>1 DEF WriteTypeOK
  <2>3. revision[r].status = "proposed" /\ UNCHANGED <<document, revision, beaten>>
    BY <1>9 DEF decide_read
  <2>4. QED
    BY <1>1, <2>1, <2>2, <2>3 DEF WriteSerial, DecisionStands
<1>10. ASSUME NEW t \in WriteThreads,
              update_document(t) \/ propose_revision(t) \/ delete_document(t) \/ write_refused(t)
       PROVE  WriteSerial'
  BY <1>1, <1>3, <1>4, <1>10 DEF update_document, propose_revision, delete_document, write_refused, Ready
<1>11. ASSUME NEW t \in WriteThreads, decide_revision(t) PROVE WriteSerial'
  <2>1. ~Overtakes(wreq[t].rev, wreq[t].seen)
    BY <1>1, <1>11 DEF decide_revision, DecisionStands, Overtakes
  <2>2. beaten' = {} /\ Ready(t)
    BY <1>1, <1>11, <2>1 DEF decide_revision
  <2>3. QED
    BY <1>3, <1>4, <2>2 DEF Ready
<1>12. QED
  BY <1>5, <1>6, <1>7, <1>8, <1>9, <1>10, <1>11 DEF WriteNext

\* With one request at a time no decision is ever committed over an edit or another decision, and so what
\* AcceptedOnItsBase says holds of every revision: it excuses nothing but overlap (routes/cowriter.py).
THEOREM SerialWriting ==
  ASSUME \A t, u \in WriteThreads : t = u
  PROVE  WriteSpec => [](beaten = {} /\ AcceptedOnItsBase)
<1>1. WriteInit => WriteSerial
  BY DEF WriteInit, WriteSerial, DecisionStands, Free
<1>2. WriteInv /\ WriteSerial /\ [WriteNext]_writevars => WriteSerial'
  BY WriteSerialStep
<1>3. WriteInv /\ WriteSerial => beaten = {} /\ AcceptedOnItsBase
  BY DEF WriteInv, WriteSerial
<1>4. QED
  BY <1>1, <1>2, <1>3, WriteInvariant, PTL DEF WriteSpec

-----------------------------------------------------------------------------
(* The same of claims, packs and books. *)

\* What a request has read is still so: what it will commit, it commits over no change.
ReadStands(r) ==
  /\ r.op = "verify" => claim[r.claim].version > 0 /\ Basis(r.claim)
  /\ r.op = "delete" => r.since = {}
  /\ r.op = "revise" => claim[r.claim].version > 0 /\ r.seen = claim[r.claim].verified
  /\ r.op = "build" => ~Outdated(r, IF r.ready THEN ClaimsIn(r) ELSE {})
  /\ r.op = "compile" => ~Outdated(r, r.saw)

NothingLate == overtaken = {} /\ (\A p \in Packs : ~pack[p].late) /\ (\A b \in Books : ~book[b].late)

PublicationSerial == NothingLate /\ \A t \in ResearchThreads : ReadStands(req[t])

\* Rows that are entered, and sources that are verified, take nothing from what a request has read.
LEMMA ReadKept ==
  ASSUME PublicationInv, NEW t \in ResearchThreads, ReadStands(req[t]), UNCHANGED <<req, evidence>>,
         \A s \in Sources : source_row[s] = "verified" => source_row'[s] = "verified",
         \A c \in Claims : claim[c].version > 0 => claim'[c] = claim[c]
  PROVE  ReadStands(req[t])'
<1> DEFINE r == req[t]
<1>1. r \in Requests /\ claim \in [Claims -> Claim] /\ SourceOf \in [Evidences -> Sources]
  BY ResearchAssumption DEF PublicationInv, PublicationTypeOK, ResearchTypeOK, Requests
<1>2. ASSUME r.op \in {"verify", "revise"} PROVE r.claim \in Claims
  BY <1>1, <1>2, RequestTypes
<1>3. ASSUME r.op = "verify" PROVE claim'[r.claim].version > 0 /\ Basis(r.claim)'
  <2>1. r.claim \in Claims /\ claim[r.claim].version > 0 /\ Basis(r.claim)
    BY <1>2, <1>3 DEF ReadStands
  <2>2. claim'[r.claim] = claim[r.claim] /\ claim[r.claim].support \subseteq Evidences
    BY <1>1, <2>1 DEF Claim
  <2>3. QED
    BY <1>1, <2>1, <2>2 DEF Basis
<1>4. ASSUME r.op = "revise" PROVE claim'[r.claim].version > 0 /\ r.seen = claim'[r.claim].verified
  BY <1>2, <1>4 DEF ReadStands
<1>5. ASSUME NEW saw, r.op \in {"build", "compile"}, ~Outdated(r, saw) PROVE ~Outdated(r, saw)'
  <2> SUFFICES ASSUME NEW c \in ClaimsIn(r)
               PROVE  r.shown[c] = claim'[c].version /\ (c \in saw => claim'[c].verified)
    BY DEF Outdated, ClaimsIn
  <2>1. c \in Claims /\ r.shown[c] > 0 /\ r.shown[c] = claim[c].version /\ (c \in saw => claim[c].verified)
    BY <1>5 DEF Outdated, ClaimsIn
  <2>2. QED
    BY <2>1
<1>6. ClaimsIn(r)' = ClaimsIn(r)
  BY DEF ClaimsIn
<1>7. req'[t] = req[t]
  OBVIOUS
<1>8. r.op = "build" => ~Outdated(r, IF r.ready THEN ClaimsIn(r) ELSE {})'
  <2>1. PICK saw : saw = IF r.ready THEN ClaimsIn(r) ELSE {}
    OBVIOUS
  <2>2. QED
    BY <1>5, <1>6, <2>1 DEF ReadStands
<1>9. r.op = "compile" => ~Outdated(r, r.saw)'
  BY <1>5 DEF ReadStands
<1>10. r.op = "delete" => r.since = {}
  BY DEF ReadStands
<1>11. QED
  BY <1>3, <1>4, <1>7, <1>8, <1>9, <1>10 DEF ReadStands

\* A request that ends or goes on to its notices knows nothing that could be overtaken.
LEMMA RequestOver ==
  ASSUME \A t, u \in ResearchThreads : t = u, NothingLate', NEW t \in ResearchThreads,
         req'[t].op \in {"idle", "emit"}
  PROVE  PublicationSerial'
  BY DEF PublicationSerial, ReadStands

LEMMA SerialRows ==
  ASSUME PublicationInv, PublicationSerial,
         \/ \E s \in Sources : create_source(s) \/ verify_source(s)
         \/ \E c \in Claims : create_claim(c)
         \/ \E p \in Packs : archive_pack(p) \/ delete_pack(p)
         \/ \E b \in Books : \/ create_book(b) \/ archive_book(b) \/ restore_book(b) \/ delete_book(b)
                             \/ confirm_projected_proposal(b) \/ confirm_projected_spine(b),
         (\E p \in Packs : archive_pack(p) \/ delete_pack(p)) \/ UNCHANGED pack,
         (\E b \in Books : \/ create_book(b) \/ archive_book(b) \/ restore_book(b) \/ delete_book(b)
                           \/ confirm_projected_proposal(b) \/ confirm_projected_spine(b)) \/ UNCHANGED book
  PROVE  PublicationSerial'
<1>1. /\ claim \in [Claims -> Claim] /\ source_row \in [Sources -> SourceStates]
      /\ pack \in [Packs -> Pack] /\ book \in [Books -> Book]
  BY DEF PublicationInv, PublicationTypeOK, ResearchTypeOK
<1>2. ~NoPack.late /\ ~NoBook.late
  BY DEF NoPack, NoBook
<1>3. UNCHANGED <<req, evidence, overtaken>>
  BY DEF create_source, verify_source, create_claim, archive_pack, delete_pack, create_book, archive_book,
         restore_book, delete_book, confirm_projected_proposal, confirm_projected_spine, RowsKept
<1>4. \A s \in Sources : source_row[s] = "verified" => source_row'[s] = "verified"
  BY <1>1 DEF create_source, verify_source, create_claim, archive_pack, delete_pack, create_book, archive_book,
              restore_book, delete_book, confirm_projected_proposal, confirm_projected_spine, RowsKept
<1>5. \A c \in Claims : claim[c].version > 0 => claim'[c] = claim[c]
  <2>1. ASSUME NEW x \in Claims, create_claim(x) PROVE \A c \in Claims : claim[c].version > 0 => claim'[c] = claim[c]
    BY <1>1, <2>1 DEF create_claim
  <2>2. CASE UNCHANGED claim
    BY <2>2
  <2>3. QED
    BY <2>1, <2>2 DEF create_source, verify_source, archive_pack, delete_pack, create_book, archive_book,
                      restore_book, delete_book, confirm_projected_proposal, confirm_projected_spine, RowsKept
<1>6. ASSUME NEW p \in Packs PROVE ~pack'[p].late
  <2>1. ~pack[p].late
    BY DEF PublicationSerial, NothingLate
  <2>2. CASE UNCHANGED pack
    BY <2>1, <2>2
  <2>3. ASSUME NEW q \in Packs, archive_pack(q) \/ delete_pack(q) PROVE ~pack'[p].late
    BY <1>1, <2>1, <2>3 DEF archive_pack, delete_pack, NoPack, Pack
  <2>4. QED
    BY <2>2, <2>3
<1>7. ASSUME NEW b \in Books PROVE ~book'[b].late
  <2>1. ~book[b].late
    BY DEF PublicationSerial, NothingLate
  <2>2. CASE UNCHANGED book
    BY <2>1, <2>2
  <2>3. ASSUME NEW a \in Books, create_book(a) \/ delete_book(a)
        PROVE  ~book'[b].late
    BY <1>1, <2>1, <2>3 DEF create_book, delete_book, WithBook, NoBook
  <2>4. ASSUME NEW a \in Books, \/ archive_book(a) \/ restore_book(a)
                                \/ confirm_projected_proposal(a) \/ confirm_projected_spine(a)
        PROVE  ~book'[b].late
    <3>1. PICK x : x.late = book[a].late /\ book' = [book EXCEPT ![a] = x]
      <4>1. CASE archive_book(a)
        BY <1>1, <4>1 DEF archive_book, WithBook, Book
      <4>2. CASE restore_book(a)
        BY <1>1, <4>2 DEF restore_book, WithBook, Book
      <4>3. CASE confirm_projected_proposal(a)
        BY <1>1, <4>3 DEF confirm_projected_proposal, WithBook, Book
      <4>4. CASE confirm_projected_spine(a)
        <5>1. book[a] \in Book
          BY <1>1
        <5>2. [book[a] EXCEPT !.projection = "accepted"].late = book[a].late
          BY <5>1 DEF Book
        <5>3. book' = [book EXCEPT ![a] = [book[a] EXCEPT !.projection = "accepted"]]
          BY <4>4 DEF confirm_projected_spine, WithBook
        <5>4. QED
          BY <5>2, <5>3
      <4>5. QED
        BY <2>4, <4>1, <4>2, <4>3, <4>4
    <3>2. QED
      BY <1>1, <2>1, <3>1
  <2>5. QED
    BY <2>2, <2>3, <2>4
<1>8. QED
  BY <1>3, <1>4, <1>5, <1>6, <1>7, ReadKept DEF PublicationSerial, NothingLate

LEMMA SerialReads ==
  ASSUME \A t, u \in ResearchThreads : t = u, PublicationInv, PublicationSerial, NEW t \in ResearchThreads,
         \/ /\ UNCHANGED <<pack, book, missed>>
            /\ \/ \E e \in Evidences : evidence_read(t, e)
               \/ \E c \in Claims : verify_read(t, c) \/ revise_read(t, c)
               \/ \E s \in Sources : source_read(t, s)
               \/ find_evidence(t) \/ find_claims(t) \/ find_versions(t) \/ find_derivatives(t)
         \/ find_dependents(t)
         \/ \E p \in Packs : build_read(t, p) \/ approve_read(t, p)
         \/ \E b \in Books : compile_read(t, b) \/ project_read(t, b)
  PROVE  PublicationSerial'
<1>1. claim \in [Claims -> Claim] /\ DOMAIN req = ResearchThreads
  BY DEF PublicationInv, PublicationTypeOK, ResearchTypeOK
<1>2. UNCHANGED <<source_row, evidence, claim, overtaken, pack, book>>
  BY DEF evidence_read, verify_read, revise_read, source_read, build_read, approve_read, compile_read, project_read,
         RowsKept, find_evidence, find_claims, find_versions, find_derivatives, find_dependents, Searches
<1>3. ASSUME NEW r, Reads(t, r) \/ Searches(t, r), ReadStands(r) PROVE PublicationSerial'
  <2>1. \A u \in ResearchThreads : req'[u] = r
    BY <1>1, <1>3 DEF Reads, Searches
  <2>2. \A u \in ResearchThreads : ReadStands(req[u])'
    BY <1>2, <1>3, <2>1 DEF ReadStands, Basis, Outdated, ClaimsIn
  <2>3. NothingLate'
    BY <1>2 DEF PublicationSerial, NothingLate
  <2>4. QED
    BY <2>2, <2>3 DEF PublicationSerial
<1>4. ASSUME NEW r, Reads(t, r), r.op \notin {"verify", "revise", "build", "compile", "delete"} PROVE PublicationSerial'
  BY <1>3, <1>4 DEF ReadStands
<1>5. ASSUME NEW e \in Evidences, evidence_read(t, e) PROVE PublicationSerial'
  BY <1>4, <1>5 DEF evidence_read
<1>6. ASSUME NEW s \in Sources, source_read(t, s) PROVE PublicationSerial'
  <2>1. PICK q : q = [op |-> "delete", at |-> "evidence", src |-> s, found |-> {}, seen |-> {}, cites |-> {}, since |-> {}]
    OBVIOUS
  <2>2. ReadStands(q)
    BY <2>1 DEF ReadStands
  <2>3. CASE Reads(t, q)
    BY <1>3, <2>2, <2>3
  <2>4. CASE Reads(t, [op |-> "invalidate", src |-> s, seen |-> source_row[s] = "verified"])
    BY <1>4, <2>4
  <2>5. QED
    BY <1>6, <2>1, <2>3, <2>4 DEF source_read
<1>13. ASSUME \/ find_evidence(t) \/ find_claims(t) \/ find_versions(t) \/ find_derivatives(t)
              \/ find_dependents(t)
       PROVE  PublicationSerial'
  <2>1. PICK r : r = req[t]
    OBVIOUS
  <2>2. r \in Deletions /\ r.since = {}
    BY <1>13, <2>1, RequestTypes
       DEF PublicationInv, PublicationTypeOK, Requests, PublicationSerial, ReadStands, find_evidence, find_claims,
           find_versions, find_derivatives, find_dependents, Deleting
  <2>3. PICK q : Searches(t, q) /\ q.op = "delete" /\ q.since = r.since
    <3>1. CASE find_evidence(t)
      <4>1. PICK at : Searches(t, [r EXCEPT !.at = at, !.found = EvidenceOf(r.src)])
        BY <2>1, <3>1 DEF find_evidence
      <4>2. PICK q : q = [r EXCEPT !.at = at, !.found = EvidenceOf(r.src)]
        OBVIOUS
      <4>3. q.op = "delete" /\ q.since = r.since
        BY <2>2, <4>2 DEF Deletions
      <4>4. QED
        BY <4>1, <4>2, <4>3
    <3>2. CASE find_claims(t)
      <4>1. PICK q : q = [r EXCEPT !.at = "versions", !.seen = {c \in Claims : claim[c].verified}]
        OBVIOUS
      <4>2. q.op = "delete" /\ q.since = r.since
        BY <2>2, <4>1 DEF Deletions
      <4>3. QED
        BY <2>1, <3>2, <4>1, <4>2 DEF find_claims
    <3>3. CASE find_versions(t)
      <4>1. PICK q : q = [r EXCEPT !.at = "dependents", !.found = {}, !.seen = @ \cap citing(r.found), !.cites = citing(r.found)]
        OBVIOUS
      <4>2. q.op = "delete" /\ q.since = r.since
        BY <2>2, <4>1 DEF Deletions
      <4>3. QED
        BY <2>1, <3>3, <4>1, <4>2 DEF find_versions
    <3>4. CASE find_derivatives(t)
      <4>1. PICK q : q = [r EXCEPT !.at = "rows", !.found = EvidenceOf(r.src)]
        OBVIOUS
      <4>2. q.op = "delete" /\ q.since = r.since
        BY <2>2, <4>1 DEF Deletions
      <4>3. QED
        BY <2>1, <3>4, <4>1, <4>2 DEF find_derivatives
    <3>5. CASE find_dependents(t)
      <4>1. PICK q : q = [r EXCEPT !.at = "derivatives"]
        OBVIOUS
      <4>2. q.op = "delete" /\ q.since = r.since
        BY <2>2, <4>1 DEF Deletions
      <4>3. QED
        BY <2>1, <3>5, <4>1, <4>2 DEF find_dependents
    <3>6. QED
      BY <1>13, <3>1, <3>2, <3>3, <3>4, <3>5
  <2>4. ReadStands(q)
    BY <2>2, <2>3 DEF ReadStands
  <2>5. QED
    BY <1>3, <2>3, <2>4
<1>7. ASSUME \/ \E p \in Packs : approve_read(t, p)
             \/ \E b \in Books : project_read(t, b)
      PROVE  PublicationSerial'
  BY <1>4, <1>7 DEF approve_read, project_read
<1>8. ASSUME NEW c \in Claims, verify_read(t, c) PROVE PublicationSerial'
  <2>1. PICK r : r = [op |-> "verify", claim |-> c, seen |-> claim[c].verified]
    OBVIOUS
  <2>2. ReadStands(r)
    BY <1>8, <2>1 DEF verify_read, ReadStands
  <2>3. QED
    BY <1>3, <1>8, <2>1, <2>2 DEF verify_read
<1>9. ASSUME NEW c \in Claims, revise_read(t, c) PROVE PublicationSerial'
  <2>1. PICK cited \in SUBSET Recorded : \E support \in SUBSET cited :
          Reads(t, [op |-> "revise", claim |-> c, support |-> support, cited |-> cited, seen |-> claim[c].verified])
    BY <1>9 DEF revise_read
  <2>2. PICK support \in SUBSET cited :
          Reads(t, [op |-> "revise", claim |-> c, support |-> support, cited |-> cited, seen |-> claim[c].verified])
    BY <2>1
  <2>3. PICK r : r = [op |-> "revise", claim |-> c, support |-> support, cited |-> cited, seen |-> claim[c].verified]
    OBVIOUS
  <2>4. claim[c].version > 0
    BY <1>9, ResearchAssumption DEF revise_read
  <2>5. ReadStands(r)
    BY <2>3, <2>4 DEF ReadStands
  <2>6. QED
    BY <1>3, <2>2, <2>3, <2>5
<1>10. ASSUME NEW p \in Packs, build_read(t, p) PROVE PublicationSerial'
  <2>1. PICK cs \in SUBSET {c \in Claims : claim[c].version > 0} :
          \E srefs \in SUBSET {s \in Sources : Stored(s)} : \E ready \in BOOLEAN :
            /\ cs \cup srefs # {} /\ (ready => \A c \in cs : ready_for_expression(c))
            /\ Reads(t, [op |-> "build", pack |-> p, shown |-> Versions(cs), srefs |-> srefs, ready |-> ready])
    BY <1>10, Zenon DEF build_read
  <2>2. PICK srefs \in SUBSET {s \in Sources : Stored(s)}, ready \in BOOLEAN :
            /\ ready => \A c \in cs : ready_for_expression(c)
            /\ Reads(t, [op |-> "build", pack |-> p, shown |-> Versions(cs), srefs |-> srefs, ready |-> ready])
    BY <2>1, Zenon
  <2>3. PICK r : r = [op |-> "build", pack |-> p, shown |-> Versions(cs), srefs |-> srefs, ready |-> ready]
    OBVIOUS
  <2>4. r.op = "build" /\ r.shown = Versions(cs) /\ r.ready = ready
    BY <2>3
  <2>5. \A c \in ClaimsIn(r) : c \in cs /\ r.shown[c] = claim[c].version
    BY <2>4 DEF ClaimsIn, Versions
  <2>6. ReadStands(r)
    BY <2>2, <2>4, <2>5 DEF ReadStands, Outdated, ready_for_expression
  <2>7. QED
    BY <1>3, <2>2, <2>3, <2>6
<1>11. ASSUME NEW b \in Books, compile_read(t, b) PROVE PublicationSerial'
  <2>1. PICK cs, srefs :
          /\ cs = {c \in Claims : claim[c].version > 0}
          /\ Reads(t, [op |-> "compile", book |-> b, shown |-> Versions(cs), saw |-> {c \in cs : claim[c].verified},
                       srefs |-> srefs])
    BY <1>11 DEF compile_read
  <2>2. PICK r : r = [op |-> "compile", book |-> b, shown |-> Versions(cs), saw |-> {c \in cs : claim[c].verified},
                      srefs |-> srefs]
    OBVIOUS
  <2>3. r.op = "compile" /\ r.shown = Versions(cs) /\ r.saw = {c \in cs : claim[c].verified}
    BY <2>2
  <2>4. \A c \in ClaimsIn(r) : c \in cs /\ r.shown[c] = claim[c].version
    BY <2>3 DEF ClaimsIn, Versions
  <2>5. ReadStands(r)
    BY <2>3, <2>4 DEF ReadStands, Outdated
  <2>6. QED
    BY <1>3, <2>1, <2>2, <2>5
<1>12. QED
  BY <1>5, <1>6, <1>7, <1>8, <1>9, <1>10, <1>11, <1>13

\* What a notice does to a pack or a book makes it no later than it was.
LEMMA HandlersKeep ==
  ASSUME pack \in [Packs -> Pack], book \in [Books -> Book]
  PROVE  /\ \A p \in Packs : [pack[p] EXCEPT !.review = TRUE, !.approved = FALSE].late = pack[p].late
         /\ \A b \in Books : Staled(b) \in Book /\ Staled(b).late = book[b].late
<1>1. ASSUME NEW p \in Packs PROVE [pack[p] EXCEPT !.review = TRUE, !.approved = FALSE].late = pack[p].late
  BY DEF Pack
<1>2. ASSUME NEW b \in Books PROVE Staled(b) \in Book /\ Staled(b).late = book[b].late
  BY DEF Book, Staled
<1>3. QED
  BY <1>1, <1>2

LEMMA SerialCommits ==
  ASSUME \A t, u \in ResearchThreads : t = u, PublicationInv, PublicationSerial, NEW t \in ResearchThreads,
         \/ /\ UNCHANGED <<pack, book, missed>>
            /\ create_evidence(t) \/ verify_claim(t) \/ revise_claim(t) \/ refused(t)
         \/ build_commit(t) \/ approve_commit(t) \/ compile_commit(t) \/ project_commit(t) \/ publication_refused(t)
         \/ content_handler(t) \/ book_handler(t) \/ handler_skipped(t)
         \/ invalidate_source(t) \/ delete_locked(t) \/ delete_changing(t) \/ delete_unchanging(t)
  PROVE  PublicationSerial'
<1>1. /\ pack \in [Packs -> Pack] /\ book \in [Books -> Book] /\ req[t] \in Requests /\ DOMAIN req = ResearchThreads
      /\ NothingLate /\ ReadStands(req[t])
  BY DEF PublicationInv, PublicationTypeOK, ResearchTypeOK, PublicationSerial, Requests
<1>2. ASSUME \E cs : Emits(t, cs) \/ Done(t)
      PROVE  req'[t].op \in {"idle", "emit"}
  <2>1. Idle.op = "idle"
    BY DEF Idle
  <2>2. QED
    BY <1>1, <1>2, <2>1 DEF Emits, Done
<1>3. ASSUME NEW next \in {"none", "book"}, Told(t, next), req[t].op = "emit"
      PROVE  req'[t].op \in {"idle", "emit"}
  <2>1. req[t] \in [op : {"emit"}, to : {"content", "book"}, claims : SUBSET Claims]
    BY <1>1, <1>3 DEF Requests, ResearchRequests, PublicationRequests, Idle
  <2>2. QED
    BY <1>1, <1>3, <2>1 DEF Told, Idle
<1>4. ASSUME NothingLate', req'[t].op \in {"idle", "emit"} PROVE PublicationSerial'
  BY <1>4, RequestOver
<1>5. ASSUME UNCHANGED <<pack, book, missed>>, create_evidence(t) \/ refused(t) PROVE PublicationSerial'
  BY <1>1, <1>2, <1>4, <1>5 DEF create_evidence, refused, NothingLate
<1>6. ASSUME UNCHANGED <<pack, book, missed>>, verify_claim(t) PROVE PublicationSerial'
  <2>1. Basis(req[t].claim)
    BY <1>1, <1>6 DEF verify_claim, ReadStands
  <2>2. overtaken' = overtaken /\ req'[t].op = "idle"
    BY <1>6, <2>1 DEF verify_claim, Verifies, Idle
  <2>3. QED
    BY <1>1, <1>4, <1>6, <2>2 DEF NothingLate
<1>7. ASSUME UNCHANGED <<pack, book, missed>>, revise_claim(t) PROVE PublicationSerial'
  <2>1. req[t].seen = claim[req[t].claim].verified
    BY <1>1, <1>7 DEF revise_claim, ReadStands
  <2>2. overtaken' = {} /\ Emits(t, {req[t].claim})
    BY <1>1, <1>7, <2>1 DEF revise_claim, NothingLate
  <2>3. QED
    BY <1>1, <1>2, <1>4, <1>7, <2>2 DEF NothingLate
<1>8. CASE build_commit(t)
  <2>1. ~Outdated(req[t], IF req[t].ready THEN ClaimsIn(req[t]) ELSE {})
    BY <1>1, <1>8 DEF build_commit, ReadStands
  <2>2. \A p \in Packs : ~pack'[p].late
    BY <1>1, <1>8, <2>1 DEF build_commit, NothingLate
  <2>3. QED
    BY <1>1, <1>2, <1>4, <1>8, <2>2 DEF build_commit, RowsKept, NothingLate
<1>9. CASE compile_commit(t)
  <2>1. ~Outdated(req[t], req[t].saw)
    BY <1>1, <1>9 DEF compile_commit, ReadStands
  <2>2. \A b \in Books : ~book'[b].late
    BY <1>1, <1>9, <2>1 DEF compile_commit, WithBook, NothingLate, Book
  <2>3. QED
    BY <1>1, <1>2, <1>4, <1>9, <2>2 DEF compile_commit, RowsKept, NothingLate
<1>10. CASE approve_commit(t)
  <2>1. ASSUME NEW p \in Packs PROVE ~pack'[p].late
    <3>1. ~pack[p].late
      BY <1>1 DEF NothingLate
    <3>2. pack' = [pack EXCEPT ![req[t].pack].approved = TRUE]
      BY <1>10 DEF approve_commit
    <3>3. pack[p] \in Pack /\ pack \in [Packs -> Pack]
      BY <1>1
    <3>4. QED
      BY <3>1, <3>2, <3>3 DEF Pack
  <2>2. QED
    BY <1>1, <1>2, <1>4, <1>10, <2>1 DEF approve_commit, RowsKept, NothingLate
<1>11. CASE project_commit(t)
  <2>1. ASSUME NEW b \in Books PROVE ~book'[b].late
    <3>1. ~book[b].late
      BY <1>1 DEF NothingLate
    <3>2. book' = [book EXCEPT ![req[t].book].projection = "proposal_pending_review"]
      BY <1>11 DEF project_commit
    <3>3. book[b] \in Book /\ book \in [Books -> Book]
      BY <1>1
    <3>4. QED
      BY <3>1, <3>2, <3>3 DEF Book
  <2>2. QED
    BY <1>1, <1>2, <1>4, <1>11, <2>1 DEF project_commit, RowsKept, NothingLate
<1>12. CASE publication_refused(t)
  BY <1>1, <1>2, <1>4, <1>12 DEF publication_refused, RowsKept, NothingLate
<1>13. CASE content_handler(t) \/ book_handler(t) \/ handler_skipped(t)
  <2>1. req'[t].op \in {"idle", "emit"}
    BY <1>3, <1>13 DEF content_handler, book_handler, handler_skipped
  <2>2. \A p \in Packs : ~pack'[p].late
    <3>1. CASE content_handler(t)
      BY <1>1, <3>1, HandlersKeep DEF content_handler, NothingLate
    <3>2. CASE book_handler(t) \/ handler_skipped(t)
      BY <1>1, <3>2 DEF book_handler, handler_skipped, NothingLate
    <3>3. QED
      BY <1>13, <3>1, <3>2
  <2>3. \A b \in Books : ~book'[b].late
    <3>1. CASE book_handler(t)
      BY <1>1, <3>1, HandlersKeep DEF book_handler, NothingLate
    <3>2. CASE content_handler(t) \/ handler_skipped(t)
      BY <1>1, <3>2 DEF content_handler, handler_skipped, NothingLate
    <3>3. QED
      BY <1>13, <3>1, <3>2
  <2>4. overtaken' = overtaken
    BY <1>13 DEF content_handler, book_handler, handler_skipped, RowsKept
  <2>5. QED
    BY <1>1, <1>4, <2>1, <2>2, <2>3, <2>4 DEF NothingLate
<1>14. CASE invalidate_source(t) \/ delete_locked(t) \/ delete_changing(t) \/ delete_unchanging(t)
  <2>1. (\E cs : Emits(t, cs)) /\ overtaken' = {}
    <3>1. CASE invalidate_source(t)
      BY <1>1, <3>1 DEF invalidate_source, invalidate_rows, NothingLate
    <3>2. CASE delete_locked(t) \/ delete_changing(t) \/ delete_unchanging(t)
      <4>1. PICK es, cs, cites : delete_rows(t, es, cs, cites) /\ req[t].op = "delete"
        BY <3>2 DEF delete_locked, delete_changing, delete_unchanging, Deleting
      <4>2. req[t].since = {} /\ overtaken = {}
        BY <1>1, <4>1 DEF ReadStands, NothingLate
      <4>3. QED
        BY <4>1, <4>2 DEF delete_rows
    <3>3. QED
      BY <1>14, <3>1, <3>2
  <2>2. (\A p \in Packs : ~pack'[p].late) /\ \A b \in Books : ~book'[b].late
    <3>1. PublicationTypeOK
      BY DEF PublicationInv
    <3>2. QED
      BY <1>1, <1>14, <3>1, DependentsChange DEF NothingLate
  <2>3. req'[t].op \in {"idle", "emit"}
    BY <1>2, <2>1
  <2>4. QED
    BY <1>4, <2>1, <2>2, <2>3 DEF NothingLate
<1>15. QED
  BY <1>5, <1>6, <1>7, <1>8, <1>9, <1>10, <1>11, <1>12, <1>13, <1>14

LEMMA PublicationSerialStep ==
  ASSUME \A t, u \in ResearchThreads : t = u, PublicationInv, PublicationSerial, [PublicationNext]_pubvars
  PROVE  PublicationSerial'
<1>1. CASE UNCHANGED pubvars
  <2>1. UNCHANGED <<source_row, evidence, claim, req, overtaken, pack, book>>
    BY <1>1 DEF pubvars, researchvars
  <2>2. QED
    BY <2>1, ReadKept DEF PublicationSerial, NothingLate
<1>2. CASE api_crashes
  <2>1. (\A t \in ResearchThreads : req'[t].op = "idle") /\ UNCHANGED <<overtaken, pack, book>>
    BY <1>2 DEF api_crashes, RowsKept, Idle
  <2>2. QED
    BY <2>1 DEF PublicationSerial, NothingLate, ReadStands
<1>3. CASE ResearchNext /\ UNCHANGED <<pack, book, missed>>
  BY <1>3, SerialRows, SerialReads, SerialCommits DEF ResearchNext
<1>4. CASE \E p \in Packs : archive_pack(p) \/ delete_pack(p)
  <2>1. UNCHANGED book
    BY <1>4 DEF archive_pack, delete_pack
  <2>2. QED
    BY <1>4, <2>1, SerialRows
<1>5. CASE \E b \in Books : \/ create_book(b) \/ archive_book(b) \/ restore_book(b) \/ delete_book(b)
                            \/ confirm_projected_proposal(b) \/ confirm_projected_spine(b)
  <2>1. UNCHANGED pack
    BY <1>5 DEF create_book, archive_book, restore_book, delete_book, confirm_projected_proposal,
                confirm_projected_spine
  <2>2. QED
    BY <1>5, <2>1, SerialRows
<1>6. QED
  BY <1>1, <1>2, <1>3, <1>4, <1>5, SerialReads, SerialCommits DEF PublicationNext, delete_source

\* With one request at a time no claim is decided, and no pack or book stored, over a change: a claim that is
\* verified always has its basis, and what is shown is current or its notice is due or lost. What
\* VerifiedHasBasis and DerivedIsCurrent leave out is overlap and nothing else (routes/research.py,
\* content.py, living_book.py).
THEOREM SerialPublication ==
  ASSUME \A t, u \in ResearchThreads : t = u
  PROVE  PublicationSpec => [](NothingLate /\ VerifiedHasBasis /\ DerivedIsCurrent)
<1>1. PublicationInit => PublicationSerial
  BY DEF PublicationInit, ResearchInit, PublicationSerial, NothingLate, ReadStands, NoPack, NoBook, Idle
<1>2. PublicationInv /\ PublicationSerial /\ [PublicationNext]_pubvars => PublicationSerial'
  BY PublicationSerialStep
<1>3. PublicationSerial => NothingLate
  BY DEF PublicationSerial
<1>4. QED
  BY <1>1, <1>2, <1>3, PublicationInvariant, VerifiedClaims, DerivedClaims, PTL DEF PublicationSpec

-----------------------------------------------------------------------------
(* And of practice, where items stay with their concepts as well. *)

ItemsStay == [][\A i \in Items : Held(item[i]) => item'[i].concept = item[i].concept]_learnvars

\* What a request has found is still so.
FindsStand(r) ==
  /\ r.op = "try" => item[r.item].at # "absent"
  /\ r.op = "promote" => Held(attempt[r.attempt]) /\ item[attempt[r.attempt].item].concept = r.concept
  /\ r.op = "drop item" => \A a \in r.attempts : ~attempt[a].promoted
  /\ r.op = "drop concept" => \A m \in Proofs : Held(proof[m]) /\ proof[m].attempt \in r.attempts => m \in r.proofs

\* An attempt is of an item that was made, and evidence is of the concept of that item.
LinksOK ==
  /\ \A a \in Attempts : Held(attempt[a]) => item[attempt[a].item].at # "absent"
  /\ \A m \in Proofs : Held(proof[m]) => item[attempt[proof[m].attempt].item].concept = proof[m].concept

LearnSerial == strayed = {} /\ LinksOK /\ \A t \in LearnThreads : FindsStand(lreq[t])

\* What the invariants say of the rows, while nothing has strayed.
LEMMA LearnRowsKnown ==
  ASSUME LearnInv, LearnSerial
  PROVE  /\ item \in [Items -> [at : RowStates, concept : AnyConcept]]
         /\ attempt \in [Attempts -> [at : {"absent", "stored", "gone"}, item : Items \cup {NoConcept}, promoted : BOOLEAN]]
         /\ proof \in [Proofs -> [at : {"absent", "active", "invalidated", "gone"}, concept : AnyConcept,
                                  attempt : Attempts \cup {NoAttempt}]]
         /\ DOMAIN lreq = LearnThreads
         /\ \A a \in Attempts : Held(attempt[a]) => attempt[a].item \in Items /\ item[attempt[a].item].at # "absent"
         /\ \A m \in Proofs : Held(proof[m]) =>
              /\ proof[m].attempt \in Attempts /\ Held(attempt[proof[m].attempt])
              /\ attempt[proof[m].attempt].promoted
              /\ item[attempt[proof[m].attempt].item].concept = proof[m].concept
  BY DEF LearnInv, LearnTypeOK, LearnSerial, LinksOK, EvidenceHasAttempt

\* An item that was made keeps its concept, in every step that does not move it.
LEMMA ItemsKept ==
  ASSUME LearnInv, LearnNext, \A i \in Items : Held(item[i]) => item'[i].concept = item[i].concept,
         NEW i \in Items, item[i].at # "absent"
  PROVE  item'[i].at # "absent" /\ item'[i].concept = item[i].concept
<1>1. item \in [Items -> [at : RowStates, concept : AnyConcept]]
  BY DEF LearnInv, LearnTypeOK
<1>2. CASE UNCHANGED item
  BY <1>2
<1>3. ASSUME NEW x \in Items, create_practice_item(x)
      PROVE  item'[i].at # "absent" /\ item'[i].concept = item[i].concept
  BY <1>1, <1>3 DEF create_practice_item
<1>4. ASSUME NEW x \in Items, update_practice(x)
      PROVE  item'[i].at # "absent" /\ item'[i].concept = item[i].concept
  BY <1>1, <1>4 DEF update_practice
<1>5. ASSUME NEW S, item' = Removed(item, S)
      PROVE  item'[i].at # "absent" /\ item'[i].concept = item[i].concept
  BY <1>1, <1>5 DEF Removed
<1>6. QED
  BY <1>2, <1>3, <1>4, <1>5
     DEF LearnNext, create_concept, update_mastery, archive_concept, invalidate_mastery_evidence, drop_concept_read,
         drop_item_read, try_read, attempt_read, record_practice_attempt, promote_attempt_to_mastery_evidence,
         delete_practice, delete_concept, learn_refused

\* Links survive what only takes rows away.
LEMMA LinksKept ==
  ASSUME LearnInv, LearnSerial,
         \A i \in Items : item[i].at # "absent" => item'[i].at # "absent" /\ item'[i].concept = item[i].concept,
         \A a \in Attempts : Held(attempt'[a]) => Held(attempt[a]),
         \A a \in Attempts : Held(attempt[a]) => attempt'[a].item = attempt[a].item,
         \A m \in Proofs : Held(proof'[m]) => /\ Held(proof[m]) /\ proof'[m].attempt = proof[m].attempt
                                              /\ proof'[m].concept = proof[m].concept
  PROVE  LinksOK'
<1>1. ASSUME NEW a \in Attempts, Held(attempt'[a]) PROVE item'[attempt'[a].item].at # "absent"
  BY <1>1, LearnRowsKnown
<1>2. ASSUME NEW m \in Proofs, Held(proof'[m])
      PROVE  item'[attempt'[proof'[m].attempt].item].concept = proof'[m].concept
  BY <1>2, LearnRowsKnown
<1>3. QED
  BY <1>1, <1>2 DEF LinksOK

LEMMA SerialLearnReads ==
  ASSUME \A t, u \in LearnThreads : t = u, LearnInv, LearnSerial, NEW t \in LearnThreads,
         \/ \E c \in Concepts : drop_concept_read(t, c)
         \/ \E i \in Items : drop_item_read(t, i) \/ \E a \in Attempts : try_read(t, i, a)
         \/ \E a \in Attempts : attempt_read(t, a)
  PROVE  LearnSerial'
<1>1. UNCHANGED <<item, attempt, proof, strayed>>
  BY DEF drop_concept_read, drop_item_read, try_read, attempt_read
<1>2. ASSUME NEW r, Begins(t, r), FindsStand(r) PROVE LearnSerial'
  <2>1. \A u \in LearnThreads : lreq'[u] = r
    BY <1>2, LearnRowsKnown DEF Begins
  <2>2. \A u \in LearnThreads : FindsStand(lreq[u])'
    BY <1>1, <1>2, <2>1 DEF FindsStand, Held
  <2>3. LinksOK'
    BY <1>1, LinksKept
  <2>4. QED
    BY <1>1, <2>2, <2>3 DEF LearnSerial
<1>3. ASSUME NEW c \in Concepts, drop_concept_read(t, c) PROVE LearnSerial'
  <2>1. PICK its, ms : /\ its = {i \in Items : Held(item[i]) /\ item[i].concept = c}
                       /\ ms = {m \in Proofs : Held(proof[m]) /\ proof[m].concept = c}
    OBVIOUS
  <2>2. PICK r : r = [op |-> "drop concept", concept |-> c, items |-> its, attempts |-> UNION {Of(i) : i \in its},
                      proofs |-> ms]
    OBVIOUS
  <2>3. Begins(t, r)
    BY <1>3, <2>1, <2>2 DEF drop_concept_read
  <2>4. r.op = "drop concept" /\ r.attempts = UNION {Of(i) : i \in its} /\ r.proofs = ms
    BY <2>2
  <2>5. ASSUME NEW m \in Proofs, Held(proof[m]), proof[m].attempt \in UNION {Of(i) : i \in its}
        PROVE  m \in ms
    <3>1. PICK i \in its : proof[m].attempt \in Of(i)
      BY <2>5
    <3>2. item[i].concept = c /\ attempt[proof[m].attempt].item = i
      BY <2>1, <3>1 DEF Of
    <3>3. QED
      BY <2>1, <2>5, <3>2, LearnRowsKnown
  <2>6. FindsStand(r)
    BY <2>4, <2>5 DEF FindsStand
  <2>7. QED
    BY <1>2, <2>3, <2>6
<1>4. ASSUME NEW i \in Items, drop_item_read(t, i) PROVE LearnSerial'
  <2>1. PICK r : r = [op |-> "drop item", item |-> i, attempts |-> Of(i)]
    OBVIOUS
  <2>2. FindsStand(r)
    BY <1>4, <2>1 DEF drop_item_read, FindsStand
  <2>3. QED
    BY <1>2, <1>4, <2>1, <2>2 DEF drop_item_read
<1>5. ASSUME NEW i \in Items, NEW a \in Attempts, try_read(t, i, a) PROVE LearnSerial'
  <2>1. PICK r : r = [op |-> "try", item |-> i, attempt |-> a]
    OBVIOUS
  <2>2. FindsStand(r)
    BY <1>5, <2>1 DEF try_read, FindsStand, Held
  <2>3. QED
    BY <1>2, <1>5, <2>1, <2>2 DEF try_read
<1>6. ASSUME NEW a \in Attempts, attempt_read(t, a) PROVE LearnSerial'
  <2>1. PICK r : r = [op |-> "promote", attempt |-> a, concept |-> item[attempt[a].item].concept,
                      seen |-> attempt[a].promoted]
    OBVIOUS
  <2>2. FindsStand(r)
    BY <1>6, <2>1 DEF attempt_read, FindsStand
  <2>3. QED
    BY <1>2, <1>6, <2>1, <2>2 DEF attempt_read
<1>7. QED
  BY <1>3, <1>4, <1>5, <1>6

LEMMA SerialLearnCommits ==
  ASSUME \A t, u \in LearnThreads : t = u, LearnInv, LearnSerial, NEW t \in LearnThreads,
         \A i \in Items : item[i].at # "absent" => item'[i].at # "absent" /\ item'[i].concept = item[i].concept,
         \/ record_practice_attempt(t) \/ promote_attempt_to_mastery_evidence(t)
         \/ delete_practice(t) \/ delete_concept(t) \/ learn_refused(t)
  PROVE  LearnSerial'
<1>1. FindsStand(lreq[t]) /\ strayed = {} /\ LearnTypeOK
  BY DEF LearnSerial, LearnInv
<1>2. \A u \in LearnThreads : FindsStand(lreq[u])'
  <2>1. \A u \in LearnThreads : lreq'[u] = Waiting
    BY LearnRowsKnown DEF record_practice_attempt, promote_attempt_to_mastery_evidence, delete_practice,
                          delete_concept, learn_refused, Finishes
  <2>2. Waiting.op = "idle"
    BY DEF Waiting
  <2>3. QED
    BY <2>1, <2>2 DEF FindsStand
<1>3. ASSUME strayed' = {}, LinksOK' PROVE LearnSerial'
  BY <1>2, <1>3 DEF LearnSerial
<1>4. CASE learn_refused(t)
  <2>1. UNCHANGED <<item, attempt, proof, strayed>>
    BY <1>4 DEF learn_refused
  <2>2. QED
    BY <1>1, <1>3, <2>1, LinksKept
<1>5. CASE record_practice_attempt(t)
  <2>1. PICK a \in Attempts, i \in Items : a = lreq[t].attempt /\ i = lreq[t].item
    BY <1>1, <1>5, LearnRequestTypes DEF record_practice_attempt
  <2>2. /\ attempt' = [attempt EXCEPT ![a] = [at |-> "stored", item |-> i, promoted |-> FALSE]]
        /\ UNCHANGED <<item, proof, strayed>> /\ item[i].at # "absent" /\ attempt[a].at = "absent"
    BY <1>1, <1>5, <2>1 DEF record_practice_attempt, FindsStand, LearnInv, NewAttempts
  <2>3. ASSUME NEW b \in Attempts, Held(attempt'[b]) PROVE item'[attempt'[b].item].at # "absent"
    BY <2>2, <2>3, LearnRowsKnown
  <2>4. ASSUME NEW m \in Proofs, Held(proof'[m])
        PROVE  item'[attempt'[proof'[m].attempt].item].concept = proof'[m].concept
    <3>1. proof[m].attempt # a
      BY <2>2, <2>4, LearnRowsKnown DEF Held
    <3>2. QED
      BY <2>2, <2>4, <3>1, LearnRowsKnown
  <2>5. QED
    BY <1>1, <1>3, <2>2, <2>3, <2>4 DEF LinksOK
<1>6. CASE promote_attempt_to_mastery_evidence(t)
  <2>1. PICK a \in Attempts, c \in Concepts : a = lreq[t].attempt /\ c = lreq[t].concept
    BY <1>1, <1>6, LearnRequestTypes DEF promote_attempt_to_mastery_evidence
  <2>2. Held(attempt[a]) /\ item[attempt[a].item].concept = c
    BY <1>1, <1>6, <2>1 DEF promote_attempt_to_mastery_evidence, FindsStand
  <2>3. PICK m \in Proofs : proof' = [proof EXCEPT ![m] = [at |-> "active", concept |-> c, attempt |-> a]]
    BY <1>6, <2>1 DEF promote_attempt_to_mastery_evidence, Proven
  <2>4. attempt' = [attempt EXCEPT ![a].promoted = TRUE] /\ strayed' = {} /\ UNCHANGED item
    BY <1>1, <1>6, <2>1, <2>2 DEF promote_attempt_to_mastery_evidence
  <2>5. \A b \in Attempts : attempt'[b].at = attempt[b].at /\ attempt'[b].item = attempt[b].item
    BY <2>4, LearnRowsKnown
  <2>6. ASSUME NEW b \in Attempts, Held(attempt'[b]) PROVE item'[attempt'[b].item].at # "absent"
    BY <2>4, <2>5, <2>6, LearnRowsKnown DEF Held
  <2>7. ASSUME NEW n \in Proofs, Held(proof'[n])
        PROVE  item'[attempt'[proof'[n].attempt].item].concept = proof'[n].concept
    BY <2>2, <2>3, <2>4, <2>5, <2>7, LearnRowsKnown
  <2>8. QED
    BY <1>3, <2>4, <2>6, <2>7 DEF LinksOK
<1>7. ASSUME NEW S \in SUBSET Attempts, NEW ms \in SUBSET Proofs, strayed' = {},
             attempt' = Removed(attempt, S), proof' = Removed(proof, ms)
      PROVE  LearnSerial'
  <2>1. \A a \in Attempts : /\ Held(attempt'[a]) => Held(attempt[a])
                            /\ attempt'[a].item = attempt[a].item
    BY <1>7, LearnRowsKnown DEF Removed, Held
  <2>2. \A m \in Proofs : Held(proof'[m]) => /\ Held(proof[m]) /\ proof'[m].attempt = proof[m].attempt
                                             /\ proof'[m].concept = proof[m].concept
    BY <1>7, LearnRowsKnown DEF Removed, Held
  <2>3. QED
    BY <1>3, <1>7, <2>1, <2>2, LinksKept
<1>8. CASE delete_practice(t)
  <2>1. lreq[t].attempts \subseteq Attempts /\ \A a \in lreq[t].attempts : ~attempt[a].promoted
    BY <1>1, <1>8, LearnRequestTypes DEF delete_practice, FindsStand
  <2>2. strayed' = {}
    BY <1>1, <1>8, <2>1 DEF delete_practice, Orphaned
  <2>3. proof' = Removed(proof, {})
    BY <1>8, LearnRowsKnown DEF delete_practice, Removed
  <2>4. QED
    BY <1>7, <1>8, <2>1, <2>2, <2>3 DEF delete_practice
<1>9. CASE delete_concept(t)
  <2>1. /\ lreq[t].attempts \subseteq Attempts /\ lreq[t].proofs \subseteq Proofs
        /\ \A m \in Proofs : Held(proof[m]) /\ proof[m].attempt \in lreq[t].attempts => m \in lreq[t].proofs
    BY <1>1, <1>9, LearnRequestTypes DEF delete_concept, FindsStand
  <2>2. Orphaned(lreq[t].attempts, lreq[t].proofs) = {}
    BY <2>1 DEF Orphaned, ProofOf
  <2>3. strayed' = {}
    BY <1>1, <1>9, <2>2 DEF delete_concept
  <2>4. QED
    BY <1>7, <1>9, <2>1, <2>3 DEF delete_concept
<1>10. QED
  BY <1>4, <1>5, <1>6, <1>8, <1>9

LEMMA LearnSerialStep ==
  ASSUME \A t, u \in LearnThreads : t = u, LearnInv, LearnSerial, [LearnNext]_learnvars,
         [\A i \in Items : Held(item[i]) => item'[i].concept = item[i].concept]_learnvars
  PROVE  LearnSerial'
<1>1. CASE UNCHANGED learnvars
  BY <1>1 DEF learnvars, LearnSerial, LinksOK, FindsStand, Held
<1>2. CASE LearnNext /\ \A i \in Items : Held(item[i]) => item'[i].concept = item[i].concept
  <2>1. \A i \in Items : item[i].at # "absent" => item'[i].at # "absent" /\ item'[i].concept = item[i].concept
    BY <1>2, ItemsKept
  <2>2. ASSUME UNCHANGED <<attempt, lreq, strayed>>,
               \A m \in Proofs : Held(proof'[m]) => /\ Held(proof[m]) /\ proof'[m].attempt = proof[m].attempt
                                                    /\ proof'[m].concept = proof[m].concept
        PROVE  LearnSerial'
    <3>1. LinksOK'
      BY <2>1, <2>2, LinksKept
    <3>2. ASSUME NEW t \in LearnThreads PROVE FindsStand(lreq[t])'
      <4>1. FindsStand(lreq[t]) /\ LearnTypeOK
        BY DEF LearnSerial, LearnInv
      <4>2. CASE lreq[t].op = "try"
        BY <2>1, <2>2, <4>1, <4>2, LearnRequestTypes DEF FindsStand
      <4>3. CASE lreq[t].op = "promote"
        <5>1. /\ lreq[t].attempt \in Attempts /\ Held(attempt[lreq[t].attempt])
              /\ item[attempt[lreq[t].attempt].item].concept = lreq[t].concept
          BY <4>1, <4>3, LearnRequestTypes DEF FindsStand
        <5>2. QED
          BY <2>1, <2>2, <4>3, <5>1, LearnRowsKnown DEF FindsStand
      <4>4. CASE lreq[t].op \notin {"try", "promote"}
        BY <2>2, <4>1, <4>4 DEF FindsStand
      <4>5. QED
        BY <4>2, <4>3, <4>4
    <3>3. QED
      BY <2>2, <3>1, <3>2 DEF LearnSerial
  <2>3. CASE \/ \E c \in Concepts : create_concept(c) \/ update_mastery(c) \/ archive_concept(c)
             \/ \E i \in Items : create_practice_item(i) \/ update_practice(i)
    BY <2>2, <2>3 DEF create_concept, update_mastery, archive_concept, create_practice_item, update_practice
  <2>4. ASSUME NEW m \in Proofs, invalidate_mastery_evidence(m) PROVE LearnSerial'
    BY <2>2, <2>4, LearnRowsKnown DEF invalidate_mastery_evidence
  <2>5. QED
    BY <1>2, <2>1, <2>3, <2>4, SerialLearnReads, SerialLearnCommits DEF LearnNext
<1>3. QED
  BY <1>1, <1>2

\* With one request at a time, and items that stay with their concepts, no evidence of mastery ever loses its
\* attempt: EvidenceHasAttempt leaves out the moved item and the overlap, and nothing else
\* (routes/learning_assets.py: delete_practice, update_practice, delete_concept).
THEOREM SerialLearning ==
  ASSUME \A t, u \in LearnThreads : t = u
  PROVE  LearnSpec /\ ItemsStay => [](strayed = {} /\ EvidenceHasAttempt)
<1>1. LearnInit => LearnSerial
  <2>1. Waiting.op = "idle" /\ ~Held(NoTry) /\ ~Held(NoProof)
    BY DEF Waiting, NoTry, NoProof, Held
  <2>2. LearnInit => LinksOK
    BY <2>1 DEF LearnInit, LinksOK
  <2>3. QED
    BY <2>1, <2>2 DEF LearnInit, LearnSerial, FindsStand
<1>2. LearnInv /\ LearnSerial /\ [LearnNext]_learnvars
        /\ [\A i \in Items : Held(item[i]) => item'[i].concept = item[i].concept]_learnvars
      => LearnSerial'
  BY LearnSerialStep
<1>3. LearnInv /\ LearnSerial => strayed = {} /\ EvidenceHasAttempt
  BY DEF LearnInv, LearnSerial
<1>4. QED
  BY <1>1, <1>2, <1>3, LearnInvariant, PTL DEF LearnSpec, ItemsStay

-----------------------------------------------------------------------------
(* The run. *)

\* The run of the workspace moves one part at a time, each as its own specification says.
LEMMA RunIsWorkspace == MCSpec => PublicationSpec /\ RunSpec /\ AreaSpec /\ LearnSpec /\ WriteSpec
<1>1. MCInit => PublicationInit /\ RunInit /\ AreaInit /\ LearnInit /\ WriteInit
  BY DEF MCInit
<1>2. [MCNext]_mcvars => [PublicationNext]_pubvars /\ [RunNext]_runvars /\ [AreaNext]_areavars
                           /\ [LearnNext]_learnvars /\ [WriteNext]_writevars
  BY DEF MCNext, mcvars, Part
<1>3. QED
  BY <1>1, <1>2, PTL DEF MCSpec, PublicationSpec, RunSpec, AreaSpec, LearnSpec, WriteSpec
=============================================================================
