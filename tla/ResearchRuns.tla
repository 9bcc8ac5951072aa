----------------------------- MODULE ResearchRuns -----------------------------
(***************************************************************************)
(* One research run of the host (routes/research.py: run_research) over    *)
(* the native executor (interest_growth_native/research.py): topics are    *)
(* taken from a queue one block at a time, a block may append topics, and  *)
(* at most as many blocks as the depth allows are run.  The ledger row is  *)
(* committed as running first and gets its result last.                    *)
(***************************************************************************)
EXTENDS Naturals, Sequences, FiniteSets

CONSTANTS
  Runs,
  ResearchTopics,  \* titles, compared without case
  MaxQueues,       \* the block limits: 4, or 8 when the depth is "deep"
  MaxOutline,      \* topics of an outline (bound; the code allows 8)
  MaxImported      \* sources imported by runs that are counted (bound)

ASSUME RunAssumption == MaxQueues \subseteq Nat \ {0} /\ MaxOutline \in Nat \ {0, 1} /\ MaxImported \in Nat

VARIABLES
  ledger,   \* run -> the status in its row
  work,     \* run -> the request that executes it: where it is, and its locals
  imported  \* number of sources that runs have left in the store

runvars == <<ledger, work, imported>>

RunStatus == {"none", "running", "completed", "degraded", "failed"}
NoWork == [at |-> "idle", queue |-> <<>>, seen |-> {}, done |-> {}, counter |-> 0, max |-> 0,
           failed |-> FALSE, sources |-> FALSE, result |-> "none"]

Work == [at : {"idle", "blocks", "import", "finish", "over"}, queue : Seq(ResearchTopics),
         seen : SUBSET ResearchTopics, done : SUBSET ResearchTopics, counter : Nat, max : Nat,
         failed : BOOLEAN, sources : BOOLEAN, result : {"none", "completed", "degraded"}]

RunTypeOK ==
  /\ ledger \in [Runs -> RunStatus] /\ imported \in 0 .. MaxImported
  /\ work \in [Runs -> Work]
  /\ \A r \in Runs : work[r].done \subseteq work[r].seen /\ work[r].counter <= work[r].max

RunInit == ledger = [r \in Runs |-> "none"] /\ work = [r \in Runs |-> NoWork] /\ imported = 0

Outlines == UNION {[1 .. n -> ResearchTopics] : n \in 2 .. MaxOutline}
Titles(queue) == {queue[k] : k \in DOMAIN queue}
Goes(r, w) == work' = [work EXCEPT ![r] = w]
Settled(r, status) == ledger' = [ledger EXCEPT ![r] = status]
Stops(r) == Goes(r, [NoWork EXCEPT !.at = "over"])

\* Every gate has been passed, then the row is committed; the outline was approved or is made now.
start_run(r) ==
  /\ ledger[r] = "none" /\ Settled(r, "running")
  /\ \E outline \in Outlines : \E max \in MaxQueues :
       Goes(r, [NoWork EXCEPT !.at = "blocks", !.queue = outline, !.seen = Titles(outline), !.max = max])
  /\ UNCHANGED imported

\* A topic is appended if its title is new and a block is left for it, else it is dropped silently.
Appended(w, new) == /\ new \notin w.seen /\ Len(w.queue) + w.counter < w.max
WithTopic(w, new) == IF Appended(w, new)
                     THEN [w EXCEPT !.seen = @ \cup {new}, !.queue = Append(@, new)] ELSE w
Taken(w, completed) ==
  [w EXCEPT !.queue = Tail(@), !.counter = @ + 1, !.failed = @ \/ ~completed,
            !.done = IF completed THEN @ \cup {Head(w.queue)} ELSE @]

\* The answer may be no JSON, lack a summary or claims, or cite what was not supplied: a partial block.
one_block(r) ==
  /\ work[r].at = "blocks" /\ work[r].queue # <<>>
  /\ \E completed \in BOOLEAN : \E new \in UNION {[1 .. n -> ResearchTopics] : n \in 0 .. 2} :
       LET one == Taken(work[r], completed)
           two == IF Len(new) > 0 THEN WithTopic(one, new[1]) ELSE one
       IN Goes(r, IF Len(new) > 1 THEN WithTopic(two, new[2]) ELSE two)
  /\ UNCHANGED <<ledger, imported>>

\* For a mutant: one block more than the depth allows.
run_block_late(r) == work[r].counter <= work[r].max /\ one_block(r)

run_block(r) == work[r].counter < work[r].max /\ one_block(r)

\* For a mutant: what is left in the queue is not looked at.
write_report_unfinished(r) ==
  /\ work[r].at = "blocks" /\ (work[r].queue = <<>> \/ work[r].counter = work[r].max)
  /\ \E found \in BOOLEAN :
       Goes(r, [work[r] EXCEPT !.at = IF found THEN "import" ELSE "finish", !.sources = found,
                               !.result = IF work[r].failed THEN "degraded" ELSE "completed"])
  /\ UNCHANGED <<ledger, imported>>

write_report(r) ==
  /\ work[r].at = "blocks" /\ (work[r].queue = <<>> \/ work[r].counter = work[r].max)
  /\ \E found \in BOOLEAN :
       Goes(r, [work[r] EXCEPT !.at = IF found THEN "import" ELSE "finish", !.sources = found,
                               !.result = IF work[r].failed \/ work[r].queue # <<>> THEN "degraded" ELSE "completed"])
  /\ UNCHANGED <<ledger, imported>>

\* The provider is not available: the manual workspace answers instead.
fall_back(r) == /\ work[r].at = "blocks"
                /\ Goes(r, [NoWork EXCEPT !.at = "finish", !.max = work[r].max, !.result = "degraded"])
                /\ UNCHANGED <<ledger, imported>>

\* Any other exception ends the run, among them the KeyError of a block one of whose searches failed:
\* the record of that failure has no citation_id.
mark_run_failed(r) == /\ work[r].at = "blocks" /\ Settled(r, "failed") /\ Stops(r) /\ UNCHANGED imported

persist_sources(r) == /\ work[r].at = "import" /\ imported < MaxImported /\ imported' = imported + 1
                      /\ Goes(r, [work[r] EXCEPT !.at = "finish"]) /\ UNCHANGED ledger

finish_run(r) == /\ work[r].at = "finish" /\ Settled(r, work[r].result)
                 /\ Goes(r, [work[r] EXCEPT !.at = "over"]) /\ UNCHANGED imported

\* An exception after the engine's answer is caught by nobody, and no start looks for running rows.
run_dies(r) == work[r].at \in {"blocks", "import", "finish"} /\ Stops(r) /\ UNCHANGED <<ledger, imported>>

RunNext == \E r \in Runs : \/ start_run(r) \/ run_block(r) \/ write_report(r) \/ fall_back(r) \/ mark_run_failed(r)
                           \/ persist_sources(r) \/ finish_run(r) \/ run_dies(r)

RunSpec == RunInit /\ [][RunNext]_runvars

\* A run that counts as completed has a completed block for every topic of its outline and for every
\* topic it took in on the way, at every depth (routes/research.py: "degraded" if the result is partial).
CompletedIsWhole == \A r \in Runs : ledger[r] = "completed" => work[r].seen \subseteq work[r].done
=============================================================================
