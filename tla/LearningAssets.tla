---------------------------- MODULE LearningAssets ----------------------------
(***************************************************************************)
(* Concepts, practice, attempts and the mastery evidence that is made of   *)
(* an attempt (routes/learning.py, pg_api/learning_assets.py,              *)
(* routes/learning_assets.py).  No row is tied to another by the database: *)
(* what refers to a row is looked for by the handler that deletes it, and  *)
(* a handler's commit comes after its reads.                               *)
(***************************************************************************)
EXTENDS Naturals, FiniteSets

CONSTANTS
  Concepts, Items, Attempts, Proofs, \* Proofs: rows of mastery evidence
  NoConcept, NoAttempt,
  MasteryStates,                     \* the number of states of the mastery profile
  LearnThreads

ASSUME LearningAssumption == MasteryStates \in Nat \ {0}

VARIABLES
  concept,  \* concept -> its row, and its mastery (0: no record)
  item,     \* practice item -> its row
  attempt,  \* attempt -> its row
  proof,    \* mastery evidence -> its row
  lreq,     \* thread -> the request it handles
  strayed   \* attempts whose evidence lost them to a move of the item, or to a delete that had read before it

learnvars == <<concept, item, attempt, proof, lreq, strayed>>

RowStates == {"absent", "active", "archived", "gone"}
AnyConcept == Concepts \cup {NoConcept}
NoItem == [at |-> "absent", concept |-> NoConcept]
NoTry == [at |-> "absent", item |-> NoConcept, promoted |-> FALSE]
NoProof == [at |-> "absent", concept |-> NoConcept, attempt |-> NoAttempt]
Waiting == [op |-> "idle"]
LearnRequests ==
  {Waiting} \cup [op : {"try"}, item : Items, attempt : Attempts]
            \cup [op : {"promote"}, attempt : Attempts, concept : Concepts, seen : BOOLEAN]
            \cup [op : {"drop item"}, item : Items, attempts : SUBSET Attempts]
            \cup [op : {"drop concept"}, concept : Concepts, items : SUBSET Items, attempts : SUBSET Attempts,
                  proofs : SUBSET Proofs]

LearnTypeOK ==
  /\ concept \in [Concepts -> [at : RowStates, mastery : 0 .. MasteryStates]]
  /\ item \in [Items -> [at : RowStates, concept : AnyConcept]]
  /\ attempt \in [Attempts -> [at : {"absent", "stored", "gone"}, item : Items \cup {NoConcept}, promoted : BOOLEAN]]
  /\ proof \in [Proofs -> [at : {"absent", "active", "invalidated", "gone"}, concept : AnyConcept,
                           attempt : Attempts \cup {NoAttempt}]]
  /\ lreq \in [LearnThreads -> LearnRequests]
  /\ strayed \subseteq Attempts

LearnInit == /\ concept = [c \in Concepts |-> [at |-> "absent", mastery |-> 0]] /\ item = [i \in Items |-> NoItem]
             /\ attempt = [a \in Attempts |-> NoTry] /\ proof = [m \in Proofs |-> NoProof]
             /\ lreq = [t \in LearnThreads |-> Waiting] /\ strayed = {}

Held(x) == x.at \in {"active", "archived", "stored", "invalidated"}
Of(i) == {a \in Attempts : Held(attempt[a]) /\ attempt[a].item = i}
ProofOf(a) == {m \in Proofs : Held(proof[m]) /\ proof[m].attempt = a}
Begins(t, r) == lreq[t] = Waiting /\ lreq' = [lreq EXCEPT ![t] = r]
Finishes(t) == lreq' = [lreq EXCEPT ![t] = Waiting]
Removed(f, S) == [x \in DOMAIN f |-> IF x \in S /\ Held(f[x]) THEN [f[x] EXCEPT !.at = "gone"] ELSE f[x]]

-----------------------------------------------------------------------------
(* Concepts and mastery. *)

\* With its first mastery record, in one commit.
create_concept(c) == /\ concept[c].at = "absent" /\ concept' = [concept EXCEPT ![c] = [at |-> "active", mastery |-> 1]]
                     /\ UNCHANGED <<item, attempt, proof, lreq, strayed>>

update_mastery(c) == /\ Held(concept[c])
                     /\ \E m \in 1 .. MasteryStates : concept' = [concept EXCEPT ![c].mastery = m]
                     /\ UNCHANGED <<item, attempt, proof, lreq, strayed>>

archive_concept(c) == /\ Held(concept[c])
                      /\ \E at \in {"active", "archived"} : concept' = [concept EXCEPT ![c].at = at]
                      /\ UNCHANGED <<item, attempt, proof, lreq, strayed>>

\* Refused if anything hangs on it, unless forced: then what was found is deleted with it.
drop_concept_read(t, c) ==
  LET its == {i \in Items : Held(item[i]) /\ item[i].concept = c}
      ms == {m \in Proofs : Held(proof[m]) /\ proof[m].concept = c} IN
  /\ Held(concept[c])
  /\ \E force \in BOOLEAN :
       /\ force \/ (concept[c].mastery = 0 /\ its = {} /\ ms = {})
       /\ Begins(t, [op |-> "drop concept", concept |-> c, items |-> its, attempts |-> UNION {Of(i) : i \in its}, proofs |-> ms])
  /\ UNCHANGED <<concept, item, attempt, proof, strayed>>

\* Attempts that lose their row while evidence of them stays.
Orphaned(S, ms) == {a \in S : ProofOf(a) \ ms # {}}

delete_concept(t) ==
  /\ lreq[t].op = "drop concept"
  /\ concept' = [concept EXCEPT ![lreq[t].concept] = [at |-> "gone", mastery |-> 0]]
  /\ item' = Removed(item, lreq[t].items) /\ attempt' = Removed(attempt, lreq[t].attempts)
  /\ proof' = Removed(proof, lreq[t].proofs)
  /\ strayed' = strayed \cup Orphaned(lreq[t].attempts, lreq[t].proofs)
  /\ Finishes(t)

-----------------------------------------------------------------------------
(* Practice. *)

create_practice_item(i) ==
  /\ item[i].at = "absent"
  /\ \E c \in {x \in Concepts : Held(concept[x])} \cup {NoConcept} : item' = [item EXCEPT ![i] = [at |-> "active", concept |-> c]]
  /\ UNCHANGED <<concept, attempt, proof, lreq, strayed>>

\* The item goes to any concept, or to none; nothing is looked up, and evidence stays where it is.
update_practice(i) ==
  /\ Held(item[i])
  /\ \E c \in AnyConcept : \E at \in {"active", "archived"} : item' = [item EXCEPT ![i] = [at |-> at, concept |-> c]]
  /\ UNCHANGED <<concept, attempt, proof, lreq, strayed>>

try_read(t, i, a) == /\ Held(item[i]) /\ attempt[a].at = "absent" /\ \A u \in LearnThreads : lreq[u].op = "try" => lreq[u].attempt # a
                     /\ Begins(t, [op |-> "try", item |-> i, attempt |-> a])
                     /\ UNCHANGED <<concept, item, attempt, proof, strayed>>

record_practice_attempt(t) ==
  /\ lreq[t].op = "try"
  /\ attempt' = [attempt EXCEPT ![lreq[t].attempt] = [at |-> "stored", item |-> lreq[t].item, promoted |-> FALSE]]
  /\ Finishes(t) /\ UNCHANGED <<concept, item, proof, strayed>>

\* Once per attempt; two at a time both find none and each make one.
attempt_read(t, a) ==
  /\ Held(attempt[a]) /\ Held(item[attempt[a].item]) /\ item[attempt[a].item].concept # NoConcept
  /\ ProofOf(a) = {}
  /\ Begins(t, [op |-> "promote", attempt |-> a, concept |-> item[attempt[a].item].concept, seen |-> attempt[a].promoted])
  /\ UNCHANGED <<concept, item, attempt, proof, strayed>>

Proven(t, m) == [proof EXCEPT ![m] = [at |-> "active", concept |-> lreq[t].concept, attempt |-> lreq[t].attempt]]

\* For a mutant: the attempt does not know of its evidence.
promote_unmarked(t) ==
  /\ lreq[t].op = "promote" /\ Held(attempt[lreq[t].attempt])
  /\ \E m \in {x \in Proofs : proof[x].at = "absent"} : proof' = Proven(t, m)
  /\ Finishes(t) /\ UNCHANGED <<concept, item, attempt, strayed>>

\* The mark is an UPDATE, and fails with the attempt gone, only if it was not there before.
promote_attempt_to_mastery_evidence(t) ==
  /\ lreq[t].op = "promote" /\ (lreq[t].seen \/ Held(attempt[lreq[t].attempt]))
  /\ \E m \in {x \in Proofs : proof[x].at = "absent"} : proof' = Proven(t, m)
  /\ attempt' = [attempt EXCEPT ![lreq[t].attempt].promoted = TRUE]
  /\ strayed' = IF Held(attempt[lreq[t].attempt]) THEN strayed ELSE strayed \cup {lreq[t].attempt}
  /\ Finishes(t) /\ UNCHANGED <<concept, item>>

\* The attempt keeps its mark: its item cannot be deleted any more, though the refusal says "withdraw
\* promoted evidence before deleting".
invalidate_mastery_evidence(m) ==
  /\ Held(proof[m]) /\ proof' = [proof EXCEPT ![m].at = "invalidated"]
  /\ UNCHANGED <<concept, item, attempt, lreq, strayed>>

drop_item_read(t, i) ==
  /\ Held(item[i]) /\ \A a \in Of(i) : ~attempt[a].promoted
  /\ Begins(t, [op |-> "drop item", item |-> i, attempts |-> Of(i)])
  /\ UNCHANGED <<concept, item, attempt, proof, strayed>>

\* Only the attempts that were read go with it.
delete_practice(t) ==
  /\ lreq[t].op = "drop item"
  /\ item' = Removed(item, {lreq[t].item}) /\ attempt' = Removed(attempt, lreq[t].attempts)
  /\ strayed' = strayed \cup {a \in Orphaned(lreq[t].attempts, {}) : attempt[a].promoted}
  /\ Finishes(t) /\ UNCHANGED <<concept, proof>>

\* A row is gone, the database stays busy or the process has ended.
learn_refused(t) == lreq[t] # Waiting /\ Finishes(t) /\ UNCHANGED <<concept, item, attempt, proof, strayed>>

LearnNext ==
  \/ \E c \in Concepts : create_concept(c) \/ update_mastery(c) \/ archive_concept(c)
  \/ \E i \in Items : create_practice_item(i) \/ update_practice(i)
  \/ \E m \in Proofs : invalidate_mastery_evidence(m)
  \/ \E t \in LearnThreads :
       \/ \E c \in Concepts : drop_concept_read(t, c)
       \/ \E i \in Items : drop_item_read(t, i) \/ \E a \in Attempts : try_read(t, i, a)
       \/ \E a \in Attempts : attempt_read(t, a)
       \/ record_practice_attempt(t) \/ promote_attempt_to_mastery_evidence(t)
       \/ delete_practice(t) \/ delete_concept(t) \/ learn_refused(t)

LearnSpec == LearnInit /\ [][LearnNext]_learnvars

\* Evidence of mastery keeps the attempt it was made of, and the attempt knows of it, invalidated or not,
\* unless the item was moved to a concept that was deleted, or a deletion had looked before the promotion
\* (routes/learning_assets.py: delete_practice, "Withdraw promoted evidence before deleting").
EvidenceHasAttempt ==
  \A m \in Proofs : Held(proof[m]) /\ proof[m].attempt \notin strayed =>
    Held(attempt[proof[m].attempt]) /\ attempt[proof[m].attempt].promoted
=============================================================================
