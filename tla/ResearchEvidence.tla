--------------------------- MODULE ResearchEvidence ---------------------------
(***************************************************************************)
(* Sources, the evidence taken from them and the claims that rest on the   *)
(* evidence (pg_api/routes/research.py, pg_api/source_dependencies.py).    *)
(* What is published from claims, and the notices about them, is in        *)
(* Publications.                                                           *)
(*                                                                         *)
(* Handlers run in parallel threads.  SQLite takes its write lock at a     *)
(* handler's first flush, so a handler is its reads and then one commit;   *)
(* the commit writes only the columns whose value differs from the one     *)
(* that was read, and fails if a row it updates is gone.  An invalidation  *)
(* changes its source before it looks for dependents: that search belongs  *)
(* to its commit.  A deletion has nothing to flush until a search finds a  *)
(* row that it changes: up to there its searches are steps of their own.   *)
(*                                                                         *)
(* Versions of a claim are counted by their rows; the number in the column *)
(* may be drawn twice by revisions that overlap, and decides nothing.      *)
(***************************************************************************)
EXTENDS Naturals, FiniteSets

CONSTANTS
  Sources, Evidences, Claims,
  SourceOf,        \* evidence -> the source it was taken from
  ResearchThreads, \* request threads
  MaxVersions      \* versions of one claim (bound)

ASSUME ResearchAssumption == SourceOf \in [Evidences -> Sources] /\ MaxVersions \in Nat \ {0}

VARIABLES
  source_row, \* source -> its state; ids are not used again
  evidence,   \* evidence -> its state
  claim,      \* claim -> current version, what supports it, what any version cites, verified
  req,        \* thread -> the request it handles: what it has read
  overtaken   \* claims a handler changed after what it had read was no longer so, or that were
              \* verified while a source they rest on was being deleted

researchvars == <<source_row, evidence, claim, req, overtaken>>

\* A source that is only a summary (ai_summary_only) is not relied on; its verification clears the mark.
SourceStates == {"absent", "unverified", "verified", "gone"}
EvidenceStates == {"absent", "unverified", "verified", "gone"}
Claim == [version : 0 .. MaxVersions, support : SUBSET Evidences, cited : SUBSET Evidences, verified : BOOLEAN]
NoClaim == [version |-> 0, support |-> {}, cited |-> {}, verified |-> FALSE]
Idle == [op |-> "idle"]

\* What a deletion searches next; "locked": it holds the write lock before it searches the claims.
DeleteSteps == {"evidence", "locked", "claims", "versions", "dependents", "derivatives", "rows"}

\* Of a deletion: the evidence it has found, claims it has seen verified, claims that cite what it
\* found, and (known to nobody but this model) claims that were verified since its first search.
ResearchRequests ==
  {Idle} \cup [op : {"evidence"}, ev : Evidences, verified : BOOLEAN]
         \cup [op : {"verify"}, claim : Claims, seen : BOOLEAN]
         \cup [op : {"revise"}, claim : Claims, support : SUBSET Evidences, cited : SUBSET Evidences, seen : BOOLEAN]
         \cup [op : {"invalidate"}, src : Sources, seen : BOOLEAN]
         \cup [op : {"delete"}, at : DeleteSteps, src : Sources, found : SUBSET Evidences,
               seen : SUBSET Claims, cites : SUBSET Claims, since : SUBSET Claims]
         \cup [op : {"emit"}, to : {"content", "book"}, claims : SUBSET Claims]

ResearchTypeOK == /\ source_row \in [Sources -> SourceStates] /\ evidence \in [Evidences -> EvidenceStates]
                  /\ claim \in [Claims -> Claim] /\ overtaken \subseteq Claims

ResearchInit == /\ source_row = [s \in Sources |-> "absent"] /\ evidence = [e \in Evidences |-> "absent"]
                /\ claim = [c \in Claims |-> NoClaim]
                /\ req = [t \in ResearchThreads |-> Idle] /\ overtaken = {}

Stored(s) == source_row[s] \in {"unverified", "verified"}
Recorded == {e \in Evidences : evidence[e] \in {"unverified", "verified"}}
Basis(c) == /\ claim[c].support # {}
            /\ \A e \in claim[c].support : evidence[e] = "verified" /\ source_row[SourceOf[e]] = "verified"

Reads(t, r) == req[t] = Idle /\ req' = [req EXCEPT ![t] = r]
Done(t) == req' = [req EXCEPT ![t] = Idle]
\* After its commit a handler publishes what has changed; the subscribers run in the same thread.
Emits(t, cs) == req' = [req EXCEPT ![t] = IF cs = {} THEN Idle ELSE [op |-> "emit", to |-> "content", claims |-> cs]]

-----------------------------------------------------------------------------
(* Sources and evidence. *)

\* A source is entered, uploaded or imported by a research run: never verified.
create_source(s) == /\ source_row[s] = "absent" /\ source_row' = [source_row EXCEPT ![s] = "unverified"]
                    /\ UNCHANGED <<evidence, claim, req, overtaken>>

verify_source(s) == /\ Stored(s) /\ source_row' = [source_row EXCEPT ![s] = "verified"]
                    /\ UNCHANGED <<evidence, claim, req, overtaken>>

evidence_read(t, e) ==
  /\ evidence[e] = "absent" /\ Stored(SourceOf[e])
  /\ \A u \in ResearchThreads : req[u].op = "evidence" => req[u].ev # e
  /\ \E v \in BOOLEAN : /\ v => source_row[SourceOf[e]] = "verified"
                        /\ Reads(t, [op |-> "evidence", ev |-> e, verified |-> v])
  /\ UNCHANGED <<source_row, evidence, claim, overtaken>>

\* Nothing ties the row to its source: it is stored even if the source has been deleted.
create_evidence(t) ==
  /\ req[t].op = "evidence"
  /\ evidence' = [evidence EXCEPT ![req[t].ev] = IF req[t].verified THEN "verified" ELSE "unverified"]
  /\ Done(t) /\ UNCHANGED <<source_row, claim, overtaken>>

-----------------------------------------------------------------------------
(* Claims. *)

create_claim(c) ==
  /\ claim[c].version = 0
  /\ \E cited \in SUBSET Recorded : \E support \in SUBSET cited :
       claim' = [claim EXCEPT ![c] = [version |-> 1, support |-> support, cited |-> cited, verified |-> FALSE]]
  /\ UNCHANGED <<source_row, evidence, req, overtaken>>

verify_read(t, c) ==
  /\ claim[c].version > 0 /\ Basis(c)
  /\ Reads(t, [op |-> "verify", claim |-> c, seen |-> claim[c].verified])
  /\ UNCHANGED <<source_row, evidence, claim, overtaken>>

\* Deletions that have begun to search are told here only, for `since`.
Verifies(t, c) ==
  req' = [u \in ResearchThreads |->
            IF u = t THEN Idle
            ELSE IF req[u].op = "delete" /\ req[u].at # "evidence" /\ ~req[t].seen THEN [req[u] EXCEPT !.since = @ \cup {c}]
            ELSE req[u]]

verify_claim(t) ==
  /\ req[t].op = "verify"
  /\ LET c == req[t].claim IN
       /\ claim' = [claim EXCEPT ![c].verified = @ \/ ~req[t].seen]
       /\ overtaken' = IF Basis(c) THEN overtaken ELSE overtaken \cup {c}
  /\ Verifies(t, req[t].claim) /\ UNCHANGED <<source_row, evidence>>

revise_read(t, c) ==
  /\ claim[c].version \in 1 .. MaxVersions - 1
  /\ \E cited \in SUBSET Recorded : \E support \in SUBSET cited :
       Reads(t, [op |-> "revise", claim |-> c, support |-> support, cited |-> cited, seen |-> claim[c].verified])
  /\ UNCHANGED <<source_row, evidence, claim, overtaken>>

Revised(t, verified) ==
  LET c == req[t].claim IN
  claim' = [claim EXCEPT ![c] = [version |-> @.version + 1, support |-> req[t].support,
                                 cited |-> @.cited \cup req[t].cited, verified |-> verified]]

\* For a mutant: the verification stays with the claim.
revise_keeping(t) ==
  /\ req[t].op = "revise" /\ claim[req[t].claim].version < MaxVersions
  /\ Revised(t, claim[req[t].claim].verified)
  /\ Emits(t, {req[t].claim}) /\ UNCHANGED <<source_row, evidence, overtaken>>

\* "unverified" is written unless it was so when it was read.
revise_claim(t) ==
  /\ req[t].op = "revise" /\ claim[req[t].claim].version < MaxVersions
  /\ LET kept == ~req[t].seen /\ claim[req[t].claim].verified IN
       /\ Revised(t, kept)
       /\ overtaken' = IF kept THEN overtaken \cup {req[t].claim} ELSE overtaken \ {req[t].claim}
  /\ Emits(t, {req[t].claim}) /\ UNCHANGED <<source_row, evidence>>

-----------------------------------------------------------------------------
(* Invalidation and deletion of a source. *)

EvidenceOf(s) == {e \in Recorded : SourceOf[e] = s}
citing(es) == {c \in Claims : claim[c].cited \cap es # {}}
affected_claims(s) == citing(EvidenceOf(s))
Unverified(cs) == [c \in Claims |-> IF c \in cs THEN [claim[c] EXCEPT !.verified = FALSE] ELSE claim[c]]

source_read(t, s) ==
  /\ Stored(s)
  /\ \/ Reads(t, [op |-> "invalidate", src |-> s, seen |-> source_row[s] = "verified"])
     \/ Reads(t, [op |-> "delete", at |-> "evidence", src |-> s, found |-> {}, seen |-> {}, cites |-> {}, since |-> {}])
  /\ UNCHANGED <<source_row, evidence, claim, overtaken>>

\* The claims of every version are unverified: what an old version cites counts.
invalidate_rows(t) ==
  /\ req[t].op = "invalidate" /\ Stored(req[t].src)
  /\ source_row' = IF req[t].seen THEN [source_row EXCEPT ![req[t].src] = "unverified"] ELSE source_row
  /\ evidence' = [e \in Evidences |-> IF e \in EvidenceOf(req[t].src) THEN "unverified" ELSE evidence[e]]
  /\ claim' = Unverified(affected_claims(req[t].src))
  /\ overtaken' = overtaken \ affected_claims(req[t].src)
  /\ Emits(t, affected_claims(req[t].src))

Deleting(t, at) == req[t].op = "delete" /\ req[t].at = at
Searches(t, r) == req' = [req EXCEPT ![t] = r] /\ UNCHANGED <<source_row, evidence, claim, overtaken>>

\* Evidence that is verified is changed, so the next search takes the lock; of other evidence the
\* state may have to be changed or not.
find_evidence(t) ==
  /\ Deleting(t, "evidence")
  /\ LET es == EvidenceOf(req[t].src) IN
     \E at \in {"locked", "claims"} :
       /\ at = "locked" => es # {}
       /\ at = "claims" => \A e \in es : evidence[e] # "verified"
       /\ Searches(t, [req[t] EXCEPT !.at = at, !.found = es])

find_claims(t) ==
  /\ Deleting(t, "claims")
  /\ Searches(t, [req[t] EXCEPT !.at = "versions", !.seen = {c \in Claims : claim[c].verified}])

find_versions(t) ==
  /\ Deleting(t, "versions")
  /\ LET cs == citing(req[t].found) IN
       Searches(t, [req[t] EXCEPT !.at = "dependents", !.found = {}, !.seen = @ \cap cs, !.cites = cs])

\* The evidence to delete is searched for again.
find_derivatives(t) ==
  /\ Deleting(t, "derivatives")
  /\ Searches(t, [req[t] EXCEPT !.at = "rows", !.found = EvidenceOf(req[t].src)])

\* The commit of a deletion, which has found evidence `es` to delete, claims `cs` to unverify and
\* claims `cites` to tell of; a source that is gone by then is no error.
delete_rows(t, es, cs, cites) ==
  LET s == req[t].src
  IN /\ source_row' = [source_row EXCEPT ![s] = "gone"]
     /\ evidence' = [e \in Evidences |-> IF e \in es THEN "gone" ELSE evidence[e]]
     /\ claim' = Unverified(cs)
     /\ overtaken' = (overtaken \cup {c \in req[t].since : \E e \in claim[c].support : SourceOf[e] = s}) \ cs
     /\ Emits(t, cites)

\* The row was deleted meanwhile, or the database stays busy: the commit is refused.
refused(t) == /\ req[t].op \in {"evidence", "verify", "revise", "invalidate", "delete"}
              /\ Done(t) /\ UNCHANGED <<source_row, evidence, claim, overtaken>>

ResearchNext ==
  \/ \E s \in Sources : create_source(s) \/ verify_source(s)
  \/ \E c \in Claims : create_claim(c)
  \/ \E t \in ResearchThreads :
       \/ \E e \in Evidences : evidence_read(t, e)
       \/ \E c \in Claims : verify_read(t, c) \/ revise_read(t, c)
       \/ \E s \in Sources : source_read(t, s)
       \/ find_evidence(t) \/ find_claims(t) \/ find_versions(t) \/ find_derivatives(t)
       \/ create_evidence(t) \/ verify_claim(t) \/ revise_claim(t) \/ refused(t)

-----------------------------------------------------------------------------
(* Properties. *)

\* A claim that counts as human-verified rests, in its current version, on evidence that is verified
\* and whose source still is, whatever was revised, invalidated or deleted, except a claim that
\* was committed over such a change, or was verified between the first search of a deletion and its
\* commit (routes/research.py: revise_claim, "Verification belongs to the current version";
\* invalidate_source, "verification is never sticky"; delete_source).
VerifiedHasBasis == \A c \in Claims \ overtaken : claim[c].verified => Basis(c)
=============================================================================
