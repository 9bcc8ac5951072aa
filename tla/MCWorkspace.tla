----------------------------- MODULE MCWorkspace ------------------------------
(***************************************************************************)
(* Model checking of the workspace in one run: claims, packs, books,       *)
(* research runs, areas with their questions, practice, writing.  Only the *)
(* first three share state, so the initial state chooses a part and the    *)
(* others rest.  What follows a race that an invariant leaves out is not   *)
(* explored, nor deletions of sources that overlap.                        *)
(***************************************************************************)
EXTENDS Publications, ResearchRuns, InterestAreas, LearningAssets, CoWriter, TLC

CONSTANTS Focus, s1, s2, e1, e2, r1, r2, w2

VARIABLE focus

mcvars == <<pubvars, runvars, areavars, learnvars, writevars, focus>>

MCSourceOf == [e \in {e1, e2} |-> IF e = e1 THEN s1 ELSE s2]

\* A source is exchanged with its evidence.
SourcesSwapped == (s1 :> s2) @@ (s2 :> s1) @@ (e1 :> e2) @@ (e2 :> e1)
WorkspaceSymmetry == Permutations({r1, r2}) \cup {p @@ SourcesSwapped : p \in Permutations({r1, r2})}

MCInit == focus \in Focus /\ PublicationInit /\ RunInit /\ AreaInit /\ LearnInit /\ WriteInit

NoPackYet == pack' = [p \in Packs |-> NoPack] /\ \A t \in ResearchThreads : req'[t].op # "build"
NoBookYet == book' = [b \in Books |-> NoBook]

OneSource == Cardinality({s \in Sources : source_row'[s] # "absent"}) <= 1

\* A notice that finds nothing to change is handled at once.
Idly(t) == /\ req[t].op = "emit"
           /\ \/ focus = "claims"
              \/ focus = "packs" /\ req[t].to = "book"
              \/ focus = "books" /\ req[t].to = "content"

\* A projection depends on nothing that the claims do, and is explored where there are none.
Projected == \/ \E t \in ResearchThreads : req'[t].op = "project"
             \/ \E b \in Books : book'[b].projection # "local_only"

Part ==
  /\ PublicationNext
  /\ Cardinality({t \in ResearchThreads : req'[t].op = "delete"}) <= 1
  /\ \A t \in ResearchThreads : Idly(t) => req'[t] # req[t] /\ missed' = missed
  /\ \/ focus = "claims" /\ NoPackYet /\ NoBookYet
     \/ focus = "packs" /\ NoBookYet /\ OneSource
     \/ /\ focus = "books" /\ NoPackYet /\ OneSource
        /\ Projected => \A c \in Claims : claim'[c].version = 0

MCNext ==
  /\ focus' = focus
  /\ \/ /\ focus \in {"claims", "packs", "books"} /\ overtaken = {} /\ missed = {} /\ Part
        /\ UNCHANGED <<runvars, areavars, learnvars, writevars>>
     \/ focus = "research" /\ RunNext /\ UNCHANGED <<pubvars, areavars, learnvars, writevars>>
     \/ /\ focus = "questions" /\ AreaNext /\ area'[DefaultArea].capability = "on" /\ topic'[w2].at # "archived"
        /\ topic'[w2].at # "absent" => \A k \in Topics : topic'[k].at # "absent"
        /\ \A a \in Areas : area'[a].at = "absent" \/ area'[a].capability # "unset"
        /\ (\E k \in Topics : topic'[k].at = "archived") => \A a \in Areas : a = DefaultArea \/ area'[a].at = "absent"
        /\ UNCHANGED <<pubvars, runvars, learnvars, writevars>>
     \/ /\ focus = "learning" /\ strayed = {} /\ LearnNext
        /\ UNCHANGED <<pubvars, runvars, areavars, writevars>>
     \/ /\ focus = "writing" /\ beaten = {} /\ WriteNext
        /\ UNCHANGED <<pubvars, runvars, areavars, learnvars>>

MCSpec == MCInit /\ [][MCNext]_mcvars

WorkspaceTypeOK == PublicationTypeOK /\ RunTypeOK /\ AreaTypeOK /\ LearnTypeOK /\ WriteTypeOK
=============================================================================
