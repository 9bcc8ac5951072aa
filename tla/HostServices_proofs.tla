-------------------------- MODULE HostServices_proofs --------------------------
(***************************************************************************)
(* Theorems about the knowledge bases and the plugins of the host, for any *)
(* number of them, of sources and of request threads.  Each section has    *)
(* the invariant of one component: what must be known of a request that is *)
(* under way for the property to survive its next step.                    *)
(***************************************************************************)
EXTENDS MCHostServices, Maintenance_proofs

-----------------------------------------------------------------------------
(* KnowledgeIngestion. *)

LEMMA NoTaskType == AnyKB \in KBs /\ AnySource \in KSources /\ NoTask \in Task /\ NoCall \in Call
<1>1. AnyKB \in KBs
  BY KnowledgeAssumption DEF AnyKB
<1>2. AnySource \in KSources
  BY KnowledgeAssumption DEF AnySource
<1>3. NoTask \in Task
  BY <1>1, <1>2 DEF NoTask, Task, Origins
<1>4. QED
  BY <1>1, <1>2, <1>3 DEF NoCall, Call

\* A base that is stored has a row of its own; the others are absent or gone.
LEMMA StoredBase ==
  ASSUME KnowledgeTypeOK, NEW k \in KBs, Stored(k)
  PROVE  kb[k] \in Base /\ kb[k] # NoBase /\ resolve(k) \in Snapshot
<1>1. NoBase.status = "absent" /\ GoneBase.status = "deleted"
  BY DEF NoBase, GoneBase
<1>2. kb[k] \in Base \cup {NoBase, GoneBase}
  BY DEF KnowledgeTypeOK
<1>3. kb[k].status \in {"local_only", "ready"}
  BY DEF Stored
<1>4. kb[k] \in Base
  BY <1>1, <1>2, <1>3
<1>5. kb[k] # NoBase
  BY <1>1, <1>3
<1>6. resolve(k) \in Snapshot
  BY <1>4 DEF resolve, Snapshot, Base
<1>7. QED
  BY <1>4, <1>5, <1>6

\* What an engine answers, when it does not refuse, is in the index it was asked for, whatever the
\* upstream claims.
LEMMA AnswerInIndex ==
  ASSUME NEW engine, NEW index, NEW hits, retrieve_from(engine, index, hits) # Rejected
  PROVE  retrieve_from(engine, index, hits) \subseteq index
<1>1. CASE engine \in NativeEngines
  BY <1>1 DEF retrieve_from, native_search
<1>2. CASE engine \notin NativeEngines
  BY <1>2 DEF retrieve_from
<1>3. QED
  BY <1>1, <1>2

\* What a coroutine or a request under way has read is what the later sessions may write.
TasksOK ==
  /\ loop.at # "idle" => loop.provider \in Engines /\ kb[loop.kb] # NoBase
  /\ \A t \in KnowThreads : pool[t].at \in {"link", "update"} => pool[t].provider \in Engines

\* An index of the cache is the one of its fingerprint, and a search is on the index of the snapshot.
CacheOK ==
  /\ \A c \in cache : c.index = c.fp.sources
  /\ loop.at = "search" => loop.index = loop.snap.sources
  /\ loop.at = "persist" => loop.answer \subseteq loop.snap.sources

\* Ready sources are of a stored base, and unless a change of provider has overlapped: a coroutine
\* still has the provider of its base, and while a provider is being changed nothing is ready.
BoundOK ==
  /\ \A k \in KBs : Bound(k) => Stored(k)
  /\ ~overtaken =>
       /\ loop.at # "idle" /\ Stored(loop.kb) => loop.provider = kb[loop.kb].provider
       /\ \A t \in KnowThreads : pool[t].at = "update" => ~Bound(pool[t].kb)
       /\ \A k \in KBs, s \in KSources :
            mapping[<<k, s>>].status = "ready" => mapping[<<k, s>>].provider = kb[k].provider

KnowledgeInv == KnowledgeTypeOK /\ TasksOK /\ CacheOK /\ BoundOK

LEMMA KnowledgeInitInv == KnowledgeInit => KnowledgeInv
<1> SUFFICES ASSUME KnowledgeInit PROVE KnowledgeInv
  OBVIOUS
<1> USE DEF KnowledgeInit
<1>1. KnowledgeTypeOK
  BY NoTaskType DEF KnowledgeTypeOK
<1>2. TasksOK
  BY DEF TasksOK, NoTask, NoCall
<1>3. CacheOK
  BY DEF CacheOK, NoTask
<1>4. BoundOK
  <2>1. \A k \in KBs : ~Bound(k)
    BY DEF Bound, Pairs, NoMapping
  <2>2. QED
    BY <2>1 DEF BoundOK, Bound, NoTask, NoCall
<1>5. QED
  BY <1>1, <1>2, <1>3, <1>4 DEF KnowledgeInv

\* The index found or built for a snapshot is the one of the snapshot.
LEMMA BuiltForSnapshot ==
  ASSUME KnowledgeTypeOK, CacheOK, NEW k \in KBs, NEW snap \in Snapshot
  PROVE  /\ built_index(k, snap) = snap.sources /\ built_index(k, snap) \subseteq KSources
         /\ with_built(k, snap) \subseteq Built
         /\ \A c \in with_built(k, snap) : c.index = c.fp.sources
<1>1. snap.sources \subseteq KSources /\ snap.provider \in Engines
  BY DEF Snapshot
<1>2. CASE \E c \in cache : same_key(c, k, snap)
  <2>1. with_built(k, snap) = cache
    BY <1>2 DEF with_built
  <2>2. PICK found : found = CHOOSE c \in cache : same_key(c, k, snap)
    OBVIOUS
  <2>3. found \in cache /\ same_key(found, k, snap)
    BY <1>2, <2>2
  <2>4. built_index(k, snap) = found.index
    BY <1>2, <2>2 DEF built_index
  <2>5. found.index = snap.sources
    BY <2>3 DEF CacheOK, same_key
  <2>6. QED
    BY <1>1, <2>1, <2>4, <2>5 DEF CacheOK, KnowledgeTypeOK
<1>3. CASE ~\E c \in cache : same_key(c, k, snap)
  <2>1. built_index(k, snap) = snap.sources
    BY <1>3 DEF built_index
  <2>2. PICK entry : entry = [kb |-> k, engine |-> snap.provider, fp |-> snap, index |-> snap.sources]
    OBVIOUS
  <2>3. entry \in Built /\ entry.index = entry.fp.sources
    BY <1>1, <2>2 DEF Built
  <2>4. with_built(k, snap) = {c \in cache : ~(c.kb = k /\ c.engine = snap.provider)} \cup {entry}
    BY <1>3, <2>2 DEF with_built
  <2>5. QED
    BY <1>1, <2>1, <2>3, <2>4 DEF CacheOK, KnowledgeTypeOK
<1>4. QED
  BY <1>2, <1>3

\* What a build is asked for is a snapshot: its engine can be selected.
LEMMA BuildSnapshot ==
  ASSUME KnowledgeTypeOK, NEW snap, Selectable(snap.provider),
         snap = IF loop.op = "rebuild" /\ Stored(loop.kb) THEN resolve(loop.kb) ELSE loop.snap
  PROVE  snap \in Snapshot
<1>1. loop.kb \in KBs /\ loop.snap \in Snapshot \cup {NoSnapshot}
  BY DEF KnowledgeTypeOK, Task
<1>2. snap.provider \in Engines
  BY KnowledgeAssumption DEF Selectable, Engines
<1>3. CASE snap = NoSnapshot
  <2>1. snap = [provider |-> "", consent |-> FALSE, sources |-> {}]
    BY <1>3 DEF NoSnapshot
  <2>2. snap.provider = ""
    <3>1. NoSnapshot.provider = ""
      BY DEF NoSnapshot
    <3>2. QED
      BY <1>3, <3>1, Zenon
  <2>3. "" \in Engines
    BY <1>2, <2>2, Zenon
  <2>4. [provider |-> "", consent |-> FALSE, sources |-> {}] \in Snapshot
    BY <2>3 DEF Snapshot
  <2>5. QED
    BY <2>1, <2>4
<1>4. CASE snap # NoSnapshot
  BY <1>1, <1>4, StoredBase
<1>5. QED
  BY <1>3, <1>4

LEMMA KnowledgeStepType ==
  KnowledgeTypeOK /\ TasksOK /\ CacheOK /\ [KnowledgeNext]_knowvars => KnowledgeTypeOK'
<1> SUFFICES ASSUME KnowledgeTypeOK, TasksOK, CacheOK, [KnowledgeNext]_knowvars PROVE KnowledgeTypeOK'
  OBVIOUS
<1> USE NoTaskType DEF KnowledgeTypeOK
<1>1. \A k \in KBs, s \in KSources : <<k, s>> \in Pairs
  BY DEF Pairs
<1>2. \A at \in {"idle", "resolve", "build", "search", "persist", "parse", "ready", "begin", "finish"} :
         Step(at) => loop' \in Task
  BY ZenonT(60) DEF Step, Task
<1>3. ASSUME NEW k \in KBs, retrieve_read(k) PROVE KnowledgeTypeOK'
  <2>1. kb[k].provider \in Engines
    BY <1>3, StoredBase DEF retrieve_read, Base
  <2>2. loop' \in Task
    BY <1>3, <2>1 DEF retrieve_read, NoTask, Task, Origins
  <2>3. QED
    BY <1>3, <2>2 DEF retrieve_read
<1>4. ASSUME NEW k \in KBs, rebuild_read(k) PROVE KnowledgeTypeOK'
  <2>1. kb[k].provider \in Engines
    BY <1>4, StoredBase DEF rebuild_read, Base
  <2>2. loop' \in Task
    BY <1>4, <2>1 DEF rebuild_read, NoTask, Task, Origins
  <2>3. QED
    BY <1>4, <2>2 DEF rebuild_read
<1>5. ASSUME NEW k \in KBs, NEW s \in KSources, sync_read(k, s) PROVE KnowledgeTypeOK'
  <2>1. kb[k].provider \in Engines
    BY <1>5, StoredBase DEF sync_read, Base
  <2>2. loop' \in Task
    BY <1>5, <2>1, ZenonT(60) DEF sync_read, NoTask, Task, Origins
  <2>3. [status |-> "linked", provider |-> kb[k].provider] \in Mapping
    BY <2>1 DEF Mapping
  <2>4. mapping' \in [Pairs -> Mapping \cup {NoMapping}]
    BY <1>1, <1>5, <2>3 DEF sync_read
  <2>5. QED
    BY <1>5, <2>2, <2>4 DEF sync_read
<1>6. CASE sync_parse
  BY <1>2, <1>6 DEF sync_parse, Ends
<1>7. CASE sync_commit
  <2>1. loop.kb \in KBs /\ loop.src \in KSources /\ loop' \in Task
    BY <1>7 DEF sync_commit, Ends, Task
  <2>2. loop.provider \in Engines
    BY <1>7 DEF sync_commit, TasksOK
  <2>3. CASE Stored(loop.kb) /\ Mapped(loop.kb, loop.src)
    <3>1. [state |-> "completed", sources |-> {loop.src}] \in Run
      BY <2>1 DEF Run
    <3>2. [status |-> "ready", provider |-> loop.provider] \in Mapping
      BY <2>2 DEF Mapping
    <3>3. [kb[loop.kb] EXCEPT !.status = "ready"] \in Base
      BY <2>1, <2>3, StoredBase DEF Base
    <3>4. kb' = [kb EXCEPT ![loop.kb] = [kb[loop.kb] EXCEPT !.status = "ready"]]
      BY <1>7, <2>3 DEF sync_commit
    <3>5. kb' \in [KBs -> Base \cup {NoBase, GoneBase}]
      BY <2>1, <3>3, <3>4
    <3>6. ingestion' \in [KBs -> Run \cup {NoRun}]
      BY <1>7, <2>1, <2>3, <3>1 DEF sync_commit
    <3>7. mapping' \in [Pairs -> Mapping \cup {NoMapping}]
      BY <1>1, <1>7, <2>1, <2>3, <3>2 DEF sync_commit
    <3>8. QED
      BY <1>7, <2>1, <2>3, <3>5, <3>6, <3>7 DEF sync_commit, invalidated
  <2>4. CASE ~(Stored(loop.kb) /\ Mapped(loop.kb, loop.src))
    BY <1>7, <2>1, <2>4 DEF sync_commit
  <2>5. QED
    BY <2>3, <2>4
<1>8. CASE resolve_snapshot
  <2>1. loop.kb \in KBs
    BY DEF Task
  <2>2. CASE Ends
    BY <1>8, <2>2 DEF resolve_snapshot, Ends
  <2>3. CASE ~Ends
    <3>1. Stored(loop.kb)
      BY <1>8, <2>3 DEF resolve_snapshot, Ends
    <3>2. resolve(loop.kb) \in Snapshot
      BY <2>1, <3>1, StoredBase
    <3>3. loop' = [loop EXCEPT !.snap = resolve(loop.kb), !.at = IF loop.op = "rebuild" THEN "begin" ELSE "build"]
      BY <1>8, <2>3 DEF resolve_snapshot, Ends
    <3>4. loop' \in Task
      BY <3>2, <3>3 DEF Task
    <3>5. QED
      BY <1>8, <3>4 DEF resolve_snapshot
  <2>4. QED
    BY <2>2, <2>3
<1>9. CASE rebuild_begin
  <2>1. loop' \in Task
    BY <1>2, <1>9 DEF rebuild_begin
  <2>2. loop.kb \in KBs /\ loop.snap.sources \subseteq KSources
    <3>1. NoSnapshot.sources = {} /\ \A snap \in Snapshot : snap.sources \subseteq KSources
      BY DEF NoSnapshot, Snapshot
    <3>2. loop.kb \in KBs /\ loop.snap \in Snapshot \cup {NoSnapshot}
      BY DEF Task
    <3>3. QED
      BY <3>1, <3>2
  <2>3. [state |-> "running", sources |-> loop.snap.sources] \in Run
    BY <2>2 DEF Run
  <2>4. QED
    BY <1>9, <2>1, <2>2, <2>3 DEF rebuild_begin, invalidated
<1>10. CASE build
  <2>1. PICK snap : snap = IF loop.op = "rebuild" /\ Stored(loop.kb) THEN resolve(loop.kb) ELSE loop.snap
    OBVIOUS
  <2>2. loop.kb \in KBs
    BY DEF Task
  <2>3. ASSUME Selectable(snap.provider) PROVE snap \in Snapshot
    BY <2>1, <2>3, BuildSnapshot
  <2>4. CASE /\ Selectable(snap.provider) /\ cache' = with_built(loop.kb, snap)
             /\ loop' = [loop EXCEPT !.at = IF loop.op = "rebuild" THEN "finish" ELSE "search",
                                     !.index = IF loop.op = "rebuild" THEN {} ELSE built_index(loop.kb, snap)]
             /\ UNCHANGED ingestion
    <3>1. with_built(loop.kb, snap) \subseteq Built /\ built_index(loop.kb, snap) \subseteq KSources
      BY <2>2, <2>3, <2>4, BuiltForSnapshot
    <3>2. loop' \in Task
      BY <2>4, <3>1 DEF Task
    <3>3. QED
      BY <1>10, <2>4, <3>1, <3>2 DEF build
  <2>5. CASE /\ Ends /\ UNCHANGED cache
             /\ ingestion' = IF loop.op = "rebuild" /\ ingestion[loop.kb] # NoRun
                             THEN [ingestion EXCEPT ![loop.kb].state = "failed"] ELSE ingestion
    <3>1. ASSUME ingestion[loop.kb] # NoRun
          PROVE  [ingestion[loop.kb] EXCEPT !.state = "failed"] \in Run
      BY <2>2, <3>1 DEF Run
    <3>2. ingestion' \in [KBs -> Run \cup {NoRun}]
      BY <2>2, <2>5, <3>1
    <3>3. QED
      BY <1>10, <2>5, <3>2 DEF build, Ends
  <2>6. QED
    BY <1>10, <2>1, <2>4, <2>5 DEF build
<1>11. CASE rebuild_finish
  <2>1. loop.kb \in KBs /\ loop' \in Task
    BY <1>11 DEF rebuild_finish, Ends, Task
  <2>2. loop.provider \in Engines
    BY <1>11 DEF rebuild_finish, TasksOK
  <2>3. CASE Stored(loop.kb) /\ ingestion[loop.kb] # NoRun
    <3>1. [ingestion[loop.kb] EXCEPT !.state = "completed"] \in Run
      BY <2>1, <2>3 DEF Run
    <3>2. [status |-> "ready", provider |-> loop.provider] \in Mapping
      BY <2>2 DEF Mapping
    <3>3. [kb[loop.kb] EXCEPT !.status = "ready"] \in Base
      BY <2>1, <2>3, StoredBase DEF Base
    <3>4. /\ kb' = [kb EXCEPT ![loop.kb] = [kb[loop.kb] EXCEPT !.status = "ready"]]
          /\ ingestion' = [ingestion EXCEPT ![loop.kb] = [ingestion[loop.kb] EXCEPT !.state = "completed"]]
      BY <1>11, <2>3 DEF rebuild_finish
    <3>5. kb' \in [KBs -> Base \cup {NoBase, GoneBase}] /\ ingestion' \in [KBs -> Run \cup {NoRun}]
      BY <2>1, <3>1, <3>3, <3>4
    <3>6. mapping' = [x \in Pairs |->
                        IF x[1] = loop.kb /\ x[2] \in loop.snap.sources /\ mapping[x] # NoMapping
                        THEN [status |-> "ready", provider |-> loop.provider] ELSE mapping[x]]
      BY <1>11, <2>3 DEF rebuild_finish
    <3>7. mapping' \in [Pairs -> Mapping \cup {NoMapping}]
      BY <3>2, <3>6
    <3>8. QED
      BY <1>11, <2>1, <2>3, <3>5, <3>7 DEF rebuild_finish
  <2>4. CASE ~(Stored(loop.kb) /\ ingestion[loop.kb] # NoRun)
    BY <1>11, <2>1, <2>4 DEF rebuild_finish
  <2>5. QED
    BY <2>3, <2>4
<1>12. CASE search
  <2>1. loop.index \subseteq KSources
    BY DEF Task
  <2>2. PICK hits \in SUBSET Origins :
          IF retrieve_from(loop.snap.provider, loop.index, hits) = Rejected THEN Ends
          ELSE loop' = [loop EXCEPT !.at = "persist", !.answer = retrieve_from(loop.snap.provider, loop.index, hits)]
    BY <1>12 DEF search
  <2>3. CASE Ends
    BY <1>12, <2>3 DEF search, Ends
  <2>4. CASE ~Ends
    <3>1. PICK found : found = retrieve_from(loop.snap.provider, loop.index, hits)
      OBVIOUS
    <3>2. found # Rejected /\ loop' = [loop EXCEPT !.at = "persist", !.answer = found]
      BY <2>2, <2>4, <3>1
    <3>3. found \subseteq Origins
      BY <2>1, <3>1, <3>2, AnswerInIndex DEF Origins
    <3>4. loop' \in Task
      BY <3>2, <3>3 DEF Task
    <3>5. QED
      BY <1>12, <3>4 DEF search
  <2>5. QED
    BY <2>3, <2>4
<1>13. CASE persist_candidates
  <2>1. loop.kb \in KBs
    BY DEF Task
  <2>2. QED
    BY <1>13, <2>1 DEF persist_candidates, Ends, Pairs
<1>14. ASSUME NEW k \in KBs, create_knowledge_base(k) PROVE KnowledgeTypeOK'
  BY <1>14, KnowledgeAssumption DEF create_knowledge_base, Base, Engines
<1>15. ASSUME NEW k \in KBs, confirm_egress(k) PROVE KnowledgeTypeOK'
  <2>1. [kb[k] EXCEPT !.consent = TRUE] \in Base
    BY <1>15, StoredBase DEF confirm_egress, Base
  <2>2. kb' = [kb EXCEPT ![k] = [kb[k] EXCEPT !.consent = TRUE]]
    BY <1>15 DEF confirm_egress
  <2>3. kb' \in [KBs -> Base \cup {NoBase, GoneBase}]
    BY <2>1, <2>2
  <2>4. QED
    BY <1>15, <2>3 DEF confirm_egress
<1>16. ASSUME NEW s \in KSources, upload_source_file(s) PROVE KnowledgeTypeOK'
  BY <1>16 DEF upload_source_file
<1>17. CASE ApiRestarts
  BY <1>17 DEF ApiRestarts
<1>18. ASSUME NEW t \in KnowThreads, NEW k \in KBs, delete_knowledge_base(t, k) PROVE KnowledgeTypeOK'
  <2>1. pool' \in [KnowThreads -> Call]
    BY <1>18 DEF delete_knowledge_base, Calls, Call
  <2>2. mapping' \in [Pairs -> Mapping \cup {NoMapping}] /\ candidates' \subseteq Pairs
    BY <1>18 DEF delete_knowledge_base
  <2>3. QED
    BY <1>18, <2>1, <2>2 DEF delete_knowledge_base
<1>19. ASSUME NEW t \in KnowThreads, NEW k \in KBs, NEW engine \in Engines, update_knowledge_base(t, k, engine)
       PROVE  KnowledgeTypeOK'
  BY <1>19 DEF update_knowledge_base, Calls, Call
<1>20. ASSUME NEW t \in KnowThreads, NEW k \in KBs, NEW s \in KSources, link_source(t, k, s)
       PROVE  KnowledgeTypeOK'
  <2>1. kb[k].provider \in Engines
    BY <1>20, StoredBase DEF link_source, Base
  <2>2. QED
    BY <1>20, <2>1 DEF link_source, Calls, Call
<1>21. ASSUME NEW t \in KnowThreads, NEW k \in KBs, NEW s \in KSources, unlink_source(t, k, s)
       PROVE  KnowledgeTypeOK'
  <2>1. PICK row : row = [kb[k] EXCEPT !.status = IF \E x \in KSources \ {s} : Mapped(k, x) THEN "ready" ELSE "local_only"]
    OBVIOUS
  <2>2. row \in Base
    BY <1>21, <2>1, StoredBase DEF unlink_source, Base
  <2>3. kb' = [kb EXCEPT ![k] = row]
    BY <1>21, <2>1 DEF unlink_source
  <2>4. kb' \in [KBs -> Base \cup {NoBase, GoneBase}]
    BY <2>2, <2>3
  <2>5. pool' \in [KnowThreads -> Call]
    BY <1>21 DEF unlink_source, Calls, Call
  <2>6. mapping' \in [Pairs -> Mapping \cup {NoMapping}]
    BY <1>1, <1>21 DEF unlink_source
  <2>7. QED
    BY <1>21, <2>4, <2>5, <2>6 DEF unlink_source
<1>22. ASSUME NEW t \in KnowThreads, NEW s \in KSources, delete_source(t, s) PROVE KnowledgeTypeOK'
  <2>1. pool' \in [KnowThreads -> Call]
    <3>1. PICK k \in KBs : Calls(t, "invalidate", k, s, "")
      BY <1>22 DEF delete_source
    <3>2. QED
      BY <3>1 DEF Calls, Call
  <2>2. mapping' \in [Pairs -> Mapping \cup {NoMapping}] /\ candidates' \subseteq Pairs
    BY <1>22 DEF delete_source
  <2>3. ASSUME NEW k \in KBs, s \in ingestion[k].sources
        PROVE  [ingestion[k] EXCEPT !.state = "failed"] \in Run
    BY <2>3 DEF Run, NoRun
  <2>4. ingestion' = [k \in KBs |-> IF s \in ingestion[k].sources THEN [ingestion[k] EXCEPT !.state = "failed"]
                                    ELSE ingestion[k]]
    BY <1>22 DEF delete_source
  <2>5. ingestion' \in [KBs -> Run \cup {NoRun}]
    BY <2>3, <2>4
  <2>6. QED
    BY <1>22, <2>1, <2>2, <2>5 DEF delete_source
<1>23. ASSUME NEW t \in KnowThreads, update_commit(t) PROVE KnowledgeTypeOK'
  <2>1. pool[t].kb \in KBs /\ pool[t].provider \in Engines
    BY <1>23 DEF update_commit, Call, TasksOK
  <2>2. CASE Stored(pool[t].kb)
    <3>1. [kb[pool[t].kb] EXCEPT !.provider = pool[t].provider] \in Base
      BY <2>1, <2>2, StoredBase DEF Base
    <3>2. kb' = [kb EXCEPT ![pool[t].kb] = [kb[pool[t].kb] EXCEPT !.provider = pool[t].provider]]
      BY <1>23, <2>2 DEF update_commit
    <3>3. kb' \in [KBs -> Base \cup {NoBase, GoneBase}]
      BY <2>1, <3>1, <3>2
    <3>4. QED
      BY <1>23, <2>2, <3>3 DEF update_commit
  <2>3. CASE ~Stored(pool[t].kb)
    BY <1>23, <2>3 DEF update_commit
  <2>4. QED
    BY <2>2, <2>3
<1>24. ASSUME NEW t \in KnowThreads, link_commit(t) PROVE KnowledgeTypeOK'
  <2>1. pool[t].kb \in KBs /\ pool[t].src \in KSources /\ pool[t].provider \in Engines
    BY <1>24 DEF link_commit, Call, TasksOK
  <2>2. [status |-> "linked", provider |-> pool[t].provider] \in Mapping
    BY <2>1 DEF Mapping
  <2>3. mapping' \in [Pairs -> Mapping \cup {NoMapping}]
    BY <1>1, <1>24, <2>1, <2>2 DEF link_commit
  <2>4. QED
    BY <1>24, <2>3 DEF link_commit
<1>25. ASSUME NEW t \in KnowThreads, invalidate(t) PROVE KnowledgeTypeOK'
  BY <1>25 DEF invalidate, invalidated
<1>26. CASE UNCHANGED knowvars
  BY <1>26 DEF knowvars
<1>27. CASE Coroutine
  BY <1>3, <1>4, <1>5, <1>6, <1>7, <1>8, <1>9, <1>10, <1>11, <1>12, <1>13, <1>27 DEF Coroutine
<1>28. ASSUME NEW t \in KnowThreads, Threaded(t) PROVE KnowledgeTypeOK'
  BY <1>18, <1>19, <1>20, <1>21, <1>22, <1>23, <1>24, <1>25, <1>28 DEF Threaded
<1>29. QED
  BY <1>14, <1>15, <1>16, <1>17, <1>26, <1>27, <1>28 DEF KnowledgeNext

\* When tasks stay right: what starts has an engine and a base, and a base never becomes absent again.
LEMMA TasksKept ==
  ASSUME KnowledgeInv,
         \A k \in KBs : kb'[k] = NoBase => kb[k] = NoBase,
         \/ loop'.at = "idle"
         \/ loop.at # "idle" /\ loop'.kb = loop.kb /\ loop'.provider = loop.provider
         \/ loop'.provider \in Engines /\ kb'[loop'.kb] # NoBase,
         \A t \in KnowThreads : \/ pool'[t] = pool[t] \/ pool'[t].at \notin {"link", "update"}
                                \/ pool'[t].provider \in Engines
  PROVE  TasksOK'
<1>1. loop.kb \in KBs
  BY DEF KnowledgeInv, KnowledgeTypeOK, Task
<1>2. QED
  BY <1>1 DEF KnowledgeInv, TasksOK

LEMMA CacheKept ==
  ASSUME KnowledgeInv, \A c \in cache' : c \in cache, loop' = loop \/ loop'.at \notin {"search", "persist"}
  PROVE  CacheOK'
  BY DEF KnowledgeInv, CacheOK

\* When a step that makes nothing ready keeps the providers right.
LEMMA BoundKept ==
  ASSUME KnowledgeInv, overtaken => overtaken',
         \A k \in KBs, s \in KSources : mapping'[<<k, s>>].status = "ready" => mapping'[<<k, s>>] = mapping[<<k, s>>],
         \A k \in KBs : Bound(k)' => Stored(k)' /\ kb'[k].provider = kb[k].provider,
         \/ loop'.at = "idle" \/ overtaken' \/ ~Stored(loop.kb)' \/ loop'.provider = kb'[loop'.kb].provider
         \/ /\ loop.at # "idle" /\ loop'.kb = loop.kb /\ loop'.provider = loop.provider
            /\ Stored(loop.kb) /\ kb'[loop.kb].provider = kb[loop.kb].provider,
         \A t \in KnowThreads : pool'[t].at = "update" => pool'[t] = pool[t] \/ ~Bound(pool[t].kb)'
  PROVE  BoundOK'
<1>1. \A k \in KBs : Bound(k)' => Bound(k)
  BY DEF Bound
<1>2. \A k \in KBs : Bound(k)' => Stored(k)'
  OBVIOUS
<1>3. ASSUME ~overtaken' PROVE loop'.at # "idle" /\ Stored(loop.kb)' => loop'.provider = kb'[loop'.kb].provider
  BY <1>3 DEF KnowledgeInv, BoundOK
<1>4. ASSUME ~overtaken', NEW t \in KnowThreads, pool'[t].at = "update" PROVE ~Bound(pool[t].kb)'
  <2>1. CASE pool'[t] = pool[t]
    <3>1. pool[t].kb \in KBs /\ ~Bound(pool[t].kb)
      BY <1>4, <2>1 DEF KnowledgeInv, KnowledgeTypeOK, BoundOK, Call
    <3>2. PICK k \in KBs : k = pool[t].kb
      BY <3>1
    <3>3. ~Bound(k)' /\ pool'[t].kb = k
      BY <1>1, <2>1, <3>1, <3>2
    <3>4. QED
      BY <3>3 DEF Bound
  <2>2. QED
    BY <1>4, <2>1
<1>5. ASSUME ~overtaken', NEW k \in KBs, NEW s \in KSources, mapping'[<<k, s>>].status = "ready"
      PROVE  mapping'[<<k, s>>].provider = kb'[k].provider
  <2>1. Bound(k)'
    BY <1>5 DEF Bound
  <2>2. mapping'[<<k, s>>] = mapping[<<k, s>>] /\ kb'[k].provider = kb[k].provider
    BY <1>5, <2>1
  <2>3. QED
    BY <1>5, <2>2 DEF KnowledgeInv, BoundOK
<1>6. QED
  BY <1>2, <1>3, <1>4, <1>5 DEF BoundOK

\* A coroutine that ends by making sources ready does it by the provider its base has, unless that is
\* being changed.
LEMMA BoundByOwner ==
  ASSUME KnowledgeInv, loop.at # "idle", Stored(loop.kb), loop'.at = "idle", UNCHANGED pool,
         overtaken' = (overtaken \/ Changing(loop.kb)),
         kb' = [kb EXCEPT ![loop.kb].status = "ready"],
         \A k \in KBs, s \in KSources :
            mapping'[<<k, s>>].status = "ready" =>
              \/ mapping'[<<k, s>>] = mapping[<<k, s>>]
              \/ k = loop.kb /\ mapping'[<<k, s>>].provider = loop.provider
  PROVE  BoundOK'
<1>1. loop.kb \in KBs /\ kb \in [KBs -> Base \cup {NoBase, GoneBase}] /\ kb[loop.kb] \in Base
  BY StoredBase DEF KnowledgeInv, KnowledgeTypeOK, Task
<1>2. \A k \in KBs : kb'[k].provider = kb[k].provider /\ (Stored(k) => Stored(k)')
  BY <1>1 DEF Stored, Base
<1>3. \A k \in KBs : Bound(k)' => Bound(k) \/ k = loop.kb
  BY DEF Bound
<1>4. \A k \in KBs : Bound(k)' => Stored(k)'
  BY <1>2, <1>3 DEF KnowledgeInv, BoundOK
<1>5. ASSUME ~overtaken', NEW t \in KnowThreads, pool'[t].at = "update" PROVE ~Bound(pool[t].kb)'
  <2>1. pool[t].kb \in KBs /\ pool[t].kb # loop.kb /\ ~Bound(pool[t].kb)
    BY <1>5 DEF KnowledgeInv, KnowledgeTypeOK, BoundOK, Call, Changing
  <2>2. PICK k \in KBs : k = pool[t].kb
    BY <2>1
  <2>3. ~Bound(k)' /\ pool'[t].kb = k
    BY <1>3, <2>1, <2>2
  <2>4. QED
    BY <2>3 DEF Bound
<1>6. ASSUME ~overtaken', NEW k \in KBs, NEW s \in KSources, mapping'[<<k, s>>].status = "ready"
      PROVE  mapping'[<<k, s>>].provider = kb'[k].provider
  <2>1. ~overtaken /\ loop.provider = kb[loop.kb].provider
    BY <1>6 DEF KnowledgeInv, BoundOK
  <2>2. CASE mapping'[<<k, s>>] = mapping[<<k, s>>]
    BY <1>2, <1>6, <2>1, <2>2 DEF KnowledgeInv, BoundOK
  <2>3. CASE k = loop.kb /\ mapping'[<<k, s>>].provider = loop.provider
    BY <1>2, <2>1, <2>3
  <2>4. QED
    BY <1>6, <2>2, <2>3
<1>7. QED
  BY <1>4, <1>5, <1>6 DEF BoundOK

\* The sessions of a coroutine, in which the bases, the mappings and the pool do not change ...
LEMMA CoroutineMoves ==
  ASSUME KnowledgeInv, UNCHANGED <<kb, mapping, pool, overtaken>>,
         \/ loop'.at = "idle"
         \/ loop.at # "idle" /\ loop'.kb = loop.kb /\ loop'.provider = loop.provider
         \/ loop'.kb \in KBs /\ Stored(loop'.kb) /\ loop'.provider = kb[loop'.kb].provider
  PROVE  TasksOK' /\ BoundOK'
<1>1. loop.kb \in KBs /\ KnowledgeTypeOK
  BY DEF KnowledgeInv, KnowledgeTypeOK, Task
<1>2. \A k \in KBs : Stored(k) => kb[k].provider \in Engines /\ kb[k] # NoBase
  BY <1>1, StoredBase DEF Base
<1>3. TasksOK'
  BY <1>2, TasksKept
<1>4. BoundOK'
  <2>1. \A k \in KBs : Bound(k)' = Bound(k) /\ Stored(k)' = Stored(k)
    BY DEF Bound, Stored
  <2>2. \A k \in KBs, s \in KSources : mapping'[<<k, s>>] = mapping[<<k, s>>]
    OBVIOUS
  <2>3. ASSUME ~overtaken', NEW t \in KnowThreads, pool'[t].at = "update" PROVE ~Bound(pool[t].kb)'
    <3>1. ~Bound(pool[t].kb)
      BY <2>3 DEF KnowledgeInv, BoundOK
    <3>2. QED
      BY <3>1 DEF Bound
  <2>4. ASSUME ~overtaken', loop'.at # "idle", Stored(loop.kb)' PROVE loop'.provider = kb'[loop'.kb].provider
    BY <2>4 DEF KnowledgeInv, BoundOK, Stored
  <2>5. \A k \in KBs : Bound(k)' => Stored(k)'
    BY <2>1 DEF KnowledgeInv, BoundOK
  <2>6. ASSUME ~overtaken', NEW k \in KBs, NEW s \in KSources, mapping'[<<k, s>>].status = "ready"
        PROVE  mapping'[<<k, s>>].provider = kb'[k].provider
    BY <2>2, <2>6 DEF KnowledgeInv, BoundOK
  <2>7. QED
    BY <2>3, <2>4, <2>5, <2>6 DEF BoundOK
<1>5. QED
  BY <1>3, <1>4

\* Steps of the pool that leave every base with the provider it had.
LEMMA BasesKept ==
  ASSUME KnowledgeInv, UNCHANGED <<loop, overtaken>>,
         \A k \in KBs : kb'[k].provider = kb[k].provider /\ (Stored(k) <=> Stored(k)'),
         \A k \in KBs, s \in KSources : mapping'[<<k, s>>].status = "ready" => mapping'[<<k, s>>] = mapping[<<k, s>>],
         \A t \in KnowThreads : pool'[t].at = "update" => pool'[t] = pool[t] \/ ~Bound(pool[t].kb)'
  PROVE  BoundOK'
<1>1. \A k \in KBs : Bound(k)' => Bound(k)
  BY DEF Bound
<1>2. \A k \in KBs : Bound(k)' => Stored(k)' /\ kb'[k].provider = kb[k].provider
  BY <1>1 DEF KnowledgeInv, BoundOK
<1>3. loop.kb \in KBs
  BY DEF KnowledgeInv, KnowledgeTypeOK, Task
<1>4. Stored(loop.kb)' => Stored(loop.kb)
  <2>1. PICK k \in KBs : k = loop.kb
    BY <1>3
  <2>2. (Stored(k) <=> Stored(k)') /\ loop'.kb = k
    BY <2>1
  <2>3. QED
    BY <2>1, <2>2 DEF Stored
<1>5. \/ loop'.at = "idle" \/ overtaken' \/ ~Stored(loop.kb)' \/ loop'.provider = kb'[loop'.kb].provider
      \/ /\ loop.at # "idle" /\ loop'.kb = loop.kb /\ loop'.provider = loop.provider
         /\ Stored(loop.kb) /\ kb'[loop.kb].provider = kb[loop.kb].provider
  BY <1>3, <1>4
<1>6. QED
  BY <1>2, <1>5, BoundKept

\* ... or it ends with nothing to write.
LEMMA NothingReady ==
  ASSUME KnowledgeInv, loop'.at = "idle", UNCHANGED <<kb, mapping, pool>>,
         overtaken' = (overtaken \/ Changing(loop.kb))
  PROVE  TasksOK' /\ BoundOK'
<1>1. TasksOK'
  BY TasksKept
<1>2. \A k \in KBs : Bound(k)' = Bound(k) /\ Stored(k)' = Stored(k)
  BY DEF Bound, Stored
<1>3. \A k \in KBs : Bound(k)' => Stored(k)' /\ kb'[k].provider = kb[k].provider
  BY <1>2 DEF KnowledgeInv, BoundOK
<1>4. BoundOK'
  BY <1>3, BoundKept
<1>5. QED
  BY <1>1, <1>4

LEMMA CoroutineInv ==
  ASSUME KnowledgeInv, KnowledgeTypeOK', Coroutine
  PROVE  (TasksOK /\ CacheOK /\ BoundOK)'
<1> USE DEF KnowledgeInv
<1>1. loop \in Task /\ loop.kb \in KBs
  BY DEF KnowledgeTypeOK, Task
<1>2. \A at : Step(at) => loop'.at = at /\ loop'.kb = loop.kb /\ loop'.provider = loop.provider
  BY <1>1 DEF Step, Task
<1>3. Ends => loop'.at = "idle"
  <2>1. NoTask.at = "idle"
    BY DEF NoTask
  <2>2. QED
    BY <2>1 DEF Ends
<1>4. ASSUME NEW k \in KBs, retrieve_read(k) PROVE (TasksOK /\ CacheOK /\ BoundOK)'
  <2>1. loop'.at = "resolve" /\ loop'.kb = k /\ loop'.provider = kb[k].provider
    BY <1>4 DEF retrieve_read, NoTask
  <2>2. QED
    BY <1>4, <2>1, CoroutineMoves, CacheKept DEF retrieve_read
<1>5. ASSUME NEW k \in KBs, rebuild_read(k) PROVE (TasksOK /\ CacheOK /\ BoundOK)'
  <2>1. loop'.at = "resolve" /\ loop'.kb = k /\ loop'.provider = kb[k].provider
    BY <1>5 DEF rebuild_read, NoTask
  <2>2. QED
    BY <1>5, <2>1, CoroutineMoves, CacheKept DEF rebuild_read
<1>6. ASSUME NEW k \in KBs, NEW s \in KSources, sync_read(k, s) PROVE (TasksOK /\ CacheOK /\ BoundOK)'
  <2>1. /\ Stored(k) /\ UNCHANGED <<kb, cache, pool, overtaken>>
        /\ loop'.at \in {"idle", "parse", "resolve"}
        /\ loop'.at # "idle" => loop'.kb = k /\ loop'.provider = kb[k].provider
    BY <1>6 DEF sync_read, NoTask
  <2>2. kb[k].provider \in Engines /\ kb[k] # NoBase
    BY <2>1, StoredBase DEF Base
  <2>3. TasksOK'
    BY <2>1, <2>2, TasksKept
  <2>4. CacheOK'
    BY <2>1, CacheKept
  <2>5. \A x \in KBs, y \in KSources :
           mapping'[<<x, y>>] = mapping[<<x, y>>] \/ mapping'[<<x, y>>].status = "linked"
    BY <1>6 DEF sync_read, KnowledgeTypeOK, Pairs
  <2>6. \A x \in KBs : Bound(x)' => Stored(x)' /\ kb'[x].provider = kb[x].provider
    BY <2>1, <2>5 DEF Bound, BoundOK, Stored
  <2>7. \A x \in KBs, y \in KSources : mapping'[<<x, y>>].status = "ready" => mapping'[<<x, y>>] = mapping[<<x, y>>]
    BY <2>5
  <2>8. \/ loop'.at = "idle" \/ overtaken' \/ ~Stored(loop.kb)' \/ loop'.provider = kb'[loop'.kb].provider
    BY <2>1
  <2>9. BoundOK'
    BY <2>1, <2>6, <2>7, <2>8, BoundKept
  <2>10. QED
    BY <2>3, <2>4, <2>9
<1>7. CASE sync_parse
  BY <1>2, <1>3, <1>7, CoroutineMoves, CacheKept DEF sync_parse
<1>8. CASE resolve_snapshot
  <2>1. \/ loop'.at = "idle"
        \/ loop'.at \in {"begin", "build"} /\ loop'.kb = loop.kb /\ loop'.provider = loop.provider
    BY <1>1, <1>3, <1>8 DEF resolve_snapshot, Task
  <2>2. QED
    BY <1>8, <2>1, CoroutineMoves, CacheKept DEF resolve_snapshot
<1>9. CASE rebuild_begin
  BY <1>2, <1>9, CoroutineMoves, CacheKept DEF rebuild_begin, invalidated
<1>10. CASE persist_candidates
  BY <1>3, <1>10, CoroutineMoves, CacheKept DEF persist_candidates
<1>11. CASE search
  <2>1. PICK hits \in SUBSET Origins :
          IF retrieve_from(loop.snap.provider, loop.index, hits) = Rejected THEN Ends
          ELSE loop' = [loop EXCEPT !.at = "persist", !.answer = retrieve_from(loop.snap.provider, loop.index, hits)]
    BY <1>11 DEF search
  <2>2. PICK found : found = retrieve_from(loop.snap.provider, loop.index, hits)
    OBVIOUS
  <2>3. found # Rejected => found \subseteq loop.snap.sources
    BY <1>11, <2>2, AnswerInIndex DEF search, CacheOK
  <2>4. \/ loop'.at = "idle"
        \/ /\ loop'.at = "persist" /\ loop'.kb = loop.kb /\ loop'.provider = loop.provider
           /\ loop'.answer \subseteq loop'.snap.sources
    BY <1>1, <1>3, <2>1, <2>2, <2>3 DEF Task
  <2>5. CacheOK'
    BY <1>11, <2>4 DEF search, CacheOK
  <2>6. QED
    BY <1>11, <2>4, <2>5, CoroutineMoves DEF search
<1>12. CASE build
  <2>1. PICK snap : snap = IF loop.op = "rebuild" /\ Stored(loop.kb) THEN resolve(loop.kb) ELSE loop.snap
    OBVIOUS
  <2>2. CASE Ends /\ UNCHANGED cache
    BY <1>3, <1>12, <2>2, CoroutineMoves, CacheKept DEF build
  <2>3. CASE /\ Selectable(snap.provider) /\ cache' = with_built(loop.kb, snap)
             /\ loop' = [loop EXCEPT !.at = IF loop.op = "rebuild" THEN "finish" ELSE "search",
                                     !.index = IF loop.op = "rebuild" THEN {} ELSE built_index(loop.kb, snap)]
    <3>1. snap \in Snapshot
      BY <1>1, <2>1, <2>3, BuildSnapshot
    <3>2. built_index(loop.kb, snap) = snap.sources /\ \A c \in cache' : c.index = c.fp.sources
      BY <1>1, <2>3, <3>1, BuiltForSnapshot
    <3>3. loop.op # "rebuild" => snap = loop.snap
      BY <2>1
    <3>4. /\ loop'.at \in {"finish", "search"} /\ loop'.kb = loop.kb /\ loop'.provider = loop.provider
          /\ loop'.at = "search" => loop'.index = loop'.snap.sources
      BY <1>1, <2>3, <3>2, <3>3 DEF Task
    <3>5. CacheOK'
      BY <3>2, <3>4 DEF CacheOK
    <3>6. QED
      BY <1>12, <3>4, <3>5, CoroutineMoves DEF build
  <2>4. QED
    BY <1>12, <2>1, <2>2, <2>3 DEF build
<1>13. CASE sync_commit
  <2>1. loop.at # "idle" /\ loop'.at = "idle" /\ UNCHANGED pool /\ loop.src \in KSources
        /\ overtaken' = (overtaken \/ Changing(loop.kb))
    BY <1>1, <1>3, <1>13 DEF sync_commit, Task
  <2>2. CASE Stored(loop.kb) /\ Mapped(loop.kb, loop.src)
    <3>1. /\ kb' = [kb EXCEPT ![loop.kb].status = "ready"] /\ cache' = invalidated(loop.kb)
          /\ mapping' = [mapping EXCEPT ![<<loop.kb, loop.src>>] = [status |-> "ready", provider |-> loop.provider]]
      BY <1>13, <2>2 DEF sync_commit
    <3>2. ASSUME NEW k \in KBs, kb'[k] = NoBase PROVE kb[k] = NoBase
      <4>1. CASE k = loop.kb
        <5>1. kb[k] \in Base /\ kb \in [KBs -> Base \cup {NoBase, GoneBase}]
          BY <1>1, <2>2, <4>1, StoredBase DEF KnowledgeTypeOK
        <5>2. kb'[k] = [kb[k] EXCEPT !.status = "ready"]
          BY <3>1, <4>1, <5>1
        <5>3. kb'[k].status = "ready"
          BY <5>1, <5>2 DEF Base
        <5>4. NoBase.status = "absent"
          BY DEF NoBase
        <5>5. QED
          BY <3>2, <5>3, <5>4
      <4>2. CASE k # loop.kb
        BY <1>1, <3>1, <3>2, <4>2 DEF KnowledgeTypeOK
      <4>3. QED
        BY <4>1, <4>2
    <3>3. TasksOK'
      BY <2>1, <3>2, TasksKept
    <3>4. CacheOK'
      BY <2>1, <3>1, CacheKept DEF invalidated
    <3>5. \A k \in KBs, s \in KSources :
             mapping'[<<k, s>>].status = "ready" =>
               \/ mapping'[<<k, s>>] = mapping[<<k, s>>]
               \/ k = loop.kb /\ mapping'[<<k, s>>].provider = loop.provider
      BY <1>1, <2>1, <3>1 DEF KnowledgeTypeOK, Pairs
    <3>6. BoundOK'
      BY <2>1, <2>2, <3>1, <3>5, BoundByOwner
    <3>7. QED
      BY <3>3, <3>4, <3>6
  <2>3. CASE ~(Stored(loop.kb) /\ Mapped(loop.kb, loop.src))
    <3>1. UNCHANGED <<kb, mapping, cache>>
      BY <1>13, <2>3 DEF sync_commit
    <3>2. QED
      BY <2>1, <3>1, NothingReady, CacheKept
  <2>4. QED
    BY <2>2, <2>3
<1>14. CASE rebuild_finish
  <2>1. loop.at # "idle" /\ loop'.at = "idle" /\ UNCHANGED <<pool, cache>>
        /\ overtaken' = (overtaken \/ Changing(loop.kb))
    BY <1>3, <1>14 DEF rebuild_finish
  <2>2. CASE Stored(loop.kb) /\ ingestion[loop.kb] # NoRun
    <3>1. /\ kb' = [kb EXCEPT ![loop.kb].status = "ready"]
          /\ mapping' = [x \in Pairs |->
                           IF x[1] = loop.kb /\ x[2] \in loop.snap.sources /\ mapping[x] # NoMapping
                           THEN [status |-> "ready", provider |-> loop.provider] ELSE mapping[x]]
      BY <1>14, <2>2 DEF rebuild_finish
    <3>2. \A k \in KBs : kb'[k] = NoBase => kb[k] = NoBase
      BY <1>1, <2>2, <3>1, StoredBase DEF KnowledgeTypeOK, Base, NoBase
    <3>3. TasksOK'
      BY <2>1, <3>2, TasksKept
    <3>4. CacheOK'
      BY <2>1, CacheKept
    <3>5. \A k \in KBs, s \in KSources :
             mapping'[<<k, s>>].status = "ready" =>
               \/ mapping'[<<k, s>>] = mapping[<<k, s>>]
               \/ k = loop.kb /\ mapping'[<<k, s>>].provider = loop.provider
      BY <3>1 DEF Pairs
    <3>6. BoundOK'
      BY <2>1, <2>2, <3>1, <3>5, BoundByOwner
    <3>7. QED
      BY <3>3, <3>4, <3>6
  <2>3. CASE ~(Stored(loop.kb) /\ ingestion[loop.kb] # NoRun)
    <3>1. UNCHANGED <<kb, mapping>>
      BY <1>14, <2>3 DEF rebuild_finish
    <3>2. QED
      BY <2>1, <3>1, NothingReady, CacheKept
  <2>4. QED
    BY <2>2, <2>3
<1>15. QED
  BY <1>4, <1>5, <1>6, <1>7, <1>8, <1>9, <1>10, <1>11, <1>12, <1>13, <1>14 DEF Coroutine


LEMMA PoolInv ==
  ASSUME KnowledgeInv, KnowledgeTypeOK', NEW t \in KnowThreads, Threaded(t)
  PROVE  (TasksOK /\ CacheOK /\ BoundOK)'
<1> USE DEF KnowledgeInv
<1>1. pool \in [KnowThreads -> Call] /\ pool[t].kb \in KBs /\ pool[t].src \in KSources
  BY DEF KnowledgeTypeOK, Call
<1>2. \A at, k, s, engine : Calls(t, at, k, s, engine) =>
        /\ pool'[t].at = at /\ pool'[t].kb = k /\ pool'[t].provider = engine
        /\ \A u \in KnowThreads \ {t} : pool'[u] = pool[u]
  BY <1>1 DEF Calls
<1>3. NoCall.at = "idle"
  BY DEF NoCall
<1>4. UNCHANGED kb => \A k \in KBs : kb'[k].provider = kb[k].provider /\ (Stored(k) <=> Stored(k)')
  BY DEF Stored
<1>5. ASSUME NEW k \in KBs, delete_knowledge_base(t, k) PROVE (TasksOK /\ CacheOK /\ BoundOK)'
  <2>1. /\ kb' = [kb EXCEPT ![k] = GoneBase]
        /\ mapping' = [x \in Pairs |-> IF x[1] = k THEN NoMapping ELSE mapping[x]]
        /\ pool'[t].at = "invalidate" /\ \A u \in KnowThreads \ {t} : pool'[u] = pool[u]
        /\ UNCHANGED <<cache, loop, overtaken>>
    BY <1>2, <1>5 DEF delete_knowledge_base
  <2>2. GoneBase.status = "deleted" /\ NoBase.status = "absent" /\ NoMapping.status = "absent"
    BY DEF GoneBase, NoBase, NoMapping
  <2>3. \A x \in KBs : kb'[x] = IF x = k THEN GoneBase ELSE kb[x]
    BY <2>1 DEF KnowledgeTypeOK
  <2>4. TasksOK'
    BY <2>1, <2>2, <2>3, TasksKept
  <2>5. \A x \in KBs, s \in KSources : mapping'[<<x, s>>] = IF x = k THEN NoMapping ELSE mapping[<<x, s>>]
    BY <2>1 DEF Pairs
  <2>6. \A x \in KBs : Bound(x)' => x # k /\ Bound(x)
    BY <2>2, <2>5 DEF Bound
  <2>7. \A x \in KBs : Bound(x)' => Stored(x)' /\ kb'[x].provider = kb[x].provider
    BY <2>3, <2>6 DEF BoundOK, Stored
  <2>8. loop.kb \in KBs /\ (Stored(loop.kb)' => loop.kb # k /\ Stored(loop.kb))
    BY <2>1, <2>2, <2>3 DEF KnowledgeTypeOK, Task, Stored
  <2>9. \/ loop'.at = "idle" \/ overtaken' \/ ~Stored(loop.kb)' \/ loop'.provider = kb'[loop'.kb].provider
        \/ /\ loop.at # "idle" /\ loop'.kb = loop.kb /\ loop'.provider = loop.provider
           /\ Stored(loop.kb) /\ kb'[loop.kb].provider = kb[loop.kb].provider
    BY <2>1, <2>3, <2>8
  <2>10. \A x \in KBs, s \in KSources :
            mapping'[<<x, s>>].status = "ready" => mapping'[<<x, s>>] = mapping[<<x, s>>]
    BY <2>2, <2>5
  <2>11. BoundOK'
    BY <2>1, <2>7, <2>9, <2>10, BoundKept
  <2>12. QED
    BY <2>1, <2>4, <2>11, CacheKept
<1>6. ASSUME NEW k \in KBs, NEW engine \in Engines, update_knowledge_base(t, k, engine)
      PROVE  (TasksOK /\ CacheOK /\ BoundOK)'
  <2>1. /\ pool'[t].provider \in Engines /\ pool'[t].kb = k /\ ~Bound(k)
        /\ \A u \in KnowThreads \ {t} : pool'[u] = pool[u]
        /\ UNCHANGED <<kb, mapping, cache, loop, overtaken>>
    BY <1>2, <1>6 DEF update_knowledge_base
  <2>2. TasksOK' /\ CacheOK'
    BY <2>1, TasksKept, CacheKept
  <2>3. ~Bound(pool[t].kb)'
    BY <2>1 DEF Bound
  <2>4. BoundOK'
    BY <1>4, <2>1, <2>3, BasesKept
  <2>5. QED
    BY <2>2, <2>4
<1>7. ASSUME NEW k \in KBs, NEW s \in KSources, link_source(t, k, s) PROVE (TasksOK /\ CacheOK /\ BoundOK)'
  <2>1. /\ pool'[t].provider = kb[k].provider /\ pool'[t].at = "link" /\ Stored(k)
        /\ \A u \in KnowThreads \ {t} : pool'[u] = pool[u]
        /\ UNCHANGED <<kb, mapping, cache, loop, overtaken>>
    BY <1>2, <1>7 DEF link_source
  <2>2. kb[k].provider \in Engines
    BY <2>1, StoredBase DEF Base
  <2>3. TasksOK' /\ CacheOK'
    BY <2>1, <2>2, TasksKept, CacheKept
  <2>4. BoundOK'
    BY <1>4, <2>1, BasesKept
  <2>5. QED
    BY <2>3, <2>4
<1>8. ASSUME NEW k \in KBs, NEW s \in KSources, unlink_source(t, k, s) PROVE (TasksOK /\ CacheOK /\ BoundOK)'
  <2>1. PICK row : row = [kb[k] EXCEPT !.status = IF \E x \in KSources \ {s} : Mapped(k, x) THEN "ready" ELSE "local_only"]
    OBVIOUS
  <2>2. /\ kb' = [kb EXCEPT ![k] = row] /\ Stored(k)
        /\ mapping' = [mapping EXCEPT ![<<k, s>>] = NoMapping]
        /\ pool'[t].at = "invalidate" /\ \A u \in KnowThreads \ {t} : pool'[u] = pool[u]
        /\ UNCHANGED <<cache, loop, overtaken>>
    BY <1>2, <1>8, <2>1 DEF unlink_source
  <2>3. row.provider = kb[k].provider /\ row.status \in {"local_only", "ready"} /\ row # NoBase
    <3>1. NoBase.status = "absent"
      BY DEF NoBase
    <3>2. row.provider = kb[k].provider /\ row.status \in {"local_only", "ready"}
      BY <2>1, <2>2, StoredBase DEF Base
    <3>3. QED
      BY <3>1, <3>2
  <2>4. \A x \in KBs : kb'[x].provider = kb[x].provider /\ (Stored(x) <=> Stored(x)') /\ (kb'[x] = NoBase => kb[x] = NoBase)
    BY <2>2, <2>3 DEF KnowledgeTypeOK, Stored
  <2>5. TasksOK' /\ CacheOK'
    BY <2>2, <2>4, TasksKept, CacheKept
  <2>6. NoMapping.status = "absent"
    BY DEF NoMapping
  <2>7. \A x \in KBs, y \in KSources : mapping'[<<x, y>>].status = "ready" => mapping'[<<x, y>>] = mapping[<<x, y>>]
    BY <2>2, <2>6 DEF KnowledgeTypeOK, Pairs
  <2>8. BoundOK'
    BY <2>2, <2>4, <2>7, BasesKept
  <2>9. QED
    BY <2>5, <2>8
<1>9. ASSUME NEW s \in KSources, delete_source(t, s) PROVE (TasksOK /\ CacheOK /\ BoundOK)'
  <2>1. PICK k \in KBs : Calls(t, "invalidate", k, s, "")
    BY <1>9 DEF delete_source
  <2>2. /\ pool'[t].at = "invalidate" /\ \A u \in KnowThreads \ {t} : pool'[u] = pool[u]
        /\ mapping' = [x \in Pairs |-> IF x[2] = s THEN NoMapping ELSE mapping[x]]
        /\ UNCHANGED <<kb, cache, loop, overtaken>>
    BY <1>2, <1>9, <2>1 DEF delete_source
  <2>3. TasksOK' /\ CacheOK'
    BY <2>2, TasksKept, CacheKept
  <2>4. NoMapping.status = "absent"
    BY DEF NoMapping
  <2>5. \A x \in KBs, y \in KSources : mapping'[<<x, y>>].status = "ready" => mapping'[<<x, y>>] = mapping[<<x, y>>]
    BY <2>2, <2>4 DEF Pairs
  <2>6. BoundOK'
    BY <1>4, <2>2, <2>5, BasesKept
  <2>7. QED
    BY <2>3, <2>6
<1>10. CASE update_commit(t)
  <2>1. /\ pool[t].at = "update" /\ pool'[t].at = "idle" /\ \A u \in KnowThreads \ {t} : pool'[u] = pool[u]
        /\ UNCHANGED <<mapping, cache, loop>>
    BY <1>1, <1>3, <1>10 DEF update_commit
  <2>2. PICK k \in KBs : k = pool[t].kb
    BY <1>1
  <2>3. CASE ~Stored(k)
    <3>1. UNCHANGED <<kb, overtaken>>
      BY <1>10, <2>2, <2>3 DEF update_commit
    <3>2. QED
      BY <1>4, <2>1, <3>1, TasksKept, CacheKept, BasesKept
  <2>4. CASE Stored(k)
    <3>1. PICK row : row = [kb[k] EXCEPT !.provider = pool[t].provider]
      OBVIOUS
    <3>2. /\ kb' = [kb EXCEPT ![k] = row]
          /\ overtaken' = (overtaken \/ (loop.at # "idle" /\ loop.kb = k))
      BY <1>10, <2>2, <2>4, <3>1 DEF update_commit
    <3>3. row.status = kb[k].status /\ row # NoBase
      <4>1. NoBase.status = "absent"
        BY DEF NoBase
      <4>2. row.status = kb[k].status /\ row.status \in {"local_only", "ready"}
        BY <2>4, <3>1, StoredBase DEF Base, Stored
      <4>3. QED
        BY <4>1, <4>2
    <3>4. \A x \in KBs : kb'[x] = IF x = k THEN row ELSE kb[x]
      BY <3>2 DEF KnowledgeTypeOK
    <3>5. \A x \in KBs : (Stored(x) <=> Stored(x)') /\ (kb'[x] = NoBase => kb[x] = NoBase)
      BY <3>3, <3>4 DEF Stored
    <3>6. TasksOK' /\ CacheOK'
      BY <2>1, <3>5, TasksKept, CacheKept
    <3>7. \A x \in KBs : Bound(x)' <=> Bound(x)
      BY <2>1 DEF Bound
    <3>8. CASE overtaken'
      <4>1. BoundOK'
        BY <3>5, <3>7, <3>8 DEF BoundOK
      <4>2. QED
        BY <3>6, <4>1
    <3>9. CASE ~overtaken'
      <4>1. ~overtaken /\ ~Bound(k)
        BY <2>1, <2>2, <3>2, <3>9 DEF BoundOK
      <4>2. \A x \in KBs : Bound(x)' => Stored(x)' /\ kb'[x].provider = kb[x].provider
        BY <3>4, <3>5, <3>7, <4>1 DEF BoundOK
      <4>3. loop.at # "idle" => loop.kb # k /\ loop.kb \in KBs
        BY <3>2, <3>9 DEF KnowledgeTypeOK, Task
      <4>4. Stored(loop.kb)' /\ loop.at # "idle" => Stored(loop.kb)
        BY <2>1, <3>4, <4>3 DEF Stored
      <4>5. \/ loop'.at = "idle" \/ overtaken' \/ ~Stored(loop.kb)' \/ loop'.provider = kb'[loop'.kb].provider
            \/ /\ loop.at # "idle" /\ loop'.kb = loop.kb /\ loop'.provider = loop.provider
               /\ Stored(loop.kb) /\ kb'[loop.kb].provider = kb[loop.kb].provider
        BY <2>1, <3>4, <4>3, <4>4
      <4>6. BoundOK'
        BY <2>1, <4>1, <4>2, <4>5, BoundKept
      <4>7. QED
        BY <3>6, <4>6
    <3>10. QED
      BY <3>6, <3>8, <3>9
  <2>5. QED
    BY <2>3, <2>4
<1>11. CASE link_commit(t)
  <2>1. /\ pool'[t].at = "idle" /\ \A u \in KnowThreads \ {t} : pool'[u] = pool[u]
        /\ UNCHANGED <<kb, cache, loop, overtaken>>
    BY <1>1, <1>3, <1>11 DEF link_commit
  <2>2. TasksOK' /\ CacheOK'
    BY <2>1, TasksKept, CacheKept
  <2>3. \A x \in KBs, y \in KSources :
           mapping'[<<x, y>>] = mapping[<<x, y>>] \/ mapping'[<<x, y>>].status = "linked"
    BY <1>1, <1>11 DEF link_commit, KnowledgeTypeOK, Pairs
  <2>4. BoundOK'
    BY <1>4, <2>1, <2>3, BasesKept
  <2>5. QED
    BY <2>2, <2>4
<1>12. CASE invalidate(t)
  <2>1. /\ pool'[t].at = "idle" /\ \A u \in KnowThreads \ {t} : pool'[u] = pool[u]
        /\ UNCHANGED <<kb, mapping, loop, overtaken>>
    BY <1>1, <1>3, <1>12 DEF invalidate
  <2>2. \A c \in cache' : c \in cache
    BY <1>12 DEF invalidate, invalidated
  <2>3. QED
    BY <1>4, <2>1, <2>2, TasksKept, CacheKept, BasesKept
<1>13. QED
  BY <1>5, <1>6, <1>7, <1>8, <1>9, <1>10, <1>11, <1>12 DEF Threaded


LEMMA KnowledgeStepInv == KnowledgeInv /\ [KnowledgeNext]_knowvars => KnowledgeInv'
<1> SUFFICES ASSUME KnowledgeInv, [KnowledgeNext]_knowvars PROVE KnowledgeInv'
  OBVIOUS
<1>1. KnowledgeTypeOK /\ TasksOK /\ CacheOK /\ BoundOK /\ KnowledgeTypeOK'
  BY KnowledgeStepType DEF KnowledgeInv
<1>2. NoBase.status = "absent"
  BY DEF NoBase
<1>3. ASSUME NEW k \in KBs, create_knowledge_base(k) PROVE (TasksOK /\ CacheOK /\ BoundOK)'
  <2>1. PICK row : /\ row.status = "local_only" /\ kb' = [kb EXCEPT ![k] = row]
                   /\ kb[k] = NoBase /\ UNCHANGED <<mapping, cache, loop, pool, overtaken>>
    BY <1>3 DEF create_knowledge_base
  <2>2. \A x \in KBs : kb'[x] = IF x = k THEN row ELSE kb[x]
    BY <1>1, <2>1 DEF KnowledgeTypeOK
  <2>3. ~Stored(k)
    BY <1>2, <2>1 DEF Stored
  <2>4. TasksOK'
    BY <1>2, <2>1, <2>2, TasksKept
  <2>5. \A x \in KBs : Bound(x)' => x # k /\ Stored(x)' /\ kb'[x].provider = kb[x].provider
    BY <1>1, <2>1, <2>2, <2>3 DEF Bound, BoundOK, Stored
  <2>6. loop.at # "idle" => loop.kb # k /\ loop.kb \in KBs
    BY <1>1, <2>1 DEF KnowledgeTypeOK, TasksOK, Task
  <2>7. loop.at # "idle" /\ Stored(loop.kb)' => Stored(loop.kb)
    BY <2>1, <2>2, <2>6 DEF Stored
  <2>8. \/ loop'.at = "idle" \/ overtaken' \/ ~Stored(loop.kb)' \/ loop'.provider = kb'[loop'.kb].provider
        \/ /\ loop.at # "idle" /\ loop'.kb = loop.kb /\ loop'.provider = loop.provider
           /\ Stored(loop.kb) /\ kb'[loop.kb].provider = kb[loop.kb].provider
    BY <2>1, <2>2, <2>6, <2>7
  <2>9. BoundOK'
    BY <2>1, <2>5, <2>8, BoundKept
  <2>10. QED
    BY <2>1, <2>4, <2>9, CacheKept
<1>4. ASSUME NEW k \in KBs, confirm_egress(k) PROVE (TasksOK /\ CacheOK /\ BoundOK)'
  <2>1. PICK row : row = [kb[k] EXCEPT !.consent = TRUE]
    OBVIOUS
  <2>2. /\ kb' = [kb EXCEPT ![k] = row] /\ Stored(k)
        /\ UNCHANGED <<mapping, cache, loop, pool, overtaken>>
    BY <1>4, <2>1 DEF confirm_egress
  <2>3. row.status = kb[k].status /\ row.provider = kb[k].provider
    BY <1>1, <2>1, <2>2, StoredBase DEF Base
  <2>4. \A x \in KBs : /\ kb'[x].provider = kb[x].provider /\ (Stored(x) <=> Stored(x)')
                       /\ kb'[x] = NoBase => kb[x] = NoBase
    BY <1>1, <1>2, <2>2, <2>3 DEF KnowledgeTypeOK, Stored
  <2>5. TasksOK'
    BY <2>2, <2>4, TasksKept
  <2>6. BoundOK'
    BY <2>2, <2>4, BasesKept
  <2>7. QED
    BY <2>2, <2>5, <2>6, CacheKept
<1>5. ASSUME UNCHANGED <<kb, mapping, cache, loop, pool, overtaken>> PROVE (TasksOK /\ CacheOK /\ BoundOK)'
  <2>1. \A k \in KBs : kb'[k].provider = kb[k].provider /\ (Stored(k) <=> Stored(k)')
    BY <1>5 DEF Stored
  <2>2. QED
    BY <1>5, <2>1, TasksKept, CacheKept, BasesKept
<1>6. ASSUME ApiRestarts PROVE (TasksOK /\ CacheOK /\ BoundOK)'
  <2>1. /\ cache' = {} /\ loop'.at = "idle" /\ \A t \in KnowThreads : pool'[t].at = "idle"
        /\ UNCHANGED <<kb, mapping, overtaken>>
    BY <1>6 DEF ApiRestarts, NoTask, NoCall
  <2>2. \A k \in KBs : (Bound(k) <=> Bound(k)') /\ (Stored(k) <=> Stored(k)')
    BY <2>1 DEF Bound, Stored
  <2>3. \A k \in KBs : Bound(k)' => Stored(k)' /\ kb'[k].provider = kb[k].provider
    BY <1>1, <2>1, <2>2 DEF BoundOK
  <2>4. BoundOK'
    BY <2>1, <2>3, BoundKept
  <2>5. QED
    BY <2>1, <2>4, TasksKept, CacheKept
<1>7. ASSUME Coroutine PROVE (TasksOK /\ CacheOK /\ BoundOK)'
  BY <1>1, <1>7, CoroutineInv
<1>8. ASSUME NEW t \in KnowThreads, Threaded(t) PROVE (TasksOK /\ CacheOK /\ BoundOK)'
  BY <1>1, <1>8, PoolInv
<1>9. ASSUME NEW s \in KSources, upload_source_file(s) PROVE (TasksOK /\ CacheOK /\ BoundOK)'
  BY <1>5, <1>9 DEF upload_source_file
<1>10. ASSUME UNCHANGED knowvars PROVE (TasksOK /\ CacheOK /\ BoundOK)'
  BY <1>5, <1>10 DEF knowvars
<1>11. (TasksOK /\ CacheOK /\ BoundOK)'
  BY <1>3, <1>4, <1>6, <1>7, <1>8, <1>9, <1>10 DEF KnowledgeNext
<1>12. QED
  BY <1>1, <1>11 DEF KnowledgeInv

LEMMA KnowledgeInvariant == KnowledgeSpec => []KnowledgeInv
  BY KnowledgeInitInv, KnowledgeStepInv, PTL DEF KnowledgeSpec

\* No index of an earlier state of a base is served from the cache: what a retrieval is about to
\* record came from the sources its snapshot had, whatever changed before and whatever an engine
\* claims (interest_growth_native/knowledge.py: NativeRetrievalEngine).
THEOREM CurrentServed == KnowledgeSpec => []ServesCurrent
<1>1. KnowledgeInv => ServesCurrent
  BY DEF KnowledgeInv, CacheOK, ServesCurrent
<1>2. QED
  BY <1>1, KnowledgeInvariant, PTL

\* A source that is ready was indexed by the engine its base has, unless a change of provider
\* overlapped with a coroutine of the base (pg_api/routes/knowledge.py: update_knowledge_base).
THEOREM ProviderKept == KnowledgeSpec => []ProviderBound
<1>1. KnowledgeInv => ProviderBound
  BY DEF KnowledgeInv, BoundOK, ProviderBound
<1>2. QED
  BY <1>1, KnowledgeInvariant, PTL

-----------------------------------------------------------------------------
(* PluginRuntime. *)

\* A plugin that is on is enabled, being updated, or has been updated.
RowOK(row) == row.enabled => row.lifecycle_state \in {"enabled", "updating", "rollback_available"}

\* A request under way is about a plugin of the bundle, and will write a sound row ...
WorkOK(r) ==
  r.step # "idle" =>
    /\ r.plugin \in manifests /\ r.plugin \in r.read /\ RowOK(r.next)
    /\ r.next \in PluginStateRecord
    /\ r.step = "test_on" => r.next.enabled
    /\ r.step = "test_off" => ~r.next.enabled

\* ... and, as long as no row it has read has changed, a plugin that is tested has the dependencies,
\* or has lost the dependants, that were tested, and one that is not tested is on as it was ...
TestsOK(r) ==
  r.step # "idle" /\ r.stale = {} =>
    /\ r.step = "test_on" => \A q \in Requires[r.plugin] \ r.todo : q \in r.read /\ prow[q].enabled
    /\ r.step = "test_off" =>
         \A q \in enabled_dependants(r.plugin) \ r.todo : q \in r.read /\ (~disturbed => ~prow[q].enabled)
    /\ r.step \in {"write", "update"} => r.next.enabled = prow[r.plugin].enabled

\* ... and, as long as its own row has not changed, the version it replaces is the one it records.
VersionOK(r) ==
  r.step # "idle" /\ r.plugin \notin r.stale =>
    /\ r.step = "update" => r.next = prow[r.plugin]
    /\ \/ prow[r.plugin] = Absent \/ r.next.installed_version = prow[r.plugin].installed_version
       \/ r.next.previous_version = prow[r.plugin].installed_version

FreshOK(r) == TestsOK(r) /\ VersionOK(r)

RowsOK == \A p \in Plugins : RowOK(prow[p]) /\ (p \in manifests => prow[p] # Absent)
RequestsOK == \A t \in PluginThreads : WorkOK(prequest[t]) /\ FreshOK(prequest[t])
DependenciesOn == ~disturbed => \A p \in manifests : prow[p].enabled => \A d \in Requires[p] : prow[d].enabled

PluginInv == PluginTypeOK /\ RowsOK /\ RequestsOK /\ DependenciesOn

Row == PluginStateRecord \cup {Absent}

LEMMA NoRequestType == NoRequest \in PluginRequest /\ NoRequest.step = "idle"
<1>1. (CHOOSE p \in Plugins : TRUE) \in Plugins
  BY PluginAssumption
<1>2. QED
  BY <1>1 DEF NoRequest, PluginRequest

LEMMA AbsentType == ~Absent.enabled /\ Absent.lifecycle_state = "absent" /\ Absent \notin PluginStateRecord
<1>1. ~Absent.enabled /\ Absent.lifecycle_state = "absent"
  BY DEF Absent
<1>2. \A row \in PluginStateRecord : row.lifecycle_state # "absent"
  BY DEF PluginStateRecord, LIFECYCLE_STATES
<1>3. QED
  BY <1>1, <1>2

\* A plugin of the bundle has a version, and one that has a row has it as the fields of a record.
LEMMA PluginFields ==
  ASSUME PluginInv, NEW p \in Plugins
  PROVE  /\ p \in manifests => bundle[p] \in Versions
         /\ prow[p] \in Row /\ RowOK(prow[p])
         /\ prow[p] # Absent => /\ prow[p].enabled \in BOOLEAN /\ prow[p].installed_version \in Versions
                                /\ prow[p].lifecycle_state \in LIFECYCLE_STATES
                                /\ prow[p].previous_version \in 0 .. MaxVersion
         /\ Installed(p) => prow[p] # Absent
<1>1. bundle[p] \in 0 .. MaxVersion /\ prow[p] \in Row /\ RowOK(prow[p])
  BY DEF PluginInv, PluginTypeOK, RowsOK, Row
<1>2. p \in manifests => bundle[p] \in Versions
  BY <1>1, PluginAssumption DEF manifests, Versions
<1>3. prow[p] # Absent => prow[p] \in PluginStateRecord
  BY <1>1 DEF Row
<1>4. Installed(p) => prow[p] # Absent
  BY AbsentType DEF Installed
<1>5. QED
  BY <1>1, <1>2, <1>3, <1>4 DEF PluginStateRecord

\* A step that changes one request and no row, and leaves that request sound, keeps the invariant.
LEMMA RequestMoves ==
  ASSUME PluginInv, NEW t \in PluginThreads, NEW r \in PluginRequest, WorkOK(r), FreshOK(r)',
         prequest' = [prequest EXCEPT ![t] = r], UNCHANGED <<prow, bundle>>,
         disturbed' \in BOOLEAN, disturbed => disturbed'
  PROVE  PluginInv'
<1> USE DEF PluginInv
<1>1. PluginTypeOK'
  BY DEF PluginTypeOK
<1>2. manifests' = manifests
  BY DEF manifests
<1>3. RowsOK' /\ DependenciesOn'
  BY <1>2 DEF RowsOK, RowOK, DependenciesOn
<1>4. ASSUME NEW u \in PluginThreads PROVE WorkOK(prequest[u])' /\ FreshOK(prequest[u])'
  <2>1. CASE u = t
    <3>1. prequest'[u] = r
      BY <2>1 DEF PluginTypeOK
    <3>2. WorkOK(r)'
      BY <1>2 DEF WorkOK, RowOK
    <3>3. QED
      BY <1>2, <3>1, <3>2 DEF WorkOK, FreshOK, TestsOK, VersionOK, RowOK, enabled_dependants
  <2>2. CASE u # t
    <3>1. prequest'[u] = prequest[u]
      BY <2>2 DEF PluginTypeOK
    <3>2. WorkOK(prequest[u]) /\ FreshOK(prequest[u])
      BY DEF RequestsOK
    <3>3. WorkOK(prequest[u])'
      BY <1>2, <3>1, <3>2 DEF WorkOK, RowOK
    <3>4. FreshOK(prequest[u])'
      BY <1>2, <3>1, <3>2 DEF FreshOK, TestsOK, VersionOK, enabled_dependants
    <3>5. QED
      BY <3>3, <3>4
  <2>3. QED
    BY <2>1, <2>2
<1>5. RequestsOK'
  BY <1>4 DEF RequestsOK
<1>6. QED
  BY <1>1, <1>3, <1>5

\* A step that writes the row of one request keeps it too, unless it turns a plugin on without its
\* dependencies, or off under a dependant.
LEMMA RowWritten ==
  ASSUME PluginInv, NEW t \in PluginThreads, NEW row \in PluginStateRecord, NEW then \in PluginRequest,
         NEW p \in Plugins, p = prequest[t].plugin,
         prequest[t].step # "idle", Write(t, row, then), RowOK(row), WorkOK(then), FreshOK(then)',
         prequest[t].stale = {} /\ row.enabled => prow[p].enabled \/ \A d \in Requires[p] : d = p \/ prow[d].enabled,
         prequest[t].stale = {} /\ ~disturbed /\ ~row.enabled =>
           ~prow[p].enabled \/ \A q \in enabled_dependants(p) : q = p \/ ~prow[q].enabled
  PROVE  PluginInv'
<1> USE DEF PluginInv
<1>1. /\ prow' = [prow EXCEPT ![p] = row]
      /\ prequest' = [u \in PluginThreads |->
                        IF u = t THEN then
                        ELSE [prequest[u] EXCEPT !.stale = prequest[u].stale \cup ({p} \cap prequest[u].read)]]
      /\ disturbed' = (disturbed \/ prequest[t].stale # {}) /\ UNCHANGED bundle
  BY DEF Write
<1>2. manifests' = manifests /\ manifests \subseteq Plugins /\ p \in manifests
  <2>1. manifests' = manifests /\ manifests \subseteq Plugins
    BY <1>1 DEF manifests
  <2>2. WorkOK(prequest[t])
    BY DEF RequestsOK
  <2>3. QED
    BY <2>1, <2>2 DEF WorkOK
<1>3. \A q \in Plugins : prow'[q] = IF q = p THEN row ELSE prow[q]
  BY <1>1 DEF PluginTypeOK
<1>4. PluginTypeOK'
  <2>1. prow' \in [Plugins -> PluginStateRecord \cup {Absent}]
    BY <1>1 DEF PluginTypeOK
  <2>2. \A u \in PluginThreads : prequest[u] \in PluginRequest /\ prequest[u].stale \in SUBSET Plugins
    BY DEF PluginTypeOK, PluginRequest
  <2>3. ASSUME NEW u \in PluginThreads, NEW b \in SUBSET Plugins
        PROVE  [prequest[u] EXCEPT !.stale = b] \in PluginRequest
    BY <2>2 DEF PluginRequest
  <2>4. ASSUME NEW u \in PluginThreads PROVE prequest'[u] \in PluginRequest
    <3>1. PICK b \in SUBSET Plugins : b = prequest[u].stale \cup ({p} \cap prequest[u].read)
      BY <2>2
    <3>2. prequest'[u] = IF u = t THEN then ELSE [prequest[u] EXCEPT !.stale = b]
      BY <1>1, <3>1
    <3>3. QED
      BY <2>3, <3>2
  <2>5. prequest' \in [PluginThreads -> PluginRequest]
    BY <1>1, <2>4
  <2>6. disturbed' \in BOOLEAN
    BY <1>1, <2>2 DEF PluginTypeOK
  <2>7. QED
    BY <1>1, <2>1, <2>5, <2>6 DEF PluginTypeOK
<1>5. RowsOK'
  BY <1>2, <1>3, AbsentType DEF RowsOK, RowOK
<1>6. DependenciesOn'
  <2> SUFFICES ASSUME ~disturbed', NEW x \in manifests, prow'[x].enabled, NEW d \in Requires[x]
               PROVE  prow'[d].enabled
    BY <1>2 DEF DependenciesOn
  <2>1. x \in Plugins /\ d \in Plugins /\ ~disturbed /\ prequest[t].stale = {} /\ x \in enabled_dependants(d)
    BY <1>1, <1>2, PluginAssumption DEF enabled_dependants
  <2>2. CASE prow[x].enabled
    <3>1. prow[d].enabled
      BY <2>1, <2>2 DEF DependenciesOn
    <3>2. QED
      BY <1>3, <2>1, <2>2, <3>1
  <2>3. CASE ~prow[x].enabled
    BY <1>3, <2>1, <2>3
  <2>4. QED
    BY <2>2, <2>3
<1>7. ASSUME NEW u \in PluginThreads PROVE WorkOK(prequest[u])' /\ FreshOK(prequest[u])'
  <2>1. CASE u = t
    <3>1. prequest'[u] = then
      BY <1>1, <2>1
    <3>2. WorkOK(then)'
      BY <1>2 DEF WorkOK, RowOK
    <3>3. QED
      BY <1>2, <3>1, <3>2 DEF WorkOK, FreshOK, TestsOK, VersionOK, RowOK, enabled_dependants
  <2>2. CASE u # t
    <3>1. prequest[u] \in PluginRequest /\ WorkOK(prequest[u]) /\ FreshOK(prequest[u])
      BY DEF PluginTypeOK, RequestsOK
    <3>2. PICK r : r = prequest'[u]
      OBVIOUS
    <3>3. /\ r.step = prequest[u].step /\ r.plugin = prequest[u].plugin /\ r.todo = prequest[u].todo
          /\ r.read = prequest[u].read /\ r.next = prequest[u].next
          /\ r.stale = prequest[u].stale \cup ({p} \cap prequest[u].read)
      BY <1>1, <2>2, <3>1, <3>2 DEF PluginRequest
    <3>4. WorkOK(prequest[u])'
      BY <1>2, <3>1, <3>2, <3>3 DEF WorkOK, RowOK
    <3>5. ASSUME r.step # "idle", r.stale = {} PROVE TestsOK(prequest[u])'
      <4>1. \A q \in prequest[u].read : prow'[q] = prow[q]
        BY <1>3, <3>1, <3>3, <3>5 DEF PluginRequest
      <4>2. prequest[u].stale = {} /\ prequest[u].plugin \in prequest[u].read /\ (disturbed => disturbed')
        BY <1>1, <3>1, <3>3, <3>5 DEF WorkOK
      <4>3. prow'[r.plugin] = prow[r.plugin] /\ enabled_dependants(r.plugin)' = enabled_dependants(r.plugin)
        BY <1>2, <3>3, <4>1, <4>2 DEF enabled_dependants
      <4>4. r.step = "test_on" => \A q \in Requires[r.plugin] \ r.todo : q \in r.read /\ prow'[q].enabled
        BY <3>1, <3>3, <3>5, <4>1, <4>2 DEF FreshOK, TestsOK, VersionOK
      <4>5. r.step = "test_off" =>
              \A q \in enabled_dependants(r.plugin) \ r.todo : q \in r.read /\ (~disturbed' => ~prow'[q].enabled)
        BY <3>1, <3>3, <3>5, <4>1, <4>2 DEF FreshOK, TestsOK, VersionOK
      <4>6. r.step \in {"write", "update"} => r.next.enabled = prow'[r.plugin].enabled
        BY <3>1, <3>3, <3>5, <4>2, <4>3 DEF FreshOK, TestsOK, VersionOK
      <4>7. QED
        BY <3>2, <4>3, <4>4, <4>5, <4>6 DEF TestsOK
    <3>6. ASSUME r.step # "idle", r.plugin \notin r.stale PROVE VersionOK(prequest[u])'
      <4>1. r.plugin # p /\ r.plugin \notin prequest[u].stale /\ r.plugin \in Plugins
        BY <3>1, <3>3, <3>6 DEF WorkOK, PluginRequest
      <4>2. prow'[r.plugin] = prow[r.plugin]
        BY <1>3, <4>1
      <4>3. /\ r.step = "update" => r.next = prow'[r.plugin]
            /\ \/ prow'[r.plugin] = Absent \/ r.next.installed_version = prow'[r.plugin].installed_version
               \/ r.next.previous_version = prow'[r.plugin].installed_version
        BY <3>1, <3>3, <3>6, <4>1, <4>2, ZenonT(60) DEF FreshOK, TestsOK, VersionOK
      <4>4. QED
        BY <3>2, <4>3 DEF VersionOK
    <3>7. FreshOK(prequest[u])'
      BY <3>2, <3>5, <3>6 DEF FreshOK, TestsOK, VersionOK
    <3>8. QED
      BY <3>4, <3>7
  <2>3. QED
    BY <2>1, <2>2
<1>8. RequestsOK'
  BY <1>7 DEF RequestsOK
<1>9. QED
  BY <1>4, <1>5, <1>6, <1>8

\* A request starts with what it has read of its own plugin.
LEMMA RequestStarts ==
  ASSUME PluginInv, NEW t \in PluginThreads, NEW p \in manifests, NEW todo \in SUBSET Plugins,
         NEW step \in {"test_on", "test_off", "write", "update"}, NEW next \in PluginStateRecord,
         Start(t, step, p, todo, next), RowOK(next),
         step = "test_on" => Requires[p] \subseteq todo /\ next.enabled,
         step = "test_off" => enabled_dependants(p) \subseteq todo /\ ~next.enabled,
         step \in {"write", "update"} => next.enabled = prow[p].enabled,
         step = "update" => next = prow[p],
         \/ prow[p] = Absent \/ next.installed_version = prow[p].installed_version
         \/ next.previous_version = prow[p].installed_version
  PROVE  PluginInv'
<1>1. PICK r : r = [step |-> step, plugin |-> p, todo |-> todo, read |-> {p}, stale |-> {}, next |-> next]
  OBVIOUS
<1>2. r \in PluginRequest
  BY <1>1 DEF PluginRequest, manifests
<1>3. prequest' = [prequest EXCEPT ![t] = r] /\ UNCHANGED <<prow, bundle, disturbed>>
  BY <1>1 DEF Start
<1>4. WorkOK(r)
  BY <1>1 DEF WorkOK
<1>5. FreshOK(r)'
  <2>1. prow' = prow /\ enabled_dependants(p)' = enabled_dependants(p)
    BY <1>3 DEF enabled_dependants, manifests
  <2>2. QED
    BY <1>1, <2>1 DEF FreshOK, TestsOK, VersionOK
<1>6. disturbed' \in BOOLEAN
  BY <1>3 DEF PluginInv, PluginTypeOK
<1>7. QED
  BY <1>2, <1>3, <1>4, <1>5, <1>6, RequestMoves

LEMMA RoutesKeep ==
  ASSUME PluginInv, NEW t \in PluginThreads, NEW p \in Plugins, Route(t, p)
  PROVE  PluginInv'
<1> USE PluginFields
<1>1. LIFECYCLE_STATES = {"installed", "enabled", "disabled", "updating", "rollback_available", "uninstalled"}
  BY DEF LIFECYCLE_STATES
<1>2. Requires[p] \in SUBSET Plugins /\ enabled_dependants(p) \in SUBSET Plugins
  BY PluginAssumption DEF enabled_dependants, manifests
<1>3. CASE install(t, p)
  <2>1. PICK previous : previous = IF prow[p] = Absent THEN 0 ELSE prow[p].installed_version
    OBVIOUS
  <2>2. p \in manifests /\ ~Installed(p) /\ bundle[p] \in Versions /\ previous \in 0 .. MaxVersion
    BY <1>3, <2>1, PluginAssumption DEF install, Versions
  <2>3. PICK next : next = Record(FALSE, bundle[p], "installed", previous)
    OBVIOUS
  <2>4. next \in PluginStateRecord /\ ~next.enabled /\ next.enabled \in BOOLEAN /\ next.previous_version = previous
    BY <1>1, <2>2, <2>3 DEF Record, PluginStateRecord, LIFECYCLE_STATES
  <2>5. ~prow[p].enabled
    BY <2>2 DEF RowOK, Installed
  <2>6. next.enabled = prow[p].enabled
    <3>1. prow[p].enabled \in BOOLEAN
      <4>1. Absent.enabled = FALSE
        BY DEF Absent
      <4>2. QED
        BY <4>1
    <3>2. QED
      BY <2>4, <2>5, <3>1
  <2>7. Start(t, "write", p, {}, next)
    BY <1>3, <2>1, <2>3 DEF install
  <2>8. QED
    BY <2>1, <2>2, <2>4, <2>6, <2>7, RequestStarts DEF RowOK
<1>4. CASE enable(t, p)
  <2>1. p \in manifests /\ Installed(p)
    BY <1>4 DEF enable
  <2>2. PICK next : next = Record(TRUE, prow[p].installed_version, "enabled", prow[p].previous_version)
    OBVIOUS
  <2>3. /\ next \in PluginStateRecord /\ next.lifecycle_state = "enabled" /\ next.enabled
        /\ next.installed_version = prow[p].installed_version
    BY <1>1, <2>1, <2>2 DEF Record, PluginStateRecord, LIFECYCLE_STATES
  <2>4. Start(t, "test_on", p, Requires[p], next)
    BY <1>4, <2>2 DEF enable
  <2>5. QED
    BY <1>2, <2>1, <2>3, <2>4, RequestStarts DEF RowOK
<1>5. CASE disable(t, p)
  <2>1. p \in manifests /\ Installed(p)
    BY <1>5 DEF disable
  <2>2. PICK next : next = Record(FALSE, prow[p].installed_version, "disabled", prow[p].previous_version)
    OBVIOUS
  <2>3. next \in PluginStateRecord /\ ~next.enabled /\ next.installed_version = prow[p].installed_version
    BY <1>1, <2>1, <2>2 DEF Record, PluginStateRecord, LIFECYCLE_STATES
  <2>4. Start(t, "test_off", p, enabled_dependants(p), next)
    BY <1>5, <2>2 DEF disable
  <2>5. QED
    BY <1>2, <2>1, <2>3, <2>4, RequestStarts DEF RowOK
<1>6. CASE uninstall(t, p)
  <2>1. p \in manifests /\ Installed(p)
    BY <1>6 DEF uninstall
  <2>2. PICK next : next = Record(FALSE, prow[p].installed_version, "uninstalled", prow[p].previous_version)
    OBVIOUS
  <2>3. next \in PluginStateRecord /\ ~next.enabled /\ next.installed_version = prow[p].installed_version
    BY <1>1, <2>1, <2>2 DEF Record, PluginStateRecord, LIFECYCLE_STATES
  <2>4. Start(t, "test_off", p, enabled_dependants(p), next)
    BY <1>6, <2>2 DEF uninstall
  <2>5. QED
    BY <1>2, <2>1, <2>3, <2>4, RequestStarts DEF RowOK
<1>7. CASE update(t, p)
  <2>1. p \in manifests /\ Installed(p) /\ Start(t, "update", p, {}, prow[p])
    BY <1>7 DEF update
  <2>2. prow[p] \in PluginStateRecord
    BY <2>1 DEF Row
  <2>3. QED
    BY <2>1, <2>2, RequestStarts
<1>8. CASE rollback(t, p)
  <2>1. p \in manifests /\ Installed(p)
    BY <1>8 DEF rollback
  <2>2. PICK state \in {"enabled", "disabled"} : state = IF prow[p].enabled THEN "enabled" ELSE "disabled"
    OBVIOUS
  <2>3. prow[p].installed_version \in 0 .. MaxVersion
    BY <2>1, PluginAssumption DEF Versions
  <2>4. PICK next : next = Record(prow[p].enabled, bundle[p], state, prow[p].installed_version)
    OBVIOUS
  <2>5. next \in PluginStateRecord /\ next.enabled = prow[p].enabled /\ next.lifecycle_state = state
          /\ next.previous_version = prow[p].installed_version
    BY <1>1, <2>1, <2>2, <2>3, <2>4 DEF Record, PluginStateRecord, LIFECYCLE_STATES
  <2>6. Start(t, "write", p, {}, next)
    BY <1>8, <2>2, <2>4 DEF rollback
  <2>7. QED
    BY <2>1, <2>2, <2>5, <2>6, RequestStarts DEF RowOK
<1>9. QED
  BY <1>3, <1>4, <1>5, <1>6, <1>7, <1>8 DEF Route

LEMMA TestKeeps ==
  ASSUME PluginInv, NEW t \in PluginThreads, TestOne(t)
  PROVE  PluginInv'
<1>1. prequest[t] \in PluginRequest /\ WorkOK(prequest[t]) /\ FreshOK(prequest[t])
  BY DEF PluginInv, PluginTypeOK, RequestsOK
<1>2. UNCHANGED <<prow, bundle>> /\ prequest[t].step \in {"test_on", "test_off"}
  BY DEF TestOne
<1>3. PICK q \in prequest[t].todo :
        IF is_enabled(q) = (prequest[t].step = "test_on")
        THEN /\ prequest' = [prequest EXCEPT ![t] = [prequest[t] EXCEPT !.todo = prequest[t].todo \ {q},
                                                                        !.read = prequest[t].read \cup {q}]]
             /\ disturbed' = (disturbed \/ (prow[q].enabled /\ ~is_enabled(q)))
        ELSE /\ prequest' = [prequest EXCEPT ![t] = NoRequest]
             /\ disturbed' = disturbed
  BY DEF TestOne, PluginInv, PluginTypeOK
<1>4. disturbed' \in BOOLEAN /\ (disturbed => disturbed')
  BY <1>3 DEF PluginInv, PluginTypeOK
<1>5. CASE is_enabled(q) = (prequest[t].step = "test_on")
  <2>1. PICK r : r = [prequest[t] EXCEPT !.todo = prequest[t].todo \ {q}, !.read = prequest[t].read \cup {q}]
    OBVIOUS
  <2>2. /\ r \in PluginRequest /\ r.step = prequest[t].step /\ r.plugin = prequest[t].plugin
        /\ r.next = prequest[t].next /\ r.stale = prequest[t].stale
        /\ r.todo = prequest[t].todo \ {q} /\ r.read = prequest[t].read \cup {q}
    BY <1>1, <2>1 DEF PluginRequest
  <2>3. WorkOK(r)
    BY <1>1, <2>2 DEF WorkOK
  <2>4. FreshOK(r)'
    <3>1. enabled_dependants(r.plugin)' = enabled_dependants(r.plugin)
      BY <1>2 DEF enabled_dependants, manifests
    <3>2. r.step = "test_on" => prow[q].enabled
      BY <1>5, <2>2 DEF is_enabled, Enabled
    <3>3. r.step = "test_off" => (~disturbed' => ~prow[q].enabled)
      BY <1>3, <1>5, <2>2
    <3>4. r.step \in {"test_on", "test_off"} /\ prow' = prow
      BY <1>2, <2>2
    <3>5. r.step = "test_on" /\ r.stale = {} =>
            \A d \in Requires[r.plugin] \ r.todo : d \in r.read /\ prow[d].enabled
      BY <1>1, <2>2, <3>2 DEF FreshOK, TestsOK, VersionOK
    <3>6. r.step = "test_off" /\ r.stale = {} =>
            \A d \in enabled_dependants(r.plugin) \ r.todo : d \in r.read /\ (~disturbed' => ~prow[d].enabled)
      BY <1>1, <1>4, <2>2, <3>3 DEF FreshOK, TestsOK, VersionOK
    <3>7. r.plugin \notin r.stale =>
                      \/ prow[r.plugin] = Absent \/ r.next.installed_version = prow[r.plugin].installed_version
                      \/ r.next.previous_version = prow[r.plugin].installed_version
      BY <1>1, <1>2, <2>2 DEF FreshOK, TestsOK, VersionOK
    <3>8. QED
      BY <3>1, <3>4, <3>5, <3>6, <3>7 DEF FreshOK, TestsOK, VersionOK
  <2>5. prequest' = [prequest EXCEPT ![t] = r]
    BY <1>3, <1>5, <2>1
  <2>6. QED
    BY <1>2, <1>4, <2>2, <2>3, <2>4, <2>5, RequestMoves
<1>6. CASE ~(is_enabled(q) = (prequest[t].step = "test_on"))
  <2>1. WorkOK(NoRequest) /\ FreshOK(NoRequest)'
    BY NoRequestType DEF WorkOK, FreshOK, TestsOK, VersionOK
  <2>2. QED
    BY <1>2, <1>3, <1>4, <1>6, <2>1, NoRequestType, RequestMoves
<1>7. QED
  BY <1>5, <1>6

\* A request that has been tested, or need not be, writes its row.
LEMMA WriteKeeps ==
  ASSUME PluginInv, NEW t \in PluginThreads, set_state(t)
  PROVE  PluginInv'
<1>1. PICK r : r = prequest[t]
  OBVIOUS
<1>2. /\ r \in PluginRequest /\ WorkOK(r) /\ FreshOK(r)
      /\ r.step \in {"write", "test_on", "test_off"} /\ Write(t, r.next, NoRequest)
      /\ r.step \in {"test_on", "test_off"} => r.todo = {}
  BY <1>1 DEF set_state, Tested, PluginInv, PluginTypeOK, RequestsOK
<1>3. PICK p \in Plugins : p = r.plugin
  BY <1>2 DEF PluginRequest
<1>4. WorkOK(NoRequest) /\ FreshOK(NoRequest)'
  BY NoRequestType DEF WorkOK, FreshOK, TestsOK, VersionOK
<1>5. ASSUME r.stale = {}, r.next.enabled PROVE prow[p].enabled \/ \A d \in Requires[p] : d = p \/ prow[d].enabled
  BY <1>2, <1>3, <1>5 DEF FreshOK, TestsOK, VersionOK, WorkOK
<1>6. ASSUME r.stale = {}, ~disturbed, ~r.next.enabled
      PROVE  ~prow[p].enabled \/ \A q \in enabled_dependants(p) : q = p \/ ~prow[q].enabled
  <2>1. CASE r.step = "test_on"
    BY <1>2, <1>6, <2>1 DEF WorkOK
  <2>2. CASE r.step # "test_on"
    BY <1>2, <1>3, <1>6, <2>2 DEF FreshOK, TestsOK, VersionOK
  <2>3. QED
    BY <2>1, <2>2
<1>7. r.next \in PluginStateRecord /\ RowOK(r.next) /\ r.step # "idle"
  BY <1>2 DEF WorkOK
<1>8. QED
  BY <1>1, <1>2, <1>3, <1>4, <1>5, <1>6, <1>7, NoRequestType, RowWritten

\* An update writes its row twice, and keeps the plugin on, or off, as it was.
LEMMA UpdateKeeps ==
  ASSUME PluginInv, NEW t \in PluginThreads, set_updating(t)
  PROVE  PluginInv'
<1>1. PICK r : r = prequest[t]
  OBVIOUS
<1>2. r \in PluginRequest /\ WorkOK(r) /\ FreshOK(r) /\ r.step = "update"
  BY <1>1 DEF set_updating, PluginInv, PluginTypeOK, RequestsOK
<1>3. PICK p \in Plugins : p = r.plugin
  BY <1>2 DEF PluginRequest
<1>4. r.next \in PluginStateRecord /\ RowOK(r.next) /\ p \in manifests /\ bundle[p] \in Versions
  BY <1>2, <1>3, PluginFields DEF WorkOK
<1>5. PICK row : row = [r.next EXCEPT !.lifecycle_state = "updating"]
  OBVIOUS
<1>6. /\ row \in PluginStateRecord /\ RowOK(row) /\ row.enabled = r.next.enabled
      /\ row.installed_version = r.next.installed_version
  BY <1>4, <1>5 DEF PluginStateRecord, LIFECYCLE_STATES, RowOK
<1>7. PICK last : last = Record(r.next.enabled, bundle[p], "rollback_available", r.next.installed_version)
  OBVIOUS
<1>8. /\ last \in PluginStateRecord /\ RowOK(last) /\ last.enabled = r.next.enabled
      /\ last.previous_version = r.next.installed_version
  BY <1>4, <1>7, PluginAssumption DEF Record, PluginStateRecord, LIFECYCLE_STATES, RowOK, Versions
<1>9. PICK then : then = [r EXCEPT !.step = "write", !.next = last]
  OBVIOUS
<1>10. /\ then \in PluginRequest /\ then.step = "write" /\ then.next = last /\ then.plugin = p
       /\ then.read = r.read /\ then.stale = r.stale
  BY <1>2, <1>3, <1>8, <1>9 DEF PluginRequest
<1>11. Write(t, row, then)
  BY <1>1, <1>3, <1>5, <1>7, <1>9 DEF set_updating
<1>12. WorkOK(then)
  BY <1>2, <1>3, <1>8, <1>10 DEF WorkOK
<1>13. p \notin r.stale => r.next = prow[p]
  BY <1>2, <1>3 DEF FreshOK, TestsOK, VersionOK
<1>14. FreshOK(then)'
  <2>1. prow'[p] = row
    BY <1>1, <1>3, <1>11 DEF Write, PluginInv, PluginTypeOK
  <2>2. QED
    BY <1>6, <1>8, <1>10, <2>1 DEF FreshOK, TestsOK, VersionOK
<1>15. r.stale = {} /\ row.enabled => prow[p].enabled \/ \A d \in Requires[p] : d = p \/ prow[d].enabled
  BY <1>6, <1>13
<1>16. r.stale = {} /\ ~disturbed /\ ~row.enabled =>
         ~prow[p].enabled \/ \A q \in enabled_dependants(p) : q = p \/ ~prow[q].enabled
  BY <1>6, <1>13
<1>17. QED
  BY <1>1, <1>2, <1>3, <1>6, <1>10, <1>11, <1>12, <1>14, <1>15, <1>16, RowWritten

\* The rows a bundle finds when it has none of its own.
LEMMA DefaultRows ==
  ASSUME NEW rows \in [Plugins -> Row], NEW b \in Bundles, \A p \in Plugins : RowOK(rows[p])
  PROVE  /\ WithDefaults(rows, b) \in [Plugins -> Row]
         /\ \A p \in Plugins :
              /\ RowOK(WithDefaults(rows, b)[p])
              /\ b[p] # 0 => WithDefaults(rows, b)[p] # Absent
              /\ b[p] = 0 \/ rows[p] # Absent => WithDefaults(rows, b)[p] = rows[p]
              /\ b[p] # 0 /\ rows[p] = Absent =>
                   /\ WithDefaults(rows, b)[p].enabled = (p \in DefaultEnabled)
                   /\ WithDefaults(rows, b)[p].lifecycle_state # "updating"
<1>1. b \in [Plugins -> 0 .. MaxVersion]
  BY DEF Bundles
<1>2. ASSUME NEW p \in Plugins, b[p] # 0, rows[p] = Absent
      PROVE  /\ WithDefaults(rows, b)[p] \in PluginStateRecord /\ RowOK(WithDefaults(rows, b)[p])
             /\ WithDefaults(rows, b)[p].enabled = (p \in DefaultEnabled)
             /\ WithDefaults(rows, b)[p].lifecycle_state # "updating"
  <2>1. PICK state \in {"enabled", "disabled"} : state = IF p \in DefaultEnabled THEN "enabled" ELSE "disabled"
    OBVIOUS
  <2>2. PICK on : on = (p \in DefaultEnabled)
    OBVIOUS
  <2>3. WithDefaults(rows, b)[p] = Record(on, b[p], state, 0) /\ on \in BOOLEAN
    BY <1>2, <2>1, <2>2 DEF WithDefaults
  <2>4. b[p] \in Versions
    BY <1>1, <1>2, PluginAssumption DEF Versions
  <2>5. Record(on, b[p], state, 0) \in PluginStateRecord
    BY <2>1, <2>3, <2>4, PluginAssumption DEF Record, PluginStateRecord, LIFECYCLE_STATES
  <2>6. Record(on, b[p], state, 0).enabled = on /\ Record(on, b[p], state, 0).lifecycle_state = state
    BY DEF Record
  <2>7. QED
    BY <2>1, <2>2, <2>3, <2>5, <2>6 DEF RowOK
<1>3. ASSUME NEW p \in Plugins, b[p] = 0 \/ rows[p] # Absent PROVE WithDefaults(rows, b)[p] = rows[p]
  BY <1>3 DEF WithDefaults
<1>4. \A p \in Plugins : WithDefaults(rows, b)[p] \in Row
  BY <1>2, <1>3 DEF Row
<1>5. WithDefaults(rows, b) \in [Plugins -> Row]
  <2>1. WithDefaults(rows, b) = [p \in Plugins |-> WithDefaults(rows, b)[p]]
    BY DEF WithDefaults
  <2>2. QED
    BY <1>4, <2>1
<1>6. QED
  BY <1>2, <1>3, <1>5, AbsentType

LEMMA PluginInitInv == PluginInit => PluginInv
<1> SUFFICES ASSUME PluginInit PROVE PluginInv
  OBVIOUS
<1>1. PICK rows : rows = [p \in Plugins |-> Absent]
  OBVIOUS
<1>2. /\ rows \in [Plugins -> Row] /\ \A p \in Plugins : rows[p] = Absent /\ RowOK(rows[p])
      /\ bundle \in Bundles /\ prow = WithDefaults(rows, bundle) /\ disturbed = FALSE
      /\ prequest = [t \in PluginThreads |-> NoRequest]
  BY <1>1, AbsentType DEF PluginInit, Row, RowOK
<1>3. PluginTypeOK
  BY <1>2, DefaultRows, NoRequestType DEF PluginTypeOK, Row, Bundles
<1>4. RowsOK
  BY <1>2, DefaultRows DEF RowsOK, manifests
<1>5. RequestsOK
  BY <1>2, NoRequestType DEF RequestsOK, WorkOK, FreshOK, TestsOK, VersionOK
<1>6. DependenciesOn
  <2> SUFFICES ASSUME NEW p \in manifests, prow[p].enabled, NEW d \in Requires[p] PROVE prow[d].enabled
    BY DEF DependenciesOn
  <2>1. p \in Plugins /\ d \in Plugins /\ bundle[p] # 0 /\ bundle[d] # 0
    BY <1>2, PluginAssumption DEF manifests, Bundles
  <2>2. p \in DefaultEnabled
    <3>1. rows[p] = Absent /\ prow[p].enabled = (p \in DefaultEnabled)
      BY <1>2, <2>1, DefaultRows, ZenonT(60)
    <3>2. QED
      BY <3>1
  <2>3. d \in DefaultEnabled
    BY <2>2, PluginAssumption
  <2>4. QED
    BY <1>2, <2>1, <2>3, DefaultRows
<1>7. QED
  BY <1>3, <1>4, <1>5, <1>6 DEF PluginInv

\* A deployment leaves the rows there are, and starts with no request under way.
LEMMA DeployKeeps ==
  ASSUME PluginInv, NEW b \in Bundles, Deploy(b)
  PROVE  PluginInv'
<1> USE DEF PluginInv
<1>1. /\ prow \in [Plugins -> Row] /\ (\A p \in Plugins : RowOK(prow[p])) /\ prow' = WithDefaults(prow, b)
      /\ bundle' = b /\ b \in [Plugins -> 0 .. MaxVersion]
      /\ prequest' = [t \in PluginThreads |-> NoRequest]
  BY DEF Deploy, PluginTypeOK, RowsOK, Row, Bundles
<1>2. PluginTypeOK'
  BY <1>1, DefaultRows, NoRequestType DEF PluginTypeOK, Row, Deploy
<1>3. RowsOK'
  BY <1>1, DefaultRows DEF RowsOK, manifests
<1>4. RequestsOK'
  BY <1>1, NoRequestType DEF RequestsOK, WorkOK, FreshOK, TestsOK, VersionOK
<1>5. DependenciesOn'
  <2> SUFFICES ASSUME ~disturbed', NEW p \in Plugins, b[p] # 0, prow'[p].enabled, NEW d \in Requires[p]
               PROVE  prow'[d].enabled
    BY <1>1 DEF DependenciesOn, manifests
  <2>1. d \in Plugins /\ b[d] # 0
    BY PluginAssumption DEF Bundles
  <2>2. CASE bundle[p] = 0
    <3>1. ~(Enabled(prow'[p]) /\ ~Enabled(prow'[d])) /\ prow[p].lifecycle_state # "updating"
      BY <2>2 DEF Deploy
    <3>2. prow'[p].lifecycle_state # "updating" /\ RowOK(prow'[p])
      BY <1>1, <3>1, DefaultRows
    <3>3. Enabled(prow'[p])
      BY <3>2 DEF Enabled, RowOK
    <3>4. QED
      BY <3>1, <3>3 DEF Enabled
  <2>3. CASE bundle[p] # 0
    <3>1. p \in manifests /\ prow[p] # Absent /\ ~disturbed
      BY <2>3 DEF manifests, RowsOK, Deploy
    <3>2. prow'[p] = prow[p]
      BY <1>1, <3>1, DefaultRows
    <3>3. prow[d].enabled
      BY <3>1, <3>2 DEF DependenciesOn
    <3>4. prow'[d] = prow[d]
      BY <1>1, <2>1, <3>3, AbsentType, DefaultRows
    <3>5. QED
      BY <3>3, <3>4
  <2>4. QED
    BY <2>2, <2>3
<1>6. QED
  BY <1>2, <1>3, <1>4, <1>5

LEMMA PluginStepInv == PluginInv /\ [PluginNext]_pluginvars => PluginInv'
<1> SUFFICES ASSUME PluginInv, [PluginNext]_pluginvars PROVE PluginInv'
  OBVIOUS
<1>1. CASE UNCHANGED pluginvars
  BY <1>1 DEF pluginvars, PluginInv, PluginTypeOK, RowsOK, RowOK, RequestsOK, WorkOK, FreshOK, TestsOK, VersionOK, DependenciesOn,
              manifests, enabled_dependants
<1>2. CASE PluginNext
  BY <1>2, RoutesKeep, TestKeeps, WriteKeeps, UpdateKeeps, DeployKeeps DEF PluginNext
<1>3. QED
  BY <1>1, <1>2

LEMMA PluginInvariant == PluginSpec => []PluginInv
  BY PluginInitInv, PluginStepInv, PTL DEF PluginSpec

\* A plugin that is on has every plugin it requires on, or in the middle of its own update, as long as
\* no request writes on a row it had read and another has changed since, and with the other three
\* cases `disturbed` names left out (pg_plugin_runtime/runtime.py: enable and disable).
THEOREM DependenciesKept == PluginSpec => []DependenciesHold
<1>1. PluginInv => DependenciesHold
  <2> SUFFICES ASSUME PluginInv, ~disturbed, NEW p \in manifests, is_enabled(p), NEW d \in Requires[p]
               PROVE  is_enabled(d) \/ (prow[d].enabled /\ prow[d].lifecycle_state = "updating")
    BY DEF DependenciesHold
  <2>1. d \in Plugins /\ prow[d].enabled /\ RowOK(prow[d])
    BY PluginAssumption DEF PluginInv, DependenciesOn, RowsOK, manifests, is_enabled, Enabled
  <2>2. QED
    BY <2>1 DEF RowOK, is_enabled, Enabled
<1>2. QED
  BY <1>1, PluginInvariant, PTL

\* A version that is replaced is the one recorded to go back to, in every step but a lost update: cut-off
\* updates, other bundles and plugins that are off are no exception (pg_plugin_runtime/runtime.py: update
\* and rollback).
THEOREM RollbackKept == PluginSpec => ReplacedVersionKept
<1>1. PluginInv /\ [PluginNext]_pluginvars =>
        [\A p \in Plugins :
           (prow[p] # Absent /\ prow'[p].installed_version # prow[p].installed_version)
             => \/ prow'[p].previous_version = prow[p].installed_version
                \/ \E t \in PluginThreads : Overwrites(t, p)]_pluginvars
  <2> SUFFICES ASSUME PluginInv, PluginNext, NEW p \in Plugins, prow[p] # Absent,
                      prow'[p].installed_version # prow[p].installed_version
               PROVE  \/ prow'[p].previous_version = prow[p].installed_version
                      \/ \E t \in PluginThreads : Overwrites(t, p)
    BY Zenon
  <2>1. prow' # prow /\ prow \in [Plugins -> Row] /\ \A x \in Plugins : RowOK(prow[x])
    BY DEF PluginInv, PluginTypeOK, RowsOK, Row
  <2>2. ASSUME NEW b \in Bundles, Deploy(b) PROVE FALSE
    BY <2>1, <2>2, DefaultRows DEF Deploy
  <2>3. ASSUME NEW t \in PluginThreads, set_state(t), ~Overwrites(t, p)
        PROVE  prow'[p].previous_version = prow[p].installed_version
    <3>1. VersionOK(prequest[t]) /\ prequest[t].step # "idle"
      BY <2>3 DEF PluginInv, RequestsOK, FreshOK, set_state
    <3>2. prow' = [prow EXCEPT ![prequest[t].plugin] = prequest[t].next]
      BY <2>3 DEF set_state, Write
    <3>3. prow'[p] = prequest[t].next /\ p = prequest[t].plugin
      BY <2>1, <3>2
    <3>4. prequest'[t] # prequest[t]
      BY <2>3, <3>1, NoRequestType DEF set_state, Write
    <3>5. p \notin prequest[t].stale
      BY <2>3, <3>3, <3>4 DEF Overwrites
    <3>6. QED
      BY <3>1, <3>3, <3>5 DEF VersionOK
  <2>4. ASSUME NEW t \in PluginThreads, set_updating(t), ~Overwrites(t, p) PROVE FALSE
    <3>1. /\ VersionOK(prequest[t]) /\ WorkOK(prequest[t]) /\ prequest[t].step = "update"
          /\ prequest[t] \in PluginRequest
      BY <2>4 DEF PluginInv, PluginTypeOK, RequestsOK, FreshOK, set_updating
    <3>2. prow' = [prow EXCEPT ![prequest[t].plugin] = [prequest[t].next EXCEPT !.lifecycle_state = "updating"]]
      BY <2>4 DEF set_updating, Write
    <3>3. p = prequest[t].plugin
      BY <2>1, <3>2
    <3>4. prequest'[t].step = "write"
      BY <2>4, <3>1 DEF set_updating, Write, PluginRequest
    <3>5. p \notin prequest[t].stale
      BY <2>4, <3>1, <3>3, <3>4 DEF Overwrites
    <3>6. prequest[t].next \in PluginStateRecord /\ prequest[t].next = prow[p]
      BY <3>1, <3>3, <3>5 DEF VersionOK, WorkOK
    <3>7. prow'[p].installed_version = prow[p].installed_version
      BY <2>1, <3>2, <3>3, <3>6 DEF PluginStateRecord
    <3>8. QED
      BY <3>7
  <2>5. ASSUME NEW t \in PluginThreads, TestOne(t) PROVE FALSE
    BY <2>1, <2>5 DEF TestOne
  <2>6. ASSUME NEW t \in PluginThreads, NEW x \in Plugins, Route(t, x) PROVE FALSE
    BY <2>1, <2>6 DEF Route, install, enable, disable, uninstall, update, rollback, Start
  <2>7. QED
    BY <2>2, <2>3, <2>4, <2>5, <2>6 DEF PluginNext
<1>2. QED
  BY <1>1, PluginInvariant, PTL DEF PluginSpec, ReplacedVersionKept

-----------------------------------------------------------------------------
(* The types of all services. *)

\* No service of the host ever leaves its types, in any of the states that its requests, workers,
\* crashes and races reach; a gate never counts more threads than there are, and the one who failed
\* behind it (pg_api: plugins, maintenance.py, backup_restore.py; pg_knowledge).
THEOREM ServicesTyped ==
  PluginSpec /\ LockSpec /\ BackupSpec /\ RestoreSpec /\ KnowledgeSpec => []ServicesTypeOK
<1>1. PluginInv /\ LockTypeOK /\ BackupInv /\ RestoreInv /\ KnowledgeInv => ServicesTypeOK
  BY DEF PluginInv, BackupInv, RestoreInv, KnowledgeInv, ServicesTypeOK
<1>2. QED
  BY <1>1, PluginInvariant, LockTypes, BackupInvariant, RestoreInvariant, KnowledgeInvariant, PTL

-----------------------------------------------------------------------------
(* What the cache and the requests that come one at a time are sure of. *)

\* A search is on all the sources of its snapshot and on no other: an index from the cache answers as one
\* that is built anew would (interest_growth_native/knowledge.py: NativeRetrievalEngine._built).
THEOREM CacheTransparent ==
  KnowledgeSpec => []( /\ \A c \in cache : c.index = c.fp.sources
                       /\ loop.at = "search" => loop.index = loop.snap.sources )
<1>1. KnowledgeInv => /\ \A c \in cache : c.index = c.fp.sources
                      /\ loop.at = "search" => loop.index = loop.snap.sources
  BY DEF KnowledgeInv, CacheOK
<1>2. QED
  BY <1>1, KnowledgeInvariant, PTL

\* No request writes on a row that was changed since, and a plugin is "updating" only while the request
\* that updates it is under way, until a deployment cuts that short.
PluginSerial ==
  /\ \A t \in PluginThreads : /\ prequest[t].step # "idle" => prequest[t].stale = {}
                              /\ prequest[t].step \notin {"idle", "update"} =>
                                   prequest[t].next.lifecycle_state # "updating"
  /\ ~disturbed => \A p \in Plugins : prow[p].lifecycle_state = "updating" =>
                     \E t \in PluginThreads : prequest[t].step = "write" /\ prequest[t].plugin = p

LEMMA PluginSerialStep ==
  ASSUME \A t, u \in PluginThreads : t = u, PluginInv, PluginSerial, [PluginNext]_pluginvars
  PROVE  PluginSerial' /\ (disturbed' => disturbed \/ \E b \in Bundles : Deploy(b))
<1>1. PluginTypeOK /\ RowsOK /\ RequestsOK
  BY DEF PluginInv
<1>2. CASE UNCHANGED pluginvars
  BY <1>2 DEF pluginvars, PluginSerial
<1>3. ASSUME NEW t \in PluginThreads, NEW p \in Plugins, prequest[t].step = "idle", Route(t, p)
      PROVE  PluginSerial' /\ disturbed' = disturbed
  <2>1. PICK r : /\ prequest' = [prequest EXCEPT ![t] = r] /\ UNCHANGED <<prow, bundle, disturbed>>
                 /\ r.stale = {}
                 /\ r.step \notin {"idle", "update"} => r.next.lifecycle_state # "updating"
    <3>1. ASSUME NEW step, NEW todo, NEW next, Start(t, step, p, todo, next),
                 step # "update" => next.lifecycle_state # "updating"
          PROVE  \E r : /\ prequest' = [prequest EXCEPT ![t] = r] /\ UNCHANGED <<prow, bundle, disturbed>>
                        /\ r.stale = {}
                        /\ r.step \notin {"idle", "update"} => r.next.lifecycle_state # "updating"
      <4>1. PICK r : r = [step |-> step, plugin |-> p, todo |-> todo, read |-> {p}, stale |-> {}, next |-> next]
        OBVIOUS
      <4>2. r.step = step /\ r.stale = {} /\ r.next = next
        BY <4>1
      <4>3. prequest' = [prequest EXCEPT ![t] = r] /\ UNCHANGED <<prow, bundle, disturbed>>
        BY <3>1, <4>1, Zenon DEF Start
      <4>4. r.step \notin {"idle", "update"} => r.next.lifecycle_state # "updating"
        BY <3>1, <4>2
      <4>5. QED
        BY <4>2, <4>3, <4>4
    <3>2. ASSUME NEW on, NEW version, NEW state \in {"enabled", "disabled", "installed", "uninstalled"},
                 NEW previous
          PROVE  Record(on, version, state, previous).lifecycle_state # "updating"
      BY DEF Record
    <3>3. CASE install(t, p)
      BY <3>1, <3>2, <3>3 DEF install
    <3>4. CASE enable(t, p) \/ disable(t, p) \/ uninstall(t, p)
      BY <3>1, <3>2, <3>4 DEF enable, disable, uninstall
    <3>5. CASE update(t, p)
      BY <3>1, <3>5 DEF update
    <3>6. CASE rollback(t, p)
      BY <3>1, <3>2, <3>6 DEF rollback
    <3>7. QED
      BY <1>3, <3>3, <3>4, <3>5, <3>6 DEF Route
  <2>2. \A u \in PluginThreads : prequest'[u] = r
    BY <1>1, <2>1 DEF PluginTypeOK
  <2>3. \A u \in PluginThreads : prequest[u].step = "idle"
    BY <1>3
  <2>4. ~disturbed => \A x \in Plugins : prow[x].lifecycle_state # "updating"
    BY <2>3 DEF PluginSerial
  <2>5. QED
    BY <2>1, <2>2, <2>4 DEF PluginSerial
<1>4. ASSUME NEW t \in PluginThreads, TestOne(t)
      PROVE  PluginSerial' /\ disturbed' = disturbed
  <2>1. UNCHANGED prow /\ prequest[t].step \in {"test_on", "test_off"} /\ prequest[t] \in PluginRequest
    BY <1>1, <1>4 DEF TestOne, PluginTypeOK
  <2>2. ~disturbed => \A x \in Plugins : prow[x].lifecycle_state # "updating"
    BY <2>1 DEF PluginSerial
  <2>3. ASSUME ~disturbed, NEW q \in Plugins PROVE ~(prow[q].enabled /\ ~is_enabled(q))
    BY <1>1, <2>2, <2>3 DEF RowsOK, RowOK, is_enabled, Enabled
  <2>4. prequest[t].todo \subseteq Plugins
    BY <2>1 DEF PluginRequest
  <2>5. disturbed' = disturbed
    BY <1>1, <1>4, <2>3, <2>4 DEF TestOne, PluginTypeOK
  <2>6. PICK r : /\ prequest' = [prequest EXCEPT ![t] = r]
                 /\ r.step = "idle" \/ /\ r.step = prequest[t].step /\ r.stale = prequest[t].stale
                                       /\ r.next = prequest[t].next
    <3>1. CASE prequest' = [prequest EXCEPT ![t] = NoRequest]
      BY <3>1, NoRequestType
    <3>2. ASSUME NEW q, prequest' = [prequest EXCEPT ![t].todo = @ \ {q}, ![t].read = @ \cup {q}]
          PROVE  \E r : /\ prequest' = [prequest EXCEPT ![t] = r]
                        /\ r.step = prequest[t].step /\ r.stale = prequest[t].stale
                        /\ r.next = prequest[t].next
      <4>1. PICK r : r = [prequest[t] EXCEPT !.todo = @ \ {q}, !.read = @ \cup {q}]
        OBVIOUS
      <4>2. r.step = prequest[t].step /\ r.stale = prequest[t].stale /\ r.next = prequest[t].next
        BY <2>1, <4>1 DEF PluginRequest
      <4>3. prequest' = [prequest EXCEPT ![t] = r]
        BY <1>1, <3>2, <4>1 DEF PluginTypeOK
      <4>4. QED
        BY <4>2, <4>3
    <3>3. QED
      BY <1>4, <3>1, <3>2 DEF TestOne
  <2>7. \A u \in PluginThreads : prequest'[u] = r
    BY <1>1, <2>6 DEF PluginTypeOK
  <2>8. QED
    BY <2>1, <2>2, <2>5, <2>6, <2>7 DEF PluginSerial
<1>5. ASSUME NEW t \in PluginThreads, NEW row, NEW then, Write(t, row, then), prequest[t].step # "idle",
             then.step = "idle" \/ /\ then.step = "write" /\ then.stale = {} /\ then.plugin = prequest[t].plugin
                                   /\ then.next.lifecycle_state # "updating",
             row.lifecycle_state = "updating" => then.step = "write"
      PROVE  PluginSerial' /\ disturbed' = disturbed
  <2>1. disturbed' = disturbed
    BY <1>1, <1>5 DEF Write, PluginSerial, PluginTypeOK
  <2>2. \A u \in PluginThreads : prequest'[u] = then
    BY <1>5 DEF Write
  <2>3. \A p \in Plugins : prow'[p] = IF p = prequest[t].plugin THEN row ELSE prow[p]
    BY <1>1, <1>5 DEF Write, PluginTypeOK
  <2>4. ASSUME ~disturbed, NEW p \in Plugins, prow'[p].lifecycle_state = "updating"
        PROVE  p = prequest[t].plugin /\ then.step = "write"
    BY <1>5, <2>3, <2>4 DEF PluginSerial
  <2>5. QED
    BY <1>5, <2>1, <2>2, <2>4 DEF PluginSerial
<1>6. ASSUME NEW t \in PluginThreads, set_state(t)
      PROVE  PluginSerial' /\ disturbed' = disturbed
  BY <1>5, <1>6, NoRequestType DEF set_state, PluginSerial
<1>7. ASSUME NEW t \in PluginThreads, set_updating(t)
      PROVE  PluginSerial' /\ disturbed' = disturbed
  <2>1. PICK row, last, then :
          /\ Write(t, row, then) /\ prequest[t].step = "update"
          /\ last = Record(prequest[t].next.enabled, bundle[prequest[t].plugin], "rollback_available",
                           prequest[t].next.installed_version)
          /\ then = [prequest[t] EXCEPT !.step = "write", !.next = last]
    BY <1>7 DEF set_updating
  <2>2. last.lifecycle_state = "rollback_available"
    BY <2>1 DEF Record
  <2>3. prequest[t] \in PluginRequest /\ prequest[t].stale = {}
    BY <1>1, <2>1 DEF PluginTypeOK, PluginSerial
  <2>4. /\ then.step = "write" /\ then.stale = {} /\ then.plugin = prequest[t].plugin
        /\ then.next.lifecycle_state # "updating"
    BY <2>1, <2>2, <2>3 DEF PluginRequest
  <2>5. QED
    BY <1>5, <2>1, <2>4
<1>8. ASSUME NEW b \in Bundles, Deploy(b) PROVE PluginSerial'
  <2>1. \A p \in Plugins : prow'[p].lifecycle_state = "updating" => prow[p].lifecycle_state = "updating"
    BY <1>8 DEF Deploy, WithDefaults, Record
  <2>2. (\E p \in Plugins : prow[p].lifecycle_state = "updating") => disturbed'
    BY <1>8 DEF Deploy
  <2>3. \A t \in PluginThreads : prequest'[t].step = "idle"
    BY <1>8, NoRequestType DEF Deploy
  <2>4. QED
    BY <2>1, <2>2, <2>3 DEF PluginSerial
<1>9. QED
  BY <1>2, <1>3, <1>4, <1>6, <1>7, <1>8 DEF PluginNext, pluginvars

OnlyDeploymentsDisturb == [][disturbed' => disturbed \/ \E b \in Bundles : Deploy(b)]_pluginvars

ReplacedVersionAlwaysKept ==
  [][\A p \in Plugins : (prow[p] # Absent /\ prow'[p].installed_version # prow[p].installed_version)
       => prow'[p].previous_version = prow[p].installed_version]_pluginvars

\* With one request at a time only a deployment can leave a plugin on without what it requires, and no
\* update is lost, so the version that is replaced is always recorded: DependenciesHold excuses nothing
\* else than overlap and deployments, ReplacedVersionKept only overlap (pg_plugin_runtime/runtime.py).
THEOREM SerialPlugins ==
  ASSUME \A t, u \in PluginThreads : t = u
  PROVE  PluginSpec => OnlyDeploymentsDisturb /\ ReplacedVersionAlwaysKept
<1>1. PluginInit => PluginSerial
  BY NoRequestType DEF PluginInit, PluginSerial, WithDefaults, Record, Absent
<1>2. PluginInv /\ PluginSerial /\ [PluginNext]_pluginvars => PluginSerial'
  BY PluginSerialStep
<1>3. PluginInv /\ PluginSerial /\ [PluginNext]_pluginvars =>
        [disturbed' => disturbed \/ \E b \in Bundles : Deploy(b)]_pluginvars
  BY PluginSerialStep
<1>4. PluginInv /\ PluginSerial /\ [PluginNext]_pluginvars =>
        [\A p \in Plugins : (prow[p] # Absent /\ prow'[p].installed_version # prow[p].installed_version)
           => prow'[p].previous_version = prow[p].installed_version]_pluginvars
  <2> SUFFICES ASSUME PluginInv, PluginSerial, PluginNext, NEW p \in Plugins, prow[p] # Absent,
                      prow'[p].installed_version # prow[p].installed_version
               PROVE  prow'[p].previous_version = prow[p].installed_version
    BY Zenon
  <2>1. ASSUME NEW b \in Bundles, Deploy(b) PROVE FALSE
    BY <2>1, DefaultRows DEF Deploy, PluginInv, PluginTypeOK, RowsOK, Row
  <2>2. PICK t \in PluginThreads : set_state(t) \/ set_updating(t)
    BY <2>1 DEF PluginNext, TestOne, Route, install, enable, disable, uninstall, update, rollback, Start
  <2>3. /\ prequest[t].stale = {} /\ prequest[t].step # "idle" /\ FreshOK(prequest[t]) /\ WorkOK(prequest[t])
        /\ prow \in [Plugins -> Row]
    BY <2>2 DEF PluginInv, PluginSerial, RequestsOK, set_state, set_updating, PluginTypeOK, Row
  <2>4. CASE set_state(t)
    <3>1. prow' = [prow EXCEPT ![prequest[t].plugin] = prequest[t].next]
      BY <2>4 DEF set_state, Write
    <3>2. prow'[p] = prequest[t].next /\ p = prequest[t].plugin
      BY <2>3, <3>1
    <3>3. QED
      BY <2>3, <3>2 DEF FreshOK, TestsOK, VersionOK
  <2>5. CASE set_updating(t)
    <3>1. /\ prow' = [prow EXCEPT ![prequest[t].plugin] = [prequest[t].next EXCEPT !.lifecycle_state = "updating"]]
          /\ prequest[t].step = "update"
      BY <2>5 DEF set_updating, Write
    <3>2. prequest[t].next \in PluginStateRecord /\ prequest[t].next = prow[prequest[t].plugin]
      BY <2>3, <3>1 DEF FreshOK, TestsOK, VersionOK, WorkOK
    <3>3. p # prequest[t].plugin
      BY <2>3, <3>1, <3>2 DEF PluginStateRecord
    <3>4. QED
      BY <2>3, <3>1, <3>3
  <2>6. QED
    BY <2>2, <2>4, <2>5
<1>5. QED
  BY <1>1, <1>2, <1>3, <1>4, PluginInvariant, PTL
     DEF PluginSpec, OnlyDeploymentsDisturb, ReplacedVersionAlwaysKept

-----------------------------------------------------------------------------
(* The run. *)

\* The run of the services moves one service at a time, each as its own specification says.
LEMMA RunIsServices == MCSpec => PluginSpec /\ LockSpec /\ BackupSpec /\ RestoreSpec /\ KnowledgeSpec
<1>1. MCInit => PluginInit /\ LockInit /\ BackupInit /\ RestoreInit /\ KnowledgeInit
  BY DEF MCInit
<1>2. [MCNext]_mcvars => [PluginNext]_pluginvars /\ [LockNext]_lockvars /\ [BackupNext]_backupvars
                           /\ [RestoreNext]_restorevars /\ [KnowledgeNext]_knowvars
  BY DEF MCNext, mcvars
<1>3. QED
  BY <1>1, <1>2, PTL DEF MCSpec, PluginSpec, LockSpec, BackupSpec, RestoreSpec, KnowledgeSpec
=============================================================================
