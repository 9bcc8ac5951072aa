-------------------------- MODULE KnowledgeIngestion --------------------------
(***************************************************************************)
(* Knowledge bases, the sources linked to them, ingestion and retrieval    *)
(* (pg_api/routes/knowledge.py over interest_growth_native/knowledge.py).  *)
(*                                                                         *)
(* retrieve, sync and rebuild are coroutines that never await: one runs at *)
(* a time, on the event loop.  The other routes run on the thread pool and *)
(* may commit between the sessions a coroutine opens.  A commit is atomic; *)
(* update and link test one thing and write another, with others between.  *)
(***************************************************************************)
EXTENDS ExactRag, FiniteSets, Naturals

CONSTANTS
  KBs,          \* knowledge bases
  KnowThreads,  \* threads of the pool
  Configured    \* exact engines with a reviewed adapter

ASSUME KnowledgeAssumption == /\ Configured \subseteq ExactEngines /\ UnknownOrigin \notin KSources
                              /\ KBs # {} /\ KSources # {}

VARIABLES
  source,     \* source -> its row: what its file parses to
  kb,         \* knowledge base -> row
  mapping,    \* <<kb, source>> -> KnowledgeSourceIndexModel row
  candidates, \* <<kb, source>> of the RetrievalCandidateModel rows
  ingestion,  \* kb -> its latest KnowledgeIngestionRunModel row
  cache,      \* NativeRetrievalEngine._cache: keys with the sources of the index
  loop,       \* the coroutine on the event loop
  pool,       \* thread -> the request it handles
  overtaken   \* a change of provider and a sync, rebuild or retrieval of the base overlapped

knowvars == <<source, kb, mapping, candidates, ingestion, cache, loop, pool, overtaken>>

Engines == NativeEngines \cup ExactEngines
Base == [status : {"local_only", "ready"}, provider : Engines, consent : BOOLEAN]
NoBase == [status |-> "absent", provider |-> "", consent |-> FALSE]
GoneBase == [NoBase EXCEPT !.status = "deleted"]
Mapping == [status : {"linked", "ready"}, provider : Engines]
NoMapping == [status |-> "absent", provider |-> ""]
Run == [state : {"running", "completed", "failed"}, sources : SUBSET KSources]
NoRun == [state |-> "absent", sources |-> {}]
Snapshot == [provider : Engines, consent : BOOLEAN, sources : SUBSET KSources]
NoSnapshot == [provider |-> "", consent |-> FALSE, sources |-> {}]

Pairs == KBs \X KSources
AnyKB == CHOOSE k \in KBs : TRUE
AnySource == CHOOSE s \in KSources : TRUE

\* _cache: an index with the base, the engine and the fingerprint of its key.
Built == [kb : KBs, engine : Engines, fp : Snapshot, index : SUBSET KSources]

\* at: the next session, or call of the retrieval engine, of the coroutine.
Task == [at       : {"idle", "resolve", "build", "search", "persist", "parse", "ready", "begin", "finish"},
         op       : {"retrieve", "sync", "rebuild"}, kb : KBs, src : KSources,
         provider : Engines \cup {""}, snap : Snapshot \cup {NoSnapshot},
         index    : SUBSET KSources, answer : SUBSET Origins]
NoTask == [at |-> "idle", op |-> "retrieve", kb |-> AnyKB, src |-> AnySource, provider |-> "",
           snap |-> NoSnapshot, index |-> {}, answer |-> {}]

\* at: the session a request on the pool opens next.
Call == [at : {"idle", "link", "update", "invalidate"}, kb : KBs, src : KSources, provider : Engines \cup {""}]
NoCall == [at |-> "idle", kb |-> AnyKB, src |-> AnySource, provider |-> ""]

KnowledgeTypeOK ==
  /\ source \in [KSources -> {"absent", "text", "blank", "deleted"}]
  /\ kb \in [KBs -> Base \cup {NoBase, GoneBase}]
  /\ mapping \in [Pairs -> Mapping \cup {NoMapping}]
  /\ candidates \subseteq Pairs
  /\ ingestion \in [KBs -> Run \cup {NoRun}]
  /\ cache \subseteq Built
  /\ loop \in Task
  /\ pool \in [KnowThreads -> Call]
  /\ overtaken \in BOOLEAN

KnowledgeInit ==
  /\ source \in [KSources -> {"absent", "text", "blank"}]
  /\ kb = [k \in KBs |-> NoBase]
  /\ mapping = [x \in Pairs |-> NoMapping]
  /\ candidates = {} /\ ingestion = [k \in KBs |-> NoRun] /\ cache = {}
  /\ loop = NoTask /\ pool = [t \in KnowThreads |-> NoCall]
  /\ overtaken = FALSE

-----------------------------------------------------------------------------
Stored(k) == kb[k].status \in {"local_only", "ready"}
Present(s) == source[s] \in {"text", "blank"}
Mapped(k, s) == mapping[<<k, s>>] # NoMapping
Selectable(engine) == engine \in NativeEngines \cup Configured
Consented(engine, consent) == engine \in NativeEngines \/ consent

\* HostKnowledgeResolver.resolve: the mapped sources whose file parses to some text.
resolve(k) == [provider |-> kb[k].provider, consent |-> kb[k].consent,
               sources |-> {s \in KSources : Mapped(k, s) /\ source[s] = "text"}]

invalidated(k) == {c \in cache : c.kb # k}

\* For a mutant: an index is found again by its base and engine only.
same_engine(c, k, snap) == c.kb = k /\ c.engine = snap.provider

\* NativeRetrievalEngine._built: the key holds the effective fingerprint of the snapshot.
same_key(c, k, snap) == c.kb = k /\ c.engine = snap.provider /\ c.fp = snap

\* The index found in the cache or built now; older generations of the base and engine are dropped.
built_index(k, snap) ==
  IF \E c \in cache : same_key(c, k, snap)
  THEN (CHOOSE c \in cache : same_key(c, k, snap)).index ELSE snap.sources
with_built(k, snap) ==
  IF \E c \in cache : same_key(c, k, snap) THEN cache
  ELSE {c \in cache : ~(c.kb = k /\ c.engine = snap.provider)}
         \cup {[kb |-> k, engine |-> snap.provider, fp |-> snap, index |-> snap.sources]}

\* A request has found the provider free to change and has not changed it yet.
Changing(k) == \E t \in KnowThreads : pool[t].at = "update" /\ pool[t].kb = k

Ends == loop' = NoTask
Step(at) == loop' = [loop EXCEPT !.at = at]

-----------------------------------------------------------------------------
(* The coroutines. *)

retrieve_read(k) ==
  /\ loop.at = "idle" /\ Stored(k)
  /\ Selectable(kb[k].provider) /\ Consented(kb[k].provider, kb[k].consent)
  /\ loop' = [NoTask EXCEPT !.at = "resolve", !.kb = k, !.provider = kb[k].provider]
  /\ UNCHANGED <<source, kb, mapping, candidates, ingestion, cache, pool, overtaken>>

\* link_source is called first, then the provider and the consent are read.
sync_read(k, s) ==
  /\ loop.at = "idle" /\ Stored(k) /\ Present(s)
  /\ mapping' = IF Mapped(k, s) THEN mapping
                ELSE [mapping EXCEPT ![<<k, s>>] = [status |-> "linked", provider |-> kb[k].provider]]
  /\ loop' = IF ~Selectable(kb[k].provider) \/ ~Consented(kb[k].provider, kb[k].consent) THEN NoTask
             ELSE [NoTask EXCEPT !.at = IF kb[k].provider \in NativeEngines THEN "parse" ELSE "resolve",
                                 !.op = IF kb[k].provider \in NativeEngines THEN "sync" ELSE "rebuild",
                                 !.kb = k, !.src = s, !.provider = kb[k].provider]
  /\ UNCHANGED <<source, kb, candidates, ingestion, cache, pool, overtaken>>

\* rebuild does not ask for the consent.
rebuild_read(k) ==
  /\ loop.at = "idle" /\ Stored(k) /\ Selectable(kb[k].provider)
  /\ loop' = [NoTask EXCEPT !.at = "resolve", !.op = "rebuild", !.kb = k, !.provider = kb[k].provider]
  /\ UNCHANGED <<source, kb, mapping, candidates, ingestion, cache, pool, overtaken>>

\* Sync of a native base: the source must be in the snapshot; then one session records it as ready.
sync_parse ==
  /\ loop.at = "parse"
  /\ IF Stored(loop.kb) /\ loop.src \in resolve(loop.kb).sources THEN Step("ready") ELSE Ends
  /\ UNCHANGED <<source, kb, mapping, candidates, ingestion, cache, pool, overtaken>>

sync_commit ==
  /\ loop.at = "ready" /\ Ends
  /\ LET k == loop.kb IN
     IF Stored(k) /\ Mapped(k, loop.src)
     THEN /\ ingestion' = [ingestion EXCEPT ![k] = [state |-> "completed", sources |-> {loop.src}]]
          /\ mapping' = [mapping EXCEPT ![<<k, loop.src>>] = [status |-> "ready", provider |-> loop.provider]]
          /\ kb' = [kb EXCEPT ![k].status = "ready"]
          /\ cache' = invalidated(k)
     ELSE UNCHANGED <<ingestion, mapping, kb, cache>>
  /\ overtaken' = (overtaken \/ Changing(loop.kb))
  /\ UNCHANGED <<source, candidates, pool>>

resolve_snapshot ==
  /\ loop.at = "resolve"
  /\ LET k == loop.kb IN
     IF ~Stored(k) \/ (loop.op = "rebuild" /\ resolve(k).sources = {}) THEN Ends
     ELSE loop' = [loop EXCEPT !.snap = resolve(k), !.at = IF loop.op = "rebuild" THEN "begin" ELSE "build"]
  /\ UNCHANGED <<source, kb, mapping, candidates, ingestion, cache, pool, overtaken>>

\* The run is recorded before the old index goes and the new one is built.
rebuild_begin ==
  /\ loop.at = "begin"
  /\ ingestion' = [ingestion EXCEPT ![loop.kb] = [state |-> "running", sources |-> loop.snap.sources]]
  /\ cache' = invalidated(loop.kb) /\ Step("build")
  /\ UNCHANGED <<source, kb, mapping, candidates, pool, overtaken>>

\* The snapshot a rebuild prepares is resolved again; a build may fail, and a failed rebuild says so.
build ==
  /\ loop.at = "build"
  /\ LET k == loop.kb
         snap == IF loop.op = "rebuild" /\ Stored(k) THEN resolve(k) ELSE loop.snap
     IN \/ /\ loop.op = "rebuild" => Stored(k)
           /\ Selectable(snap.provider)
           /\ cache' = with_built(k, snap)
           /\ loop' = [loop EXCEPT !.at = IF loop.op = "rebuild" THEN "finish" ELSE "search",
                                   !.index = IF loop.op = "rebuild" THEN {} ELSE built_index(k, snap)]
           /\ UNCHANGED ingestion
        \/ /\ Ends /\ UNCHANGED cache
           /\ ingestion' = IF loop.op = "rebuild" /\ ingestion[k] # NoRun
                           THEN [ingestion EXCEPT ![k].state = "failed"] ELSE ingestion
  /\ UNCHANGED <<source, kb, mapping, candidates, pool, overtaken>>

\* The sources that were in the first snapshot are ready, those of them still mapped.
rebuild_finish ==
  /\ loop.at = "finish" /\ Ends
  /\ LET k == loop.kb IN
     IF Stored(k) /\ ingestion[k] # NoRun
     THEN /\ ingestion' = [ingestion EXCEPT ![k].state = "completed"]
          /\ mapping' = [x \in Pairs |->
                           IF x[1] = k /\ x[2] \in loop.snap.sources /\ mapping[x] # NoMapping
                           THEN [status |-> "ready", provider |-> loop.provider] ELSE mapping[x]]
          /\ kb' = [kb EXCEPT ![k].status = "ready"]
     ELSE UNCHANGED <<ingestion, mapping, kb>>
  /\ overtaken' = (overtaken \/ Changing(loop.kb))
  /\ UNCHANGED <<source, candidates, cache, pool>>

search ==
  /\ loop.at = "search"
  /\ \E hits \in SUBSET Origins :
       LET answer == retrieve_from(loop.snap.provider, loop.index, hits)
       IN IF answer = Rejected THEN Ends ELSE loop' = [loop EXCEPT !.at = "persist", !.answer = answer]
  /\ UNCHANGED <<source, kb, mapping, candidates, ingestion, cache, pool, overtaken>>

persist_candidates ==
  /\ loop.at = "persist" /\ Ends
  /\ candidates' = candidates \cup ({loop.kb} \X (loop.answer \cap KSources))
  /\ UNCHANGED <<source, kb, mapping, ingestion, cache, pool, overtaken>>

-----------------------------------------------------------------------------
(* The routes on the thread pool. *)

create_knowledge_base(k) ==
  /\ kb[k] = NoBase
  /\ \E engine \in NativeEngines \cup Configured, consent \in BOOLEAN :
       /\ Consented(engine, consent)
       /\ kb' = [kb EXCEPT ![k] = [status |-> "local_only", provider |-> engine, consent |-> consent]]
  /\ UNCHANGED <<source, mapping, candidates, ingestion, cache, loop, pool, overtaken>>

Calls(t, at, k, s, engine) == pool' = [pool EXCEPT ![t] = [at |-> at, kb |-> k, src |-> s, provider |-> engine]]

delete_knowledge_base(t, k) ==
  /\ pool[t].at = "idle" /\ Stored(k)
  /\ kb' = [kb EXCEPT ![k] = GoneBase]
  /\ mapping' = [x \in Pairs |-> IF x[1] = k THEN NoMapping ELSE mapping[x]]
  /\ candidates' = {x \in candidates : x[1] # k}
  /\ ingestion' = [ingestion EXCEPT ![k] = NoRun]
  /\ Calls(t, "invalidate", k, AnySource, "")
  /\ UNCHANGED <<source, cache, loop, overtaken>>

confirm_egress(k) ==
  /\ Stored(k) /\ kb' = [kb EXCEPT ![k].consent = TRUE]
  /\ UNCHANGED <<source, mapping, candidates, ingestion, cache, loop, pool, overtaken>>

Bound(k) == \E s \in KSources : mapping[<<k, s>>].status = "ready"

\* For a mutant: the provider may be changed under an index.
update_any(t, k, engine) ==
  /\ pool[t].at = "idle" /\ Stored(k)
  /\ engine # kb[k].provider /\ Selectable(engine)
  /\ Calls(t, "update", k, AnySource, engine)
  /\ UNCHANGED <<source, kb, mapping, candidates, ingestion, cache, loop, overtaken>>

update_knowledge_base(t, k, engine) ==
  /\ pool[t].at = "idle" /\ Stored(k)
  /\ engine # kb[k].provider /\ Selectable(engine) /\ ~Bound(k)
  /\ Calls(t, "update", k, AnySource, engine)
  /\ UNCHANGED <<source, kb, mapping, candidates, ingestion, cache, loop, overtaken>>

update_commit(t) ==
  /\ pool[t].at = "update"
  /\ pool' = [pool EXCEPT ![t] = NoCall]
  /\ LET k == pool[t].kb IN
     IF Stored(k)
     THEN /\ kb' = [kb EXCEPT ![k].provider = pool[t].provider]
          /\ overtaken' = (overtaken \/ (loop.at # "idle" /\ loop.kb = k))
     ELSE UNCHANGED <<kb, overtaken>>
  /\ UNCHANGED <<source, mapping, candidates, ingestion, cache, loop>>

link_source(t, k, s) ==
  /\ pool[t].at = "idle" /\ Stored(k) /\ Present(s) /\ ~Mapped(k, s)
  /\ Calls(t, "link", k, s, kb[k].provider)
  /\ UNCHANGED <<source, kb, mapping, candidates, ingestion, cache, loop, overtaken>>

\* Another request may have linked it meanwhile: the unique constraint refuses the second row.
link_commit(t) ==
  /\ pool[t].at = "link"
  /\ pool' = [pool EXCEPT ![t] = NoCall]
  /\ mapping' = IF Mapped(pool[t].kb, pool[t].src) THEN mapping
                ELSE [mapping EXCEPT ![<<pool[t].kb, pool[t].src>>] =
                        [status |-> "linked", provider |-> pool[t].provider]]
  /\ UNCHANGED <<source, kb, candidates, ingestion, cache, loop, overtaken>>

unlink_source(t, k, s) ==
  /\ pool[t].at = "idle" /\ Stored(k) /\ Present(s)
  /\ mapping' = [mapping EXCEPT ![<<k, s>>] = NoMapping]
  /\ candidates' = candidates \ {<<k, s>>}
  /\ kb' = [kb EXCEPT ![k].status = IF \E x \in KSources \ {s} : Mapped(k, x) THEN "ready" ELSE "local_only"]
  /\ Calls(t, "invalidate", k, s, "")
  /\ UNCHANGED <<source, ingestion, cache, loop, overtaken>>

upload_source_file(s) ==
  /\ source[s] = "absent"
  /\ \E content \in {"text", "blank"} : source' = [source EXCEPT ![s] = content]
  /\ UNCHANGED <<kb, mapping, candidates, ingestion, cache, loop, pool, overtaken>>

\* remove_source_derivatives: the runs that used the source failed; mappings and candidates go. The
\* bases they belonged to are invalidated afterwards (here: one base; the others at once).
delete_source(t, s) ==
  /\ pool[t].at = "idle" /\ Present(s)
  /\ source' = [source EXCEPT ![s] = "deleted"]
  /\ mapping' = [x \in Pairs |-> IF x[2] = s THEN NoMapping ELSE mapping[x]]
  /\ candidates' = {x \in candidates : x[2] # s}
  /\ ingestion' = [k \in KBs |-> IF s \in ingestion[k].sources THEN [ingestion[k] EXCEPT !.state = "failed"]
                                 ELSE ingestion[k]]
  /\ \E k \in KBs : Calls(t, "invalidate", k, s, "")
  /\ UNCHANGED <<kb, cache, loop, overtaken>>

invalidate(t) ==
  /\ pool[t].at = "invalidate"
  /\ cache' = invalidated(pool[t].kb)
  /\ pool' = [pool EXCEPT ![t] = NoCall]
  /\ UNCHANGED <<source, kb, mapping, candidates, ingestion, loop, overtaken>>

\* The process restarts: a run that was running stays so.
ApiRestarts ==
  /\ cache' = {} /\ loop' = NoTask /\ pool' = [t \in KnowThreads |-> NoCall]
  /\ UNCHANGED <<source, kb, mapping, candidates, ingestion, overtaken>>

Coroutine ==
  \/ \E k \in KBs : \/ retrieve_read(k) \/ rebuild_read(k) \/ \E s \in KSources : sync_read(k, s)
  \/ sync_parse \/ sync_commit \/ resolve_snapshot \/ rebuild_begin \/ build \/ rebuild_finish
  \/ search \/ persist_candidates

Threaded(t) ==
  \/ \E k \in KBs : \/ delete_knowledge_base(t, k)
                    \/ \E engine \in Engines : update_knowledge_base(t, k, engine)
                    \/ \E s \in KSources : link_source(t, k, s) \/ unlink_source(t, k, s)
  \/ \E s \in KSources : delete_source(t, s)
  \/ update_commit(t) \/ link_commit(t) \/ invalidate(t)

KnowledgeNext ==
  \/ Coroutine \/ ApiRestarts
  \/ \E k \in KBs : create_knowledge_base(k) \/ confirm_egress(k)
  \/ \E s \in KSources : upload_source_file(s)
  \/ \E t \in KnowThreads : Threaded(t)

KnowledgeSpec == KnowledgeInit /\ [][KnowledgeNext]_knowvars

-----------------------------------------------------------------------------
(* Properties. *)

\* What a retrieval is about to record came from sources that were mapped to the base, and had text,
\* when this request resolved it, by the engine the base had then: no index of an earlier state is
\* served from the cache, whatever links, deletions, changes of provider and rebuilds went before and
\* whatever an engine claims (interest_growth_native/knowledge.py: NativeRetrievalEngine).
ServesCurrent == loop.at = "persist" => loop.answer \subseteq loop.snap.sources

\* A source that is ready in a base was indexed by the engine the base has, unless a change of
\* provider overlapped with the coroutine ("RAG provider is bound when indexed":
\* pg_api/routes/knowledge.py: update_knowledge_base).
ProviderBound ==
  ~overtaken => \A k \in KBs, s \in KSources :
                  mapping[<<k, s>>].status = "ready" => mapping[<<k, s>>].provider = kb[k].provider
=============================================================================
