# Formal models of Interest Growth

TLA+ models of the parts of this repository whose correctness depends on the order in which
threads, processes, requests and failures meet. TLC checks them on small instances; TLAPS proves
the results that matter most for every value of the constants.

- [1 Inventory](#1-inventory) — the system's parts, their state, what is hard about them
- [2 Plan](#2-plan) — what was done in which order, and what comes next
- [3 The native tutor executor](#3-the-native-tutor-executor)
- [4 The host's turns](#4-the-hosts-turns)
- [5 Remote access](#5-remote-access) — the server's owner, devices and tokens; the desktop client's session
- [6 Services of the host](#6-services-of-the-host) — plugins, maintenance lock, backup, restore, knowledge bases
- [7 The workspace](#7-the-workspace) — claims, publications, research runs, areas, practice, writing
- [8 Runs and bounds](#8-runs-and-bounds)
- [9 Where code and documents disagree](#9-where-code-and-documents-disagree)
- [10 Proofs](#10-proofs)
- [11 What is not modelled](#11-what-is-not-modelled)

Checking: `tlc -config MCTutorTurn.cfg MCTutorExecutor` (each `.cfg` names its constants, the
specification and the properties; section 8 pairs them with modules), proving:
`tlapm TutorExecutor_proofs.tla`.

## 1 Inventory

The program is a FastAPI server (`src/apps/api/pg_api`) over one SQLite database and a vault of
files, an execution core in its process (`src/packages/native-execution-core`), a plugin runtime, a
Tauri desktop client that runs a local server or talks to a remote one (`src/apps/desktop`), and a web
front end. Most handlers are synchronous functions, so one server process runs them on a pool of threads
that share the database, the lazily built native bundle and the maintenance gate; the few coroutines
(retrieval and rebuild of a knowledge base) never await and run one at a time beside them. Nothing but
SQLite transactions and a few explicit locks orders them.

| Component | State | Operations | Hard behaviour | What makes it correct |
|---|---|---|---|---|
| **NativeTutor** — `interest_growth_native/{tutor,execution_store,bundle}.py`, `pg_api/native_execution.py` | `native_tutor_checkpoint` (state, version, answer, snapshot), `native_run_event` | start, resume, cancel, regenerate, tool rounds, recovery of stale runs | optimistic writes around provider and tool calls, a cancel or a reply at any moment, restart | one turn per session, one executor per turn, nothing lost, final outcomes, grants never grow, every run ends |
| **HostTutor** — `pg_api/tutor.py`, `pg_api/routes/tutor.py` | `tutor_sessions`, `tutor_turns` | create turn, start / reply / cancel, record events, delete session | a second copy of the run's state, fed from its log without a shared transaction | the row says what the run did, once; no run without a session |
| **RemoteAuth** — `pg_api/remote_auth.py` | owner, devices, access and refresh tokens | bootstrap, login, refresh, revoke, middleware | refresh replay, revocation beside login, bootstrap twice | one owner; a credential is exchanged once; a revoked device is out |
| **RemoteBroker** — `desktop/src-tauri/src/remote.rs` | session in memory, refresh credential in two keyring slots with generations | login, refresh after 401, rotate, logout | crash between two slots, concurrent 401s, logout beside rotation, stale pending slot | the newest credential survives; a consumed one is never preferred; logout leaves nothing |
| **PluginRuntime** — `packages/plugin-runtime`, `pg_api/plugins.py` | plugin rows: state, version, previous version | install, enable, disable, update, rollback, uninstall, deployment | check-then-set on dependencies, transient `updating` | an enabled plugin's dependencies are enabled; a rollback has somewhere to go |
| **MaintenanceLock** — `pg_api/maintenance.py` | in-process reader/writer gate, `flock` file | shared and exclusive lock, with timeouts | two layers, several processes, failing opens | exclusion; the gate reopens |
| **BackupRestore** — `pg_api/backup_restore.py`, `pg_artifacts/storage.py`, `scripts/restore_server.py` | bundle directory, live database and vaults | create, verify, restore; uploads, exports and deletions beside them | several files and directories, crash or failure between two | a bundle is one consistent point in time; the state before a restore is never lost |
| **KnowledgeIngestion** — `pg_api/routes/knowledge.py`, `interest_growth_native/knowledge.py`, `rag/` | knowledge bases, source mappings, ingestion runs, candidates, cached indexes | link, sync, rebuild, retrieve, change provider, delete | cached index over changing sources, check-then-set on the provider | a retrieval serves what is linked now; a mapping is ready only for the engine that indexed it |
| **ResearchEvidence** — `pg_api/routes/research.py`, `pg_api/source_dependencies.py` | sources, evidence, claims and their versions | verify, revise, invalidate, delete | reads before the flush, propagation along references | a verified claim rests on verified evidence |
| **Publications** — `pg_api/{content,living_book,events}.py`, routes | content packs, books, chapters, their review states | build, approve, compile, project, notices | notices after the commit, disabled subscribers | what can be exported shows what is still so |
| **ResearchRuns** — `interest_growth_native/research.py`, `pg_api/routes/research.py` | run rows, queue of topics | start, blocks, report, import, failure | queue meets the limit of blocks, fallback, crash | completed means every topic has its block |
| **InterestAreas** — `pg_api/{domains,scoping,question_transitions}.py`, `pg_api/routes/{areas,questions}.py` | areas, capabilities, questions, topics | create, archive, transition, promote | an area archived under a request | a topic and its question belong together |
| **LearningAssets** — `pg_api/{learning_assets}.py`, `pg_api/routes/{learning,learning_assets}.py` | concepts, practice items, attempts, mastery evidence | try, promote, move, invalidate, delete | references the database does not know | evidence keeps its attempt |
| **CoWriter** — `pg_api/cowriter.py`, `pg_api/routes/cowriter.py` | documents, revision proposals with their base's hash | edit, propose, accept, reject, delete | proposal decided while the document is edited | a revision is applied to the text it was made for |
| **DesktopSidecar** — `desktop/src-tauri/src/{lib,main,runtime_mode}.rs` | child process, mode | start, health, stop, switch mode | a process that dies while starting | one server, stopped with the client |
| **ClientRuntime** — `apps/web/lib/runtime/*.js` | connection state, retry counters | connect, fail, retry | late answers of an older attempt | state follows the last attempt |
| WebUI, LLMTransport, RetrievalAndParsing, DomainPacks | — | rendering, HTTP calls, pure data processing, declarations | — | not protocol; left out |

How they meet: a handler of HostTutor calls the NativeTutor executor in its own thread and then copies
the run's events into its row; both use one database file but separate connections and transactions.
RemoteBroker is RemoteAuth's client across a network. BackupRestore takes MaintenanceLock exclusively,
writes to the vault take it shared, deletions from it do not take it. KnowledgeIngestion and
ResearchEvidence meet in the rows of sources. ResearchEvidence tells Publications of its changes in two ways:
in its own transaction, where a source changes, and by an event after the commit, where a claim does.
InterestAreas binds the new rows of everybody. PluginRuntime decides whether a handler may run at all, and
whether a subscriber hears an event.

## 2 Plan

Done, in this order: `ExecutionStore`, `TurnLifecycle`, `TutorExecutor`, their proofs; `HostTutor`, its
typing and refinement proofs; `RemoteAuth` and `RemoteBroker` over it; the services (`PluginRuntime`,
`MaintenanceSection`, `MaintenanceLock`, `BackupBundle`, `RestoreBundle`, `ExactRag`,
`KnowledgeIngestion`); the workspace (`ResearchEvidence`, `Publications`, `ResearchRuns`,
`InterestAreas`, `LearningAssets`, `CoWriter`); the proofs of section 10. The executor came first because it
is the product's core loop, the part with the most interleavings, and what the others lean on; then what
guards data and access; then the workspace, whose parts are smaller and more alike.

Three runs gather modules that share no state (`remote_access`, `host_services`, `workspace`): their `MC`
module chooses in the initial state which part moves, so one run asks the same question of each part
— does it hold whatever two requests do at once — and each part is explored as if it were alone. The same is
the way to add the next ones:

1. **DesktopSidecar** and **ClientRuntime** — process life cycle and connection states; small, and the only
   parts with a protocol that are left.
2. The parts of HostTutor left out: closing and restoring a session, the notebook.

Theorems to prove next: those of the parts above once they are modelled. About the host: that a turn shown as completed or
cancelled stays so when its requests do not overlap.

## 3 The native tutor executor

Modules: `ExecutionStore` (the two tables), `TutorExecutor` (the threads), `TurnLifecycle` (what it all
promises).

**State.** `row[r]` is the checkpoint of run *r*: state, version, session, granted tools, and two
counters for texts: `text`, how many answer segments `assistant_text` holds, and `results`, how many tool
messages the snapshot holds. `log[r]` is the sequence of event kinds. For each thread `pc` is the place
between two store calls, `cur` its run, `held` the copy of each row it loaded last, `job` the locals of
`_run_loop` (accumulated text, pending calls, rounds, continuations, grants). `bundle` is
`native_execution._bundle`; a crash clears it and every thread and leaves the database.

**Actions.** One step per store call, because every store call is its own SQLite transaction and nothing
else orders the threads. What the database itself makes atomic is one step: the `INSERT` with the partial
unique index (`CreateRun`), the compare-and-set `UPDATE` (`Transition`, `Terminate`,
`UpdateSnapshot`), the append with the next sequence number (`Append1`).

| Code | Actions |
|---|---|
| `start`, `regenerate` | `Start`, `Regenerate`, `EmitBegun` |
| `resume` | `ResumeLoad`, `ResumeCas` |
| `cancel` | `CancelLoad`, `CancelCas`, `EmitCancelled` |
| `_run_loop`, `_call_round` | `BeginRound`, `StreamItem`, `EmitDelta`, `StreamEnd`, `StreamTypeError`, `Complete`, `Flush`, `ProviderError`, `Settle`, `Continue`, `Finish`, `EmitResult`, `NextCall`, `RunTool`, `SaveResult`, `Ask`, `Asked`, `EmitWait` |
| `_fail` | `FailLoad`, `FailCas`, `EmitError` |
| `get_native_bundle`, `recover_stale_running` | `BeginBuild`, `ReadStale`, `RecoverRun`, `EndBuild` |
| the process dies | `Crash` |

The provider may stream any number of segments up to a bound, then any calls, a truncated answer, an
error, or raise the `TypeError` that makes the code fall back to `complete()`; a tool may succeed, fail or
not be granted. The user may answer or cancel at any time, or never.

**Properties** (definitions at the end of `TutorExecutor`):

- `OneActivePerSession` — a session never has two turns in progress.
- `SoleExecutor` — while a run is running one thread is in its loop, and what it is about to write over is
  what it last read: its write can only fail because the run has ended.
- `ExecutorInv` — the inductive invariant behind it (section 10).
- `SnapshotComplete` — a run that waits or has completed has lost no segment and no tool result across
  waits, continuations and fallbacks.
- `CancelWins` — no result and no done-completed is published for a cancelled run.
- `OneDone` — a run has at most one done event.
- `GrantsNeverExpand` — an action property: no step adds a tool to an active run or runs a tool outside
  its snapshot.
- `ImplementsLifecycle` — every write is a step of `TurnLifecycle`: answers only grow, only while the turn
  runs, outcomes are final, aborting commits nothing.
- `RunsEnd`, `CancelAnnounced` — liveness: provided some request constructs the bundle again after a crash,
  no run stays running; a cancelled run gets its done event unless the process dies.

**Fairness** (`FairSpec`). Weak fairness of each thread's own steps (`Execute`): a thread with work is
scheduled, and a provider call ends because the HTTP client has a timeout
(`native_execution.py:353-360`). Nothing else is fair: no user is obliged to ask, answer, cancel or
regenerate, and the process need not crash. In particular nobody is obliged to construct the bundle: only
the handlers that use it call `get_native_bundle`; the start of the process (`main.py:28-39`) and the health
poll of the client (`/api/health`, `routes/system.py:21-23`) do not. After a crash a run therefore stays
`running`, and its session blocked, for as long as no user makes such a request. `RunsEnd` names that
assumption as its premise, `[]<>bundle`; without the premise TLC finds the run that waits for ever.

**Abstractions.** Texts are counts; prompts, tool payloads, provenance (`sources`) and suppressed narration
events carry no protocol and are left out; a transaction that fails because the disk does is not modelled.
`resume` reads the row and then the number of events; both are one step here, since nothing is appended to a
waiting run but its own `wait_for_input` and a cancellation, either of which only shifts what is returned.

## 4 The host's turns

Module `HostTutor` extends `TutorExecutor`: each thread has a second program counter `hpc` and the locals
`req` of its route handler, which calls the executor (`Native`, `Construct`) and goes on when it has
returned (`Collect`).

**State.** `exists[s]`: the session's row is there. `turn[k]`: the host's row of a turn — its status,
`upstream_turn_id`, `last_seq`, and how many segments `answer_text` holds. `disturbed`: history variable, the
turns two requests were about at once or a crash cut off.

| Code | Actions |
|---|---|
| `native_turn_start` | `PostTurn` (create the row), `Bind` (context, executor's start) |
| `native_turn_resume` | `PostReply`, then `ReadMark`, `WriteMark` (`mark_turn_resumed`) |
| `native_turn_cancel` | `PostCancel` (reads the row), `Cancel` |
| `delete_session` | `PostDelete` (reads and tests), `Delete` |
| `record_upstream_event`, once per event | `ReadRecord`, `WriteRecord` |
| the process dies | `HostCrash` |

`record_upstream_event` reads the row, computes, and its commit writes only the columns that changed; SQLite
takes no lock for the read, so two requests can overwrite each other. `Merged` is that write. It raises when
the row, or the session it had found and is about to touch, has gone (`Gone`). Foreign keys are not enforced
by the engine's settings, so a deletion never fails on them.

`EventsLimit` (5000) is the page start and resume return, `ReplayLimit` (1000) the page cancel reads.

**Properties.** `EndedTurnEndedRun`: whatever overlaps, a turn shown as ended has an ended run and one shown
as cancelled a cancelled one. `Mirrors`: a turn whose requests came one at a time, and whose log fits the
pages, holds each answer segment exactly once, has read the log to its end, and waits, has completed or is
cancelled when the run is. `Mirrors` says nothing of overlapping requests on purpose: a cancel beside a
reply records events twice and the code does nothing against it.

Left out: closing, archiving and restoring a session (they only refuse requests), updates of its persona and
knowledge bases, the direct native router (`Regenerate` is therefore no step here), the notebook.

## 5 Remote access

Modules: `RemoteAuth` (the server), `RemoteBroker` (the desktop client, EXTENDS it: the client's requests are
handled by the server's own actions), `MCRemoteAccess`;
`RemoteAuth_proofs`, `RemoteBroker_proofs`.

**State.** Server: `owners`; `device[d]`; `pair[n]`, the access and the refresh row issued together, with
the credential it replaced; `call[t]`, the request a thread handles. Client: `slots[d]`, the pending and the
active entry of the keyring with their generations; `enrolled`, the enrollment file; `session`, the access token
in memory; `staged`, a credential that only memory holds; `denied`; `task[c]`, where a task of the client is.

| Code | Actions |
|---|---|
| `owner_bootstrap` | `BootstrapCheck`, `BootstrapInsert` |
| `owner_login` | `LoginRead`, `LoginIssue` |
| `device_refresh` | `RefreshRead`, `RefreshConsume` |
| `remote_device_auth_middleware`, `device_revoke` | `Authenticate`, `Revoke` |
| expiry of tokens | `AccessExpires`, `RefreshExpires` |
| `send_with_auth`, `get_session_token`, `refresh_after_401` | `Begin`, `GetToken`, `Send`, `GetAnswer`, `TakeLock` |
| `force_rotate_locked`, `rotate_refresh` | `Present`, `Rotated`, `WritePending`, `WriteActive`, `ClearPending`, `SetSession` |
| `read_effective_refresh` | `Effective` |
| login of the desktop | `BeginLogin`, `LoggedIn`, `StoreLogin`, `Enroll`, `Welcome` |
| logout | `Begin` (revocation), `Erase`, `Forget`, `Leave` |
| network, keyring, process | `LoseAnswer`, `Discard`, the failing branches of each write, `Crash` |

A request of the server is a reading step and a writing step: SQLite gives a reader no lock, and a writer
excludes others from its first statement to its commit.

**Properties.** `OneOwner`; `ReplacedOnce` (a credential is exchanged for one pair, however many present
it); `NoPairForRevoked` (an action property: a refresh that was let in before a revocation issues nothing
after it); `RevokedStaysOut` (a request that arrives after the revocation is not let in, not even with the
tokens a login issued to the revoked row); `CredentialSurvives` (what the client would present next is not
consumed, whatever was interrupted); `DeniedIsReal` and `RejectedNotResent` (several tasks that meet 401 at
once); `LogoutErases`.

Two history variables say where the code gives no guarantee. `spoiled` is for `CredentialSurvives` alone: the only
copy of a new credential was lost with an answer or with the process; or what it replaces is left in front of it,
because a slot could not be read when the new one was stamped, or because memory held a credential when only the pending
slot could be written. A login into an empty store ends it. `muddled` is for it, `DeniedIsReal` and `LogoutErases`: a
login or a logout began beside a rotation or beside another one that had done its first write, or a rotation began beside those
(a logout takes no `refresh_lock`), or rotated for another device than the enrolled one; or a login ran over leftovers, or a deletion
failed. A request that does not rotate muddles nothing, nor does a second login that waits for its answer. Section 9 says where
each happens.

## 6 Services of the host

**`PluginRuntime`.** `prow[p]` is the row of a plugin, `bundle` the manifests the process was started with,
`prequest[t]` a request between its tests and its write. `install`, `enable`, `disable`, `uninstall`, `update` and
`rollback` are the routes up to their first write, `TestOne` the test of one dependency or dependant (each read is a
session of its own), `set_updating` and `set_state` the writes, `Deploy` a restart with other manifests.
`DependenciesHold`: an enabled plugin's dependencies are enabled or in their own update.
It holds until `disturbed`: a request wrote over a row that had changed since it read it, an update was cut off or
its plugin tested while off, or a bundle brought an enabled plugin without what it requires, none of which the code
prevents. `ReplacedVersionKept`: in every step that changes a version the one it replaces is recorded, over all of
these; excepted is only the one step in which a request writes a row that another has changed since it read that very
row (`Overwrites`).

**`MaintenanceSection`, `MaintenanceLock`.** The section is what callers rely on: shared by writers, exclusive to a
backup. The lock is the gate of each process (`gate`), the handle's lock on the file (`flock`) and each thread's
place (`holder`). `LockImplementsSection` is the refinement; `GateReopens` says that the gate is open
once everybody has left, except where `open` failed between the gate and the `try` (section 9).

**`BackupBundle`.** Extends the section. `named[k]` is the number of rows that name a vault file, `vault[k]` the file,
`writer[w]` a request, `job` and `capture` the backup and what it has captured. Uploads, cards, packs and exports are
`put_enter`, `put_begin`, `put_end` (the file, inside the section) and `put_row` (the row, after it); deletions
are `delete_row` and `delete_file`, outside it; the backup is `snapshot_sqlite`, `copy_file`, `reference_check`.
`BundleWhole`: a bundle with a manifest has every file its rows name, and none that was being written.

**`RestoreBundle`.** Part by part `move_aside`, `copy_begin`, `copy_end`, then `smoke_checks` and `clean_up`; a
failure or crash between any two leaves things as they are, the operator may start over or start the API.
`OriginalKept` (action property): until a restore has passed its checks no step loses the only copy of a part of
the state before it. `RestoredIsWhole`: "restored" is said only when the bundle is in place of every part.

**`ExactRag`, `KnowledgeIngestion`.** `ExactRag` is what an engine may answer: hits of any origin pass through each
adapter's mapping. `KnowledgeIngestion` has the rows (`source`, `kb`, `mapping`, `candidates`, `ingestion`), the
adapters' `cache`, the one coroutine on the event loop (`loop`: retrieve, sync or rebuild, a step per session or
engine call) and the threads beside it (`pool`: link, unlink, change of provider, deletions). `ServesCurrent`:
what a retrieval records are sources that were linked and had text when it resolved them, whatever the cache
holds. `ProviderBound`: a mapping that is ready was indexed by the engine the base has, unless a change of
provider overlapped with the coroutine (`overtaken`).

## 7 The workspace

Handlers run in parallel threads. A handler is its reads and then one commit, because SQLite takes the write lock at the
first flush; the commit writes only the columns whose value differs from the one that was read (what SQLAlchemy's
unit of work does), and fails if a row it updates is gone. So each handler here is a `..._read` action, which puts what was
read into the thread's request, and an action named after the handler, which commits. An invalidation has changed its
source before it looks for dependents, so that search belongs to its commit. The deletion of a source changes nothing before
a search finds a row to change, and until then holds no lock (`routes/research.py:452`): its searches are steps of
their own (`find_evidence`, `find_claims`, `find_versions`, `find_dependents`, `find_derivatives`), other requests commit between
them, and it commits by `delete_locked`, `delete_changing` or `delete_unchanging`, according to where the first change was.

| Module | State | Actions (reads and commits) |
|---|---|---|
| `ResearchEvidence` | `source_row`, `evidence`, `claim`, `req` | `create_source`, `verify_source`, `create_evidence`, `create_claim`, `verify_claim`, `revise_claim`, `invalidate_rows`, `find_*`, `delete_rows` |
| `Publications` | `pack`, `book`, `missed` | `build_*`, `approve_*`, `archive_pack`, `delete_pack`, `create_book`, `compile_*`, `project_*`, `confirm_*`, `archive_book`, `restore_book`, `delete_book`, `content_handler`, `book_handler`, `handler_skipped`, `invalidate_source`, `delete_locked`, `delete_changing`, `find_dependents`, `delete_unchanging`, `api_crashes` |
| `ResearchRuns` | `ledger`, `work`, `imported` | `start_run`, `run_block`, `write_report`, `fall_back`, `mark_run_failed`, `persist_sources`, `finish_run`, `run_dies` |
| `InterestAreas` | `area`, `question`, `topic`, `areq` | `create_interest_area`, `update_area`, `restore_area`, `set_area_capability`, `seed_default_area`, `create_question`, `transition_*`, `promote_to_topic`, `create_topic`, `archive_topic` |
| `LearningAssets` | `concept`, `item`, `attempt`, `proof`, `lreq` | `create_concept`, `update_mastery`, `archive_concept`, `delete_concept`, `create_practice_item`, `update_practice`, `record_practice_attempt`, `promote_attempt_to_mastery_evidence`, `invalidate_mastery_evidence`, `delete_practice` |
| `CoWriter` | `document`, `revision`, `wreq` | `create_document`, `update_document`, `set_status`, `propose_revision`, `decide_revision`, `delete_document` |

**Properties.**

- `VerifiedHasBasis` — a claim that counts as human-verified rests, in its current version, on verified evidence of
  verified sources; left out (`overtaken`) are claims committed over a change of what the handler had read, and claims
  that rest on a source being deleted and were verified between the deletion's first search and its commit.
- `DerivedIsCurrent` — a pack that can be exported shows current versions of verified claims, a chapter that
  counts as current shows current versions and no verification that was withdrawn; left out are notices still on
  their way or lost (`Untold`) and what was stored over the change (`late`).
- `CompletedIsWhole` — a run counts as completed only if every topic, of its outline or found on the way, has a
  completed block.
- `PromotedHasTopic` — a question whose state says it became a topic has one; a topic lies in its question's area.
- `EvidenceHasAttempt` — mastery evidence keeps the attempt it was made of, and the attempt knows it; left out are
  attempts whose item was moved to a concept that was then deleted, or deleted beside the promotion (`strayed`).
- `AcceptedOnItsBase` — an accepted revision was put into the text it was proposed for and no other, a rejected one
  into none, unless an edit or another decision was committed while it was decided (`beaten`).

Each exclusion is a race that the code loses; what it loses is in section 9. The history variables record only
that race, so the invariants still say that nothing *else* breaks them.

**Abstractions.** Texts, prompts and scores are left out, a text of CoWriter is its identity (the hash is compared), a
version of a claim its number among the claim's versions: the column's number may be drawn twice by two revisions at once, and
it decides nothing. A pack is given any claims that exist, a book
has one chapter that shows all claims of its topic. A source that is only a summary is not told apart from one that is
not verified: neither supports a claim. A deletion without the lock reads the versions of all claims in one step, and packs and
books in one.

## 8 Runs and bounds

| Run | Module, cfg | Instance | Shows |
|---|---|---|---|
| `tutor_turn` | `MCTutorExecutor`, `MCTutorTurn` | 1 run, 2 threads, 1 tool, continuations | `TypeOK`, `SoleExecutor`, `ExecutorInv`, `SnapshotComplete`, `GrantsNeverExpand`, `ImplementsLifecycle` |
| `tutor_sessions` | `MCTutorExecutor`, `MCTutorSessions` | 2 runs of 1 session, 2 threads | `OneActivePerSession`, `CancelWins` |
| `tutor_live` | `MCTutorExecutor`, `MCTutorLive` | 1 run, 2 threads, 1 crash, `FairSpec`, no symmetry | `OneDone`, `RunsEnd`, `CancelAnnounced` |
| `host_turns` | `MCHostTutor`, `MCHostTurns` | 1 turn of 1 session, 2 threads, 1 crash | `HostTypeOK`, `EndedTurnEndedRun`, `Mirrors` |
| `remote_access` | `MCRemoteAccess` | 2 threads, 2 devices, 3 pairs; clients at the server, two tasks of a client, or one task with 2 faults | `BrokerTypeOK`, `OneOwner`, `ReplacedOnce`, `RevokedStaysOut`, `NoPairForRevoked`, `CredentialSurvives`, `DeniedIsReal`, `RejectedNotResent`, `LogoutErases` |
| `host_services` | `MCHostServices` | 2 plugins; 4 threads of 2 processes; 2 writers, 2 keys; 3 restores; 1 base, 2 sources, 2 engines | `ServicesTypeOK`, `DependenciesHold`, `ReplacedVersionKept`, `LockImplementsSection`, `GateReopens`, `BundleWhole`, `OriginalKept`, `RestoredIsWhole`, `ServesCurrent`, `ProviderBound` |
| `workspace` | `MCWorkspace` | 2 sources, 2 pieces of evidence, 1 claim, 1 pack or book; 4 topics; 2 areas, 1 question, 2 topics; 2 concepts, 1 item, 1 attempt; 1 document, 2 revisions; 2 threads each | `WorkspaceTypeOK`, `VerifiedHasBasis`, `DerivedIsCurrent`, `CompletedIsWhole`, `PromotedHasTopic`, `EvidenceHasAttempt`, `AcceptedOnItsBase` |
| `tutor_fake_success` | `MCTutorExecutor`, `MCTutorFakeSuccess` | violation of `NoFakeSuccess` | section 9 |
| `tutor_late_answer` | `MCTutorExecutor`, `MCTutorLateAnswer` | violation of `NoAnswerAfterCancel` | section 9 |
| `host_fake_success` | `MCHostTutor`, `MCHostFakeSuccess` | violation of `NoHostFakeSuccess` | section 9 |
| `host_cancel_shown` | `MCHostTutor`, `MCHostCancelShown` | violation of `CancelShown` | section 9 |
| `host_orphan_run` | `MCHostTutor`, `MCHostOrphanRun` | violation of `NoRunWithoutSession` | section 9 |

`CHECK_DEADLOCK FALSE` everywhere: ids are never drawn twice and the bounds end the requests, so a behaviour
in which every turn is over and every crash has happened may stop, and should. In the three gathered runs what follows
a race that the invariants leave out is not explored either (but for the plugins', which go on), so a behaviour may stop
there.

Symmetry: threads (and runs, in `MCTutorExecutor`; devices, in `MCRemoteAccess`) are only compared for equality and
used as indices, and no definition chooses one; the `CHOOSE`s are over sets in no symmetry. The liveness run
uses none; `host_services` only that of the requests on plugins. In `MCWorkspace` the threads of all parts are one symmetry set, and the two
sources, each with its evidence, are exchanged together (`WorkspaceSymmetry`).

Bounds, and why they are enough:

- **Threads = 2**: each invariant is about one thread that acts and one that interferes; a second
  interferer can only repeat what the first does, since commits order their writes.
  The theorems of section 10 hold for any number.
- **Runs, Sessions, Turns**: two runs of one session are what the unique index arbitrates; sessions share
  nothing.
- **Tools**: one tool beside `ask_user` and the always ungranted name, so a call may be granted, not
  granted, or a question. The runs that are not about grants have none.
- **MaxRounds, MaxConts, MaxChunks, MaxCalls**: `max_tool_rounds`, `max_stream_continuations` and what a
  provider does in one round. `tutor_turn` has one of each, so every limit is reached and passed. Where they
  are 0 an answer is still streamed (one without chunks is flushed in one segment) and the user is still asked
  (`MaxCalls = 1`); without tools and continuations no run begins a second round, since an ungranted call raises.
- **MaxCrashes = 1**: a crash resets every thread; what the next process does depends on the database only.
- **MaxVersion** (tutor): how many writes old a run may be when it is resumed once more; 2 lets a reply follow a wait
  and a second wait follow the reply.
- **EventsLimit = 7, ReplayLimit = 5** in `MCHostTurns`: logs of the instance are both shorter and
  longer, so `Mirrors` is checked at the boundary.
- **MaxPairs = 3, MaxFaults = 2**: a login and two rotations, so that a slot can hold a generation two old; a write
  and its repair may both fail, or a crash follow a failure. Two threads at the server, two tasks at the client,
  which share one device. One device name, so that a login meets the row of another. Among the clients of the
  server at most one token is expired at a time, and at most one task of the client logs in or out at a time; the
  theorems have neither bound.
- **Plugins**: one that requires the other; the required one keeps its version. `MaxVersion = 2` lets an update be
  rolled back.
- **Lock**: two threads in each of two processes: gate against gate, file against file, and both at once.
- **Backup**: two writers and two keys, one of which is used again by a second export; two rows may name it.
- **MaxRestores = 3**: a restore that fails, one that is cut off over its leftovers, one that succeeds.
- **Knowledge**: one native and one exact engine; one source with text and one that parses to nothing.
- **Claims**: two pieces of evidence of two sources, two versions of a claim; packs and books have one source. At most one
  deletion of a source at a time; a book is projected only where there are no claims, on which a projection does not depend;
  a notice that finds no pack or book to change is handled at once. The theorems have none of these bounds.
- **Research runs**: the limits of blocks 4 and 8 of the code are 2 and 3 here, outlines have 2 or 3 topics
  of 4: shorter than the limit, at it, and beyond it.
- **Questions**: the default area and one more, two topics, one return. Topics are archived only while the
  default area is the only one. The default area's capability stays on, and the second
  topic is made after the first.

## 9 Where code and documents disagree

The first five are runs that TLC must find violated.

1. **A run failed by a second bundle is announced as completed** (`NoFakeSuccess`). Two first requests
   construct two bundles; the recovery of the second fails a run the first executes; the executor's own
   transition is refused, and the caller tests only for CANCELLED before it publishes result and done.
2. **An answer segment after the cancellation's done event** (`NoAnswerAfterCancel`). The test of the row and
   the append of the segment are two transactions.
3. **A failed turn is shown as completed** (`NoHostFakeSuccess`), always: a done event of status `error` is
   not one of the statuses `record_upstream_event` knows, and it overwrites `failed`.
4. **A cancelled turn may wait for ever** (`CancelShown`): cancel reads the first 1000 events of the run
   and keeps those not yet recorded; a turn with many tool rounds and replies has more. It can then be neither
   cancelled again nor deleted with its session.
5. **A session is deleted under its running turn** (`NoRunWithoutSession`): the turn learns its run's id only
   when the run's events are recorded, after it has ended or paused, and until then it does not count as active.

The others were met while modelling and are in the actions and their comments, and in the history variables of the
properties:

*Remote access.* A login writes generation 1 into the active slot and leaves the pending slot of an earlier
enrollment, which may have a higher one and is then preferred (`remote.rs:2235`). A logout takes no `refresh_lock`: a
rotation in flight writes slots and session after it has cleared them (`remote.rs:2682`). A rotation that could write
the pending slot only leaves what memory holds from an earlier one, whose credential the server has consumed by then and which is
read before the slots (`remote.rs:1529`). Of two slots of one generation the pending one is preferred where the comment says
the active one (`remote.rs:1447`); rotation never writes two credentials of one generation, and a login may.

*Plugins.* Two requests that overlap may leave an enabled plugin whose dependency is disabled, and each may overwrite
what the other wrote (`runtime.py:119`); an update cut off leaves
`updating` until the plugin is enabled, disabled or updated again.

*Maintenance.* `open` of the lock file stands between the gate and the `try` (`maintenance.py:152`): when it fails the
process never writes or backs up again. Deleting one of two export rows unlinks the file the other names, and every
later backup then refuses the bundle. The message of a restore that fails its checks says that live paths were rolled
back (`backup_restore.py:338`); nothing rolls them back.

*Knowledge bases.* `rebuild` sends sources to an engine without asking for the consent that `retrieve` and `sync` ask for
(`routes/knowledge.py:573`). Candidates of a retrieval that was under way reappear after their source was unlinked or
deleted. A rebuild cut off by a restart stays `running`; a base stays `ready` after its last source is gone.

*Research.* A search that fails leaves a record without `citation_id` (`research.py:132`), the next reader of the records
raises, and the whole run fails, although the route takes care to skip such records (`routes/research.py:287`). A run
whose request ends after the engine's answer stays `running`.

*Claims and publications.* A deletion looks for dependents before it holds the write lock. Evidence that is recorded then, a claim
that cites it and the claim's verification may commit before the deletion does: source and evidence go, the claim
stays verified, though "verification state cannot diverge" (`source_dependencies.py:40`). Verifying or revising a claim over
another change may do the same. A change of any source sends back every pack that names any source
(`source_dependencies.py:73`). A notice that finds its subscriber disabled, failing or dead is never repeated, and
the approval stays. Compiling an archived book lists it again, restoring a stale one makes it current.

*Questions and practice.* Two transitions at once leave a state beside the other's `active` flag and lose a count
of returns; two promotions at once make two topics. An item whose promoted evidence was invalidated can still not be
deleted, though the refusal asks to withdraw the evidence first. Moving an item asks neither whether its concept
exists nor whether evidence hangs on it.

*Writing.* Accept and reject at once may leave the text applied and the revision rejected; a revision proposed while
its document is deleted stays without it.

## 10 Proofs

Eight modules, `<component>_proofs`; each `EXTENDS` what it is about. They cover every invariant and
action property of a passing run; the liveness properties are listed at the end of this section.

Assumptions, all named and evaluated by TLC: `StoreAssumption` (ids are distinct from the "none" values;
there is a session), `ExecutorAssumption` (the bounds are natural numbers), `HostAssumption` (likewise; the
pages are natural numbers, the larger not zero), `AuthAssumption` (pairs are numbered by natural numbers, "no device" is none,
there is a device name), `LockAssumption` (each thread has a process, threads are finitely many), `BackupAssumption`
(actors are the writers and the backup, there is a key), `RestoreAssumption` (a natural number), `KnowledgeAssumption` (the
engines configured are among the exact ones; "unknown origin" is no source; there is a base and a source),
`PluginAssumption` (there is a plugin; what is enabled by default has its requirements enabled by default),
`ResearchAssumption` (each piece of evidence has a source), `RunAssumption` and `LearningAssumption` (bounds),
`AreaAssumption` (the default area is an area; "none" values are distinct) and `WriteAssumption` ("no text" is neither a
text nor a document). Those that there is a base, a source or a plugin leave out only a part in which nothing can happen. `FairSpec`
is used by no proof.

The theorems about the services and the workspace are about `LockSpec`, `BackupSpec`, `RestoreSpec`, `KnowledgeSpec`,
`PluginSpec`, `RunSpec`, `WriteSpec`, `AreaSpec`, `LearnSpec` and `PublicationSpec`, the specification of each part as it
stands in its own module. The runs `host_services` and `workspace` explore the same next-state relations, but stop behind a race that a
property leaves out; the proofs go on behind it.

**`TutorExecutor_proofs`.** `TypeCorrect`: `TypeOK` is inductive; besides types it says that a thread at
work has a run and a thread at a tool call a call, which the actions' `Head` and `cur` need.
`OneTurnPerSession`: `OneActivePerSession` is inductive given `TypeOK`: a row of an existing run changes only
by a compare-and-set that never makes an inactive run active nor moves it to another session (`RowSteps`),
and an insert is checked against the active ones.

`SoleExecutor` is not inductive: it does not say why a thread that *holds* an old copy
cannot write it. `ExecutorInv` adds three things. `CopiesOK`: a held copy is never newer than its row, and equal to it
when the versions are. `FrameInv`: in each place of the loop, how copy, row and locals relate (a thread that
is about to write holds the row as it is if the run is still running; a reply holds a waiting row; the text
it carries is at least the text committed). `OneExecutor`: of the threads that may still write an active run as
its executor there is one, and then the run is not waiting. Together they are preserved because every
write raises the version: a write that passes its compare-and-set was decided on the current row, and
makes every other copy old. Results: `ExecutorInvariant`, `OneExecutorPerRun` (`SoleExecutor`), and
`LifecycleImplemented`: the refinement mapping is the row's state, session and text; every step of the
executor is a step of `TurnLifecycle` or changes none of the three. `LifecycleKeepsAnswers` is what a reader wants of
the abstract life, proved from it alone: an ended turn rests and an answer only grows. `NothingOverwritten`: who changes a row
holds a copy that is the row in every field, because `CopiesOK` makes equal versions equal copies.

**`TutorLog_proofs`.** What the log and the snapshots say. `CancelWins` and `OneDone` are not inductive: a cancellation and an
executor may both be about to append to the log of one run. `CloserInv` says who may still close a run: at most one thread is in
the loop or announces its outcome, at most one cancellation won its compare-and-set (`SoleCloser`), what each announces
is what the row says, and a done event is the last act of its closer. Two closers meet only when a cancellation overtook an executor,
and then the executor, which reads the row once more, appends no done event. Results: `CancellationWins`,
`OneDoneEvent`. `EventsTellOutcome` is inductive given `CloserInv` because a terminal row keeps its state.
`DataInv` is for `SnapshotComplete` and `GrantsNeverExpand`: while its run is running, what a thread of the loop carries is
counted by the log — text by `answer_delta` events, results by `tool_result` and `run_resumed` events, except the one it is about to append
— its tools are the row's, and a row that waits or is completed agrees with its log. Results: `NothingLost`, `NoToolGained`.

**`HostTutor_proofs`.** `HostTypeCorrect`; `HostDrivesExecutor`, `HostSpec => Spec`: the host takes only steps of the
executor, so whatever is proved of the executor holds under the host — `HostRunsOneExecutor` restates two
invariants that way. The typing is needed for it: `Bind` starts a run in the session the host's row
names, and only `HostTypeOK` says that it is one. `EndedTurns` (`EndedTurnEndedRun`) rests on it too: `EventsInv`, which holds
under the host, says what a logged event tells of the run; `HostInv` adds that a handler records only events its run has
(`RangeOK`), that the turn is bound to that run or not yet to any (`BoundOK`), and that before it is bound
only the request that starts it is about it (`UnboundOK`).
`TurnsMirrorRuns` (`Mirrors`) takes what a reader of the routes assumes without saying, `MirrorInv`, in three parts. `DriveInv`: a thread is in the
executor only for its handler and about the handler's run (`JoinOK`), a run has one turn (`OwnOK`), and a turn that is not
disturbed one handler (`Alone`). `RunInv`: such a run is as its one executor, or the last request, left it — when none
is at work in it, it waits, has completed or is cancelled and its log ends with the event that says so, or it failed. `ShowInv`:
a handler has recorded exactly the events before its `next`, each answer segment once (`HandlerOK`), and between
requests the turn tells of all of them (`IdleOK`). The hard step is a handler that goes from one request's range of events to the next one's:
`resume` and `cancel` compute where to begin from the log's length or the row's `seq`, and only `ShowInv` says the two agree.
`TurnsKeepRuns` needs `OwnOK` and that no copy a database session holds is of another run; `EventsToldInOrder` is the
action property behind `Mirrors`: each step of a turn's row tells of the next event of its log or of none.
`SerialTurns`: with one thread and no crash `disturbed` stays empty, so what `Mirrors` leaves out is overlap
and crashes. `HostKeepsPromises` restates the executor's promises under the host.

**`RemoteAuth_proofs`.** `OwnerIsOne`, `CredentialReplacedOnce`, `RevokedDeviceStaysOut`, `RefreshNeedsActive`. None of the
four is inductive: each speaks of an answer, and what makes the answer right was read a step before. `AuthInv` adds `PairsOK`
(a number not drawn has no rows; the credential a pair replaces is consumed, so it cannot be replaced again) and
`Found(t)`: what the request of thread *t* has read still holds, or the credential it presents is no longer live. It
survives the steps of the others because rows only lose (`RowsOnlyLose`): no device comes back, no pair changes
hands, no credential becomes live again, and a revocation takes the live credentials of its device with it.

**`RemoteBroker_proofs`.** About `BrokerSpec`, tasks of a client over the server and any faults, in layers that
build on each other. `BrokerTypes`: `BaseInv` says where a task stands (`Where`): what it waits for is the request it made, and
an answer that issued a pair names it. `LogoutLeavesNothing`: `SectionInv`, one task at most rotates, and unless muddled nobody
rotates while a login or logout is between its writes (`Stage`), only the enrolled device has anything in the store, and
without an enrollment nothing is in memory (`Bounded`).
`RetrySendsAnother`: `OwnedInv` (whatever the client holds was issued, to the device it is held for), `UnusedInv` (a pair on its way from
the server to the session is in one place and nobody's token yet) and `RetryInv` (a task that was answered 401 finds
the rejected token in the session only as long as the generation has not moved).
`ExpiredIsRefused`: `DeniedInv`, what the rotation presents is what the store holds until its answer is heard, since
only a rotation, a login or a logout writes the store and none is beside it.
`CredentialIsKept` is not inductive for three reasons, and each has its invariant. A pair that has just been issued
must be good when it is stored: `FreshInv` and `HeldInv`, nobody has presented it nor can while it is in no slot. The server
consumes a credential some steps before the client hears of it: `AskedInRotation` (whoever presents what is stored is
the rotation) and `Replaced` (if the credential that would be read is consumed, the rotation that replaces it is not over).
And the rotation may end or die between its writes: `Newest`, the slot it has written has the highest generation.
`OnlyFaultsLose`: what the property excuses as spoiled needs a fault, so without one no order of the writes loses the
credential. `RotationsExclude` is a part of `SectionInv`. `ServerKeptUnderClient`: each step of client and server is one
`RemoteAuth` allows or leaves its rows alone, so the server's theorems hold of the composition.

**`Maintenance_proofs`.** `LockIsSection`: the refinement maps a thread inside to the mode it holds. It rests on the
lock on the file alone (`FlockOK`: an exclusive lock stands alone, and a thread inside has the lock it asked for); the gate
is not needed for exclusion, only for the threads of one process. `GatesReopen` needs the gate's counters:
`GateCounts` says that the readers and the writer of a gate are the threads of its process that have
passed it, by cardinality, except where a failed `open` left one behind (`leaked`).
`SealedBundleIsWhole`: `BackupInv` adds that an exclusive place in the section stands alone, that
whoever writes a file shares the section and a file is half written only while somebody writes it
(`WritersInside`), and that the backup is alone from its snapshot to its end (`BackupAlone`): nothing it copies is in the
middle of a write, and what a deletion takes meanwhile the reference check finds.
`RestoreIsWhole` and `RestoreRollsBack` (`OriginalKept`): `RestoreInv` says how far a restore under way has come — the parts before
the current one are replaced, a copy starts on a free path, all are replaced from the checks on, and what was moved
aside is removed only after them. What an earlier restore left behind is not mentioned: a restore moves aside whatever
it finds, so only its own progress matters. `BackupKeepsSection`: uploads, exports and the backup only take steps of
`MaintenanceSection`, the specification `LockIsSection` shows implemented, so the exclusion the backup's proof uses is what
gate and lock provide (`SectionExcludes`).

**`HostServices_proofs`.** `CurrentServed`, `ProviderKept`: `KnowledgeInv` says that an index in the cache is the
index of its fingerprint (`CacheOK`), which links, deletions and rebuilds cannot change since they write rows and
not the cache; that a coroutine still has the provider of its base; and that nothing is ready in a base whose provider
is being changed (`BoundOK`), both only until a change of provider overlaps with a coroutine. `DependenciesKept`, `RollbackKept`
(`ReplacedVersionKept`): `PluginInv` says what a request under way has found and what it will write (`WorkOK`),
that as long as no row it has read has changed (`TestsOK`) the dependencies it has tested are on and the dependants it
has tested are off, and that as long as its own row has not (`VersionOK`) the version it replaces is the one it records. The requests of the others keep that, or make it stale.
`CacheTransparent` is `CacheOK` and what a search has taken from it. `SerialPlugins`: with one thread no row a request has read
changes before it writes (`stale` is empty), so only a deployment disturbs.

**`Workspace_proofs`.** One invariant for each part.
`CompletedRuns`: `RunInv`, a run that goes on and has failed no topic has done each topic it has seen or has it in its queue.
`RevisionsOnTheirBase`: `WriteInv`, the decision that accepts has compared its reading of the document with the
revision's base (`WriteRequestOK`), and two proposals never make one revision.
`PromotionsKept`: `AreaInv`, a promotion binds its topic to the area it found the question in, and a question never leaves it; a
transition never leads to `active_topic`, which only a promotion sets, with its topic.
`EvidenceKept`: `LearnInv`, an attempt is made once and held evidence refers to one; a deletion that finds no evidence
and is committed over a promotion is what `strayed` records.
`VerifiedClaims`, `DerivedClaims`: `PublicationInv`, a claim refers to evidence that was once stored (`RestingOK`), a pack or chapter that counts
as current shows the versions of its claims or their notice is due (`PackOK`, `BookOK`), a new row
is made by one request only, and a deletion that has searched (`DeletionOK`) holds every claim that rests on its source and whose
verification stands since before (`Stands`): the evidence of such a claim was found, then the claim, and in the end there is none. That a claim changes *with* what hangs on it or with a notice under way is then seen action by action.
`SerialWriting`, `SerialLearning`, `SerialPublication`: four of the properties here leave out rows that a race has touched
(`beaten`, `strayed`, `overtaken`, `late`). These theorems show that the exceptions are no wider than that: with one thread what
a request has read still stands when it commits, so the sets stay empty and the properties hold of every row — for
practice on condition that no item moves to another concept (`ItemsStay`), which the code allows and does not guard.

`ServicesTyped` and `WorkspaceTyped` put the types of all parts together. `RunIsServices` and `RunIsWorkspace`: the
specification the run explores implies that of each part, so each theorem about a part is one about the run's properties.

Only model-checked: `RunsEnd` and `CancelAnnounced`, because liveness under
fairness and `ENABLED` are out of the prover's reach. No definition here is recursive over data, so nothing is left
to an induction the prover could not do.

## 11 What is not modelled

- **DesktopSidecar** — starting and stopping the local server and the choice of mode; what the server
  does when it dies is the crash of the other models. The next component to add.
- **ClientRuntime** — the connection states and retry counters of the web client: a single-threaded machine over timers; after
  the sidecar.
- **WebUI**, **LLMTransport**, **RetrievalAndParsing**, **DomainPacks** — rendering; HTTP calls, whose outcomes
  `TutorExecutor` enumerates; parsing and ranking, pure functions whose worth is a matter of data; declarative files.
- Of **HostTutor**: closing, archiving and restoring a session, its persona, the notebook, and the direct native
  router (so `Regenerate` is no step under the host).
- Of **RemoteBroker**: the probe of a server's identity (it only refuses), uploads and downloads, which send as any other
  request does.
- Of **KnowledgeIngestion**: the parsing of documents, previews, downloads and lists.
- Of the workspace: endpoints that only read, the text of packs and exports, notes, personas, visual artifacts and
  activities (rows nothing refers to), prompts and the ranking of candidates, and what a domain pack declares.
- Faults: a full disk or a database that cannot be opened makes a handler raise at its commit, which is one of
  the outcomes of every commit only where the code does something about it (the executor's `_fail`, a restore, a
  research run). Clocks: tokens expire at any moment, time-outs may fire at any moment, rate limits may refuse at
  any moment.
