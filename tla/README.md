# A TLA+ verification project for PrologTsetlinMachine

This directory holds TLA+ models of the concurrent, crash-prone and
order-sensitive parts of PrologTsetlinMachine, TLC configurations that check
them on small instances, and TLAPS proofs that carry the most important
properties to every instance. `PROJECT.json` is the machine-readable index: it
maps each definition to the lines it stands for, lists the runs, the hazards
each property is aimed at, and for each property a mutant, a plausible bug of
the mapped code that makes TLC find the property violated.

Paths below are relative to the root of the repository; Python paths without a
directory are under `python/prolog_tsetlin/`.

## 1. Inventory

### Native Class II consolidation (modelled)

| part | state | operations | hard behaviour |
|---|---|---|---|
| `ConcurrentMappingTable` (`src/concurrent_mapping.cpp`) | one atomic 64-bit word per source: bound flag, 24-bit artifact, 12-bit slot, 27-bit generation | `lookup`, `try_bind`, `try_release`, `try_rebind` | callers race with remembered words (ABA); the generation wraps |
| `ShadowAuditor` (`src/shadow_audit.cpp`) | a cursor and a ring of sequence-stamped atomic slots | `record`, `snapshot`, `restore`, `reset`; the pure `decide_audit` | lock-free recorders of different laps race on a slot; the snapshot scans while they write |
| `ConsolidationRegistry` (`src/consolidation_registry.cpp`) | per artifact: lifecycle state, specification, `active_mappings`, current audit generation; one mapping table | nominate, validate, compile, `begin_shadow`, `activate`, `replace_active`, `reopen`, `dissolve`, `reject`, `record_observation`, `resolve`, checkpoint, restore | mutators serialise on `writer_mutex_`, but `resolve` and `record_observation` hold no lock and see every intermediate store; activation and replacement can fail half-way |
| `ClassIIPersistence` (`src/class_ii_persistence.cpp`) | a snapshot file, a hash-chained event log, the writer's commit token | `capture`, `append_event`, `write_snapshot_atomic`, `compact`, `recover` | process crash, power failure and I/O failure at every step; torn tails; compaction interrupted half-way |
| candidate clusters (`include/ptm/disjoint_set.hpp`) | union-find parents and ranks | `find`, `unite` | sequential |

The registry owns a mapping table and, per artifact, a sequence of auditors
(a new one per phase; retired ones are kept alive for recorders that still
point to them). A control-plane loop records observations, asks
`audit_decision`, calls `activate`/`reopen`, and makes the registry's
checkpoint durable with `append_event` before it relies on it. After a crash it
calls `recover` and `restore`.

Properties that make these correct: an active artifact owns all its sources, at
its ports; no reader is given a route that never existed; a stale mapping word
changes nothing; audit windows count each observation once and never mix
phases; a failed activation leaves nothing behind; whatever crash happens,
recovery returns an image at least as new as every acknowledged one.

### Python control plane

| part | state | operations | hard behaviour |
|---|---|---|---|
| model-generation store (`services/model_generation.py`, 295-691) | content-addressed objects; an append-only event log; a separate head file; one event lock per root and process | put, read, `append_event`, `read_events` | log and head are published one after the other, and undone one after the other when a publication fails |
| model-generation controller (same file, 741-2904; types in `model_generation.py`) | per parent line: generations and their states, evidence reservations, the active generation | register, reserve, record evidence, reject, approve, activate, request_reopen, restore, reconcile | `request_reopen` gives up the event lock during the external evaluation; several controllers on one root; recovery on construction completes or abandons what others have in progress; evidence offered again |
| lifecycle drivers (same file, 3911-4646; objects in `model_generation.py`) | none of their own; the objects they put in the store | growth and contraction episodes, the single-threshold entry point, drift and restoration over the controller | one step of several failing; objects before the events that name them; recovery by somebody else |
| bounded child process (`_bounded_process.py`) | a child process group, two reader threads, a queue of 8 chunks | `run_bounded_process` | timeout against late output; a full queue while the main thread is killing the child; processes that keep the pipe open |
| benchmark campaign (`benchmark_campaign.py`, `benchmarks/initial_capacity/`) | plan, raw records, summary, predictions of each run | plan, attempt, append, summarize, resume | the driver is killed between an attempt and its record; its wrapper outlives it; a line is cut short |
| session controllers (`tui/controllers.py`) and applications (`tui/app.py`, `tui/single_pane/app.py`) | request objects, cancel flags, status, retained runs and results, the artifact that is open | start, cancel, complete, fail, export, open an artifact, run a record | worker threads report after a cancel or after a newer request; widgets' messages are queued; a file is replaced after it was opened |
| services (`services/training.py`, `search.py`, `inference.py`, ...) | training state, search progress | train, search, infer, diagnose, save, load | cancellation, early stop |
| Prolog bridge (`prolog_bridge.py`, `prolog/bounded_*.pl`) | none between calls | four bounded searches and a counterexample-guided repair in GNU Prolog | the child process's failures; answers that are not right; a loop that must end |
| PTA control plane (`pta/`, `prolog/pta_*.pl`) | reasoning sessions; a literal catalog; proposals, reviews, clauses, artifacts | add facts, run the collective, review, materialize, compile, lower, escalate, de-escalate | answers that are truncated, wrong or stale; two languages' idea of order |

Properties that make these correct: whatever the mutators of the store write,
replay accepts; an acknowledged event survives every failure and crash; a
running controller never routes ahead of the durable log; an observation is
evidence once and a behavior is activated once, whichever controller asks; a
bounded call returns in time, says what happened and leaves nothing running; a
campaign's records are exact and each was earned; what the workbench shows and
exports belongs to one run and one configuration; a symbolic answer that is
accepted is so, and one that is called complete is complete; a child that is
recorded is borne out by the corpora of its episode; a prediction is made by an
artifact that was verified.

### Kernels and tools

Scalar Tsetlin machine (`src/scalar_tm.cpp`, `reference.py`), packed machine and
CUDA kernels, logic compiler, model artifact runtime and C API,
preprocessing and adapters, Fredkin and PA kernels, graph machines, command
line. These are numeric or pure; their hazards are numeric edges rather than
interleavings. The scalar machine is modelled as operators, because episodes
train, extend, contract and export it.

How the parts depend on one another: the generation service, the terminal
shells and the command line start searches and collectives through the Prolog
bridge and the collective service; these and the campaign start every child
through `run_bounded_process`. The generation service takes its candidates from
the collective's complete answers and trains the children with the scalar
machine. The workbench opens the artifacts that its own exports write. Nothing
connects the Python store with the
native registry: they are two lifecycles of the same design.

`PROJECT.json` lists every part with its status; section 6 has the plan.

## 2. Modules

| module | models |
|---|---|
| `MappingWord` | the fields of a mapping word and what each table operation installs |
| `ConcurrentMapping` | the bare table under racing threads with remembered entries |
| `AuditPolicy` | `decide_audit`, on fractions instead of doubles |
| `ShadowAudit` | the ring, new or restored, one step per atomic access |
| `AuditWindow` | the meaning of the ring: the last `WindowSize` observations |
| `ConsolidationRegistry` | the registry: mutators, lock-free readers, restarts |
| `SourceRouting` | abstract: which artifact and slot each source resolves to |
| `RegistryRouting` | the refinement mapping from the registry to `SourceRouting` |
| `RegistryProofs` | the registry's inductive invariant, its safety theorems, and that it implements `SourceRouting` |
| `ClassIIPersistence` | files, tokens, I/O failures and crashes |
| `GenerationLifecycle` | the events of the model-generation log and their replay |
| `GenerationController` | the store's log and head, several controllers, failed publications, crashes |
| `GenerationLine` | abstract: one line of generations, a behavior activated once, a ledger in which an observation is spent once |
| `GenerationControllerProofs` | proofs about the controllers, and that they implement `GenerationLine` |
| `TsetlinMachine` | the scalar machine, its learning, extension, contraction and export |
| `GenerationGraph` | the objects of an episode: candidates, children, vectors, audits, lineages, and their validation |
| `GenerationEpisode` | the growth and contraction drivers over collective, objects and lifecycle, with crashes and failures |
| `BoundedCall` | abstract: what a caller of `run_bounded_process` sees |
| `BoundedProcess` | the caller, two readers, their queue, the child and a descendant, the clock |
| `ConcurrencyProofs` | proofs about the table, the ring and the process, whose steps are those of `BoundedCall` |
| `Campaign` | the campaign's driver and its wrappers, over `BoundedCall` |
| `DurabilityProofs` | proofs about the persistence and the campaign |
| `TrainingSession` | a training's session, its worker thread and the handlers of both shells |
| `SearchSession` | the bounded searches of the shells and their threads |
| `ArtifactSession` | opening, verifying and running portable artifacts, beside the files |
| `Workbench` | the three sessions in one shell, sharing the UI thread and the cancel key |
| `WorkbenchProofs` | proofs about it |
| `DecisionTrees` | read-once trees, what the Prolog search enumerates, and their lowering to fixed Logic |
| `BoundedSearch` | one symbolic request: four searches and the repair loop, over `BoundedCall` |
| `BoundedSearchProofs` | proofs about it |
| `ReasoningSession` | the facts that the PTAs share, and how they are added |
| `CollectiveDerivation` | what the GNU Prolog collective derives from them, and what the Python reference oracles do |
| `Collective` | one run of the collective: budgets, call, decoding, validation, complete consumers, over `BoundedCall` |
| `ThresholdReview` | the review of a proposed threshold against labelled facts |
| `ThresholdPromotion` | review, registration and compilation of a proposed threshold, while facts are added |
| `ThresholdPromotionProofs` | proofs about the collective's answers and the promotion of a threshold |
| `GenerationEpisodeProofs` | proofs about the scalar machine and the episodes |
| `MC*` | instances for TLC |

### How state and actions correspond to the code

*Mapping table.* A word is the record of its bit fields; the fields are
disjoint, so packing and unpacking are inverse and a compare-and-swap compares
records. Handles come from sets that fit their fields. A thread remembers any
word it has looked up or any result of its own operation, and later uses it as
the expectation of `try_release` or `try_rebind`. `NextGeneration` wraps as the
mask does.

*Shadow auditor.* `Reserve` is the `fetch_add`; `LoadSlot`, `Swap`, `Retry` and
`GiveUp` are the iterations of the compare-and-swap loop; `SnapshotBegin` loads
the cursor and each `ScanSlot` one slot. A spurious failure of
`compare_exchange_weak` reloads an equal value and is a stuttering step.
Rates are compared as cross products; the code compares doubles. A behavior
begins with the ring that `restore` builds from some checkpoint: its
observations end at its cursor, the mismatches first. The checkpoint of nothing
is a new auditor.

*Registry.* `op` is the place of the thread that holds `writer_mutex_`; every
store that a lock-free reader can observe (a word, a state, an auditor pointer)
is a step of its own. What only lock holders read or write
(`active_mappings`, specifications) is part of the step beside it. A binding
vector is a function from sources to ports, visited in any order. `resolve` is
two steps (the word, then the artifact's state) and `record_observation` four
(the state, the auditor and its phase, the state again, the ring). Retired
auditors are represented only by the fact that a recorder's pointer is no
longer `current`. `live` in a resolver is history: was the route it read live
at some instant since the call began? `Restart` ends the process between two
mutators and restores a checkpoint.

*Persistence.* A token is modelled as the chain of images up to it: equal
digests are equal chains, and the sequence number is the chain's length.
Writing a temporary file is invisible to recovery, so an atomic replacement is
one step; an append is a write and a synchronisation with a crash possible
before, between and after. `disk` is the part of the log a power failure cannot
take. `FsyncCoversNewEntry` says whether `fsync` of a new file also makes its
name durable, as some file systems do and POSIX does not promise; the run takes
it to be true.

*Model generations.* An event is its kind with the usage or lineage it names;
`Replay` folds the log with one `Valid...` operator per branch of
`_replay_lifecycle_state` and stops being `ok` where the code raises. The head
is modelled as the log its digest binds, so `Readable` is equality. `holder` is
the thread that holds the event lock and `io` its place in `append_event`: the
log, the head, and on a failure the undo of each, with an interrupt, a failing
undo or a crash possible at every place. A mutator's checks and the start of
its append are one step, since the lock is held from before the replay to the
end of the append. A call that raises before it appends changes nothing and is no step.
`request_reopen` is five: reserve (abandoning an older reservation first),
evaluate without the lock, commit, or settle and abandon. Candidate and
de-escalation episodes have the same rules and are one purpose; all evidence is
of one dataset, and an observation stands for both its identity and its record
fingerprint. A lineage carries the verdict of its promotion audit; an accepted
audit has exact conformance. The validations that read immutable objects again
(graph, deployable generation, bundle) succeed or, in `ConstructFails`,
`ReserveRaises` and `EvaluationFails`, raise at any time.

*Bounded process.* The caller's loop, its drain, its wait and each stage of its
`finally` are steps; a reader is its blocking `read`, its `put` with a timeout
and its end marker. `read(8192)` of a buffered stream returns when that much
has come or at the end, never earlier: a unit of output is a part of it, and a
read waits for `ReadSize` units. The child's descendant inherits the pipes and
may leave the session (`Escapes`). `terminate` sends SIGKILL to everything in
the boundary; a process dies in a later step. Two deadlines are kept apart: the
execution deadline, and the cleanup's, which an early failure brings forward.
An interrupt can strike wherever the main thread waits or tests in the `try`
(`Interrupt`), and goes to the `finally`. Outside the `try`, nothing does: an exception
between `Popen` and the `try` (a reader that cannot be started, an interrupt of the
preparation) or within the `finally` block itself ends the call where it is
(`Abandon`), perhaps with the child alive and a reader blocked. The 20 ms that
a child is given to exit when both streams have closed are a step of `Exit` before
`Drained`, which kills what has not exited.
`BoundedCall` is what remains of all this for a caller, and what `Campaign`,
`BoundedSearch` and `Collective` build on.

*Campaign.* `raw.jsonl` is the only memory. The driver is `run_local_matrix.py`
from its lock-free start over plan, validation of the old records, attempt,
scoring, append and summary; it can be killed or interrupted at each step
(`KillDriver` is also the bounded call's being abandoned, which no handler
catches), its wrapper then becomes an orphan that goes on writing predictions,
the native executable may be rebuilt once, and an append may be cut short. A
file of predictions is who wrote it in which attempt.

*Workbench.* Handlers run on the UI thread, one per step. A worker thread posts
a handler with `call_from_thread` and waits for it. `Input.Changed`,
`Select.Changed` and timeline messages are queued: between an edit and its
handler the form and the session disagree. Both shells are in the model and
differ as their code does, in the cancel key too: while a search is
*cancelling*, the single pane's key still goes to the search and a training
cannot be cancelled with it, whereas the classic shell's key goes to the
training. A portable artifact is opened and run by handlers that start no
thread. Its bytes are pinned when it is loaded, while `Replace`, another
program, may write or remove any file at any time; `verified` is history: what
was verified when it was opened. The single pane queues the building of a
record's inputs (`Populate`), the classic shell the message that its path was
edited (`PathChanged`). Two exports write artifacts: a training's and a
search's. Each has a path field of its own, except that the single pane's
training export writes to the field that its Load reads (`RunPaths`); the
classic shell shows the path it wrote as the next one to open. A search whose
document is no request of the selected kind, or no JSON at all, is refused
(`SearchRefused`). A run before its inputs exist raises `NoMatches`, which no
handler catches; there the shell ends, and there is no step.

*Bounded search.* A request is one of the five kinds with its labels and
limits. Each round of a repair is one `BoundedCall`. A child that prints a
candidate may print any candidate of the grammar within or beyond the bounds; a
child that prints "no solution" is honest, for nothing in Python checks it.
`_DecisionLogicBuilder` interns its nodes, so a node is its expression and the
operands of a gate are a set; `Lower` fails where `__post_init__` raises, for
capacity and for the forward reference alike.

*PTA collective and promotion.* A session is lists of facts. Numbers keep their
Python type; observed numbers are in half-units and a midpoint in quarter-units.
`CollectiveDerivation` orders terms as `sort/2` does (floats before integers, 1
apart from 1.0), `Collective` checks rows in Python's order of numbers. A child
that exits with code 0 prints garbage, or the rows it derives cut to the budget,
or those with one line or count altered: several alterations of one print are
not in the model, whatever the number of prints. The two consumers in the generation
service that need a whole product are part of the judgement of an answer.
The reference oracles of `pta/input.py`, `deescalation.py` and `escalation.py`
are operators beside the derivation, and complete answers are compared with them.
`ThresholdPromotion` adds facts between the steps; `materialize` and `compile`
review again, and what they saw is kept beside their products. `materialize`
registers the literal before the exact gate, which may refuse the clause: the
literal then stays in the catalog without one.

*Model-generation episodes.* `driver.at` is the next step of the caller, from
its plan (three corpora and its policies) over registration, reservation, the
collective, the choice of a child, the audit and the events to the end; each
`put` that an event relies on is an object in `objects`, and a content address
is the value it addresses. `Chosen` trains a candidate for every accepted row
and takes the best; the collective's answer comes from `Collective` itself, so
that a misprinted answer goes as far as the code lets it. `Conforms` is the
comparison of the two runtimes, `Counts` the audit, `Rebuilds` the validation of
a lineage as a graph of stored objects, which derives everything again. The
lifecycle's log is its replay here: `generation_store` covers how it is written.
A crash can follow every step, a failure raises into the driver's own recovery,
and another controller may be constructed at any time and settle what is in
progress. A selection that chooses no candidate has stored the snapshots of those
it tried (`Tried`), which nothing names. The single-threshold entry point is a plan that asks
for one row and publishes one object more after the activation.

## 3. Runs and what they show

| run | instance | distinct states | shows |
|---|---|---|---|
| `mapping` | 1 source, 2 threads, 2 artifacts, 2 slots, 3 generations | 1 thousand | a stale word never succeeds before a whole lap; one binding per generation |
| `shadow_audit` | ring of 2, 2 recorders, every checkpoint up to cursor 3, 5 observations | 254 thousand | what a snapshot counts and may miss; a quiet ring is the window, also after a restore; slots never go back; `record` returns |
| `registry_routing` | 2 sources, 2 slots, 2 artifacts, 6 specifications, 1 recorder | 312 thousand | ownership, purity of audits, restorable checkpoints, refinement of `SourceRouting`; every mutator ends |
| `registry_resolve` | the same with 1 resolver | 1.8 million | no resolver pieces a route together |
| `persistence` | 2 images, chains of 3 | 6 thousand | recovery keeps what was acknowledged, stays on the branch, and does not strand a fresh writer |
| `generation_store` | 2 controllers, 4 observations, 2 behaviors | 90 thousand | the log always replays; acknowledged events and routes are durable; evaluations share no evidence; refinement of `GenerationLine` |
| `bounded_process` | pipes and queue of 1, reads of 2 units, output of 2, budget of 1 | 839 thousand | the outcome is true; nothing of the tree outlives a call that is not abandoned; the readers end; refinement of `BoundedCall`, which returns |
| `campaign` | 1 native and 1 other run (an incumbent's or the scalar reference's), 2 splits, 2 kills, 1 cut line | 1.4 million | records are exact, an ok record is earned, the campaign settles |
| `workbench` | both shells, 2 configurations, 3 epochs of which 2 are sampled, 2 kinds of search, 2 files, 4 acts | 846 thousand | exports and panels are of one run and the form's settings; predictions are by verified artifacts; no hand-over is refused; no thread is out of reach; jobs settle |
| `repair` | 2 features, all labellings of 4 rows, 4 parents, 3 limits, 5 kinds of request | 847 thousand | answers are exact, refusals are earned, searches stay within their budget, every request ends |
| `repair_doc` | the same | | **violation**: an exact repair that cannot be lowered |
| `promotion` | either about 1300 sessions of four kinds, 6 queries, 2 catalogs, one altered line or one added fact; or 2 parents, 8 plans, 2 live corpora, 2 episodes, 2 mishaps | 656 thousand | accepted answers are true, complete ones whole and what the reference oracles find; an artifact is earned; what an honest child proposes passes review; children are earned on their corpora; episodes settle |

Why the bounds are enough. Two sources are needed for a half-finished activation
or release, two artifacts for a conflict and for a replacement; a third artifact
only adds another conflicting owner, which the proofs cover. Three generations
make a whole lap of the field possible. Five observations in a ring of two let a
slot be claimed by three laps at once. Chains of three events give a snapshot, a
log prefix that it covers, and a further event. The specifications of the
registry instance include ones `nominate` must turn down: an immature one, one
with clashing slots, one with a slot out of range. In the generation store two
controllers are what it takes for one to overtake the other, and four
observations register a parent, run an episode, reopen it on live evidence and
run a second episode to its activation, or abandon and retry on the way; at most
12 events are ever needed, so `LogCapacity` does not cut anything off there.
With a queue of one item and reads of two units every party of a bounded call
blocks on every other, and a budget of one unit is met exactly and exceeded. Two
kills let a resumed driver be killed again, with an orphan of the first. Four
acts are an edit, a training, another edit and a search, in any order; the
proofs hold for any number. The workbench run has one user who explores and
opens no artifact, and one who leaves the forms alone, lets one job at a time
end, and uses the artifact panel between them: the panel shares nothing with a
job under way. Two files let one be open while the other is written. Two
features give trees with a repeated feature on two paths and unpruned nodes;
eight instructions hold a parity of two literals and not every parity of two
trees. Three labelled examples are what a barrier, a run between two negatives
and a conflict need; three literals make a chain of equivalences. The budget of
candidates (`MaxCandidates`) admits every request of the instance; one beyond it
is refused before anything is searched. The plans of the episodes are chosen so
that each outcome occurs: two good thresholds of which one is better, a holdout
that the child spoils, a policy that asks for more than its holdout, corpora
that share an example with the training, a literal that is redundant on the
proof and not on the confirmation, and one whose loss the holdout notices. Two
episodes let the second meet what the first has left, and two mishaps let the
recovery of a failure fail.

Symmetry is used (over threads and artifacts in `mapping`, over artifacts in
`registry_resolve`, over observations and behaviors in `generation_store`) only
where a run checks safety alone; the runs that check liveness use none.
Deadlock is not checked where the system may stop: a call that has returned, a
campaign with its summary, a workbench whose user does nothing more, a request
that has ended, a session nobody adds to.

### Divergences met while modelling

`repair_doc` is the one run for a divergence: `docs/developer/prolog.md:75`
says that parent, guard and repair "can all lower to fixed Logic programs", but
a repair whose parent and guard are the same interned node raises in
`logic_consolidation.py:98` and the exact repair is lost.

Others were found with TLC or by reading and have no run:

- A snapshot scanned while recorders run can lose *completed* mismatches of its
  window, and then accept, although `docs/architecture/class-ii-lifecycle.md`
  calls the uncertainty conservative (`ShadowAudit!CompletedMismatchesCount`).
- A restored window has the counts of its checkpoint and not the order of its
  observations, so decisions until it has been filled again can differ from
  those of the lost one.
- A fresh writer whose snapshot is ahead of a log with a torn tail is refused,
  although `class-ii-persistence.md` says that the next append removes the tail
  (`ClassIIPersistence!NextAppendRemovesTornTail`); and after an append that
  failed, recovery may return the failed event (`FailureKeepsBoundary`).
- With `FsyncCoversNewEntry = FALSE` TLC finds `RecoveryIsFaithful` violated: the
  first append creates the log with `fopen("ab")` and never synchronises the
  directory, so a power failure can take the log with the acknowledged event.
- An exception in front of the `try` of `run_bounded_process`, such as a
  `reader.start()` that raises (`_bounded_process.py:350`), or an interrupt of the
  `finally` block, leaves the child running, although the docstring (`:234-239`)
  has the call own the process tree. Hence "Abandoned" in `NothingOutlives` and
  `ReadersEnd`; without the exception TLC violates the first in two steps,
  `Start` and `Abandon`.
- With `Escapes = TRUE` a bounded call waits beyond its deadline for a detached
  descendant that holds a pipe (`BoundedProcess!CallReturns`): `close` blocks on
  the reader's lock.
- In a field with both integers and floats GNU Prolog's `sort/2` puts the floats
  first: an honest collective misses flips, or proposes boundaries that the
  review refuses, while its counts say that the answer is complete
  (`docs/developer/prolog-api.md:118-123`). Hence `PlainNumbers` in
  `AnswersAreWhole` and `ProposalsPassReview`.
- Two different scores of a clause for a class are accepted by the session and
  make an honest collective fail as a protocol error. Hence `PlainScores`.
- The reference oracles in Python and the GNU Prolog collective differ where
  `OracleAgrees` allows it: `allocate_cotm_weights` rounds and makes a zero +-1,
  `cotm_weight` truncates and leaves a zero out, although `escalation.py:78-80`
  calls the contract of the two identical; `detect_clause_subsumption` ignores the
  rows that its docstring asks about; and of a run of positives at the upper end
  `propose_interval` proposes an interval without its greatest number, which its
  provenance counts as covered.
- `_validate_threshold_lineage_graph` reconstructs the audit with a policy whose
  `minimum_observations` is the number observed. When the caller's policy asks
  for more than the holdout has, `record_candidate` raises "promotion audit
  cannot be reconstructed", where
  `docs/architecture/trained-parent-model-generation.md:310` has a candidate
  that fails its audit rejected durably. Hence the exception in `EpisodesSettle`.
- An episode that raises after `record_candidate` may find its child active
  nevertheless: its own recovery, or a controller constructed elsewhere,
  completes an approved activation. The compatibility entry point raises after
  the activation if publishing the evidence of the older schema fails.
- Artifact panels. In the single pane a record run before the inputs of the last
  load have been built reads those of the artifact before by their number, and
  raises `NoMatches` where that one had fewer; a successful load leaves the
  prediction of the artifact before beside the new one. In the classic shell
  Load with an empty path removes the inputs and not the session, and the run
  key then raises `NoMatches`; an open that fails leaves the earlier prediction;
  a late `Input.Changed` disables the run button after a successful load. In
  both, an export onto the path of a loaded file that has been removed shows the
  path of the new artifact while the pinned bytes run.
- An orphaned wrapper of a killed driver may write the predictions that a later
  attempt scores; `RecordsAreEarned` excepts the runs an orphan has worked on.

## 4. Fairness

Weak fairness only, of what the operating system schedules or what is bound to
end by itself; nothing obliges a user, a recorder or a caller to start anything.

- `ShadowAudit`: a thread *inside* `record` or `snapshot`;
  `ConsolidationRegistry`: the thread that holds `writer_mutex_`. Neither loop
  waits for another thread.
- `BoundedProcess`: the calling thread, the readers, the clock, and a process
  that has been sent SIGKILL dies. The child and its descendant owe nothing:
  they may hang for ever.
- `Campaign`: the driver's main thread, the bounded call in progress, and the
  operator's restart of a killed driver; nothing is assumed of a wrapper.
- `Workbench`: the UI thread runs the handlers that are posted and the worker
  threads run; a bounded search returns, as `bounded_process` shows.
- `BoundedSearch`: the thread that asks, and a bounded call launches and
  returns. The deadline, a cancellation and an answer of Prolog's are not owed.

## 5. Proofs

All proofs are about arbitrary constants, under the named assumptions of the
modules (a window holds at least one observation, the marker for "no artifact"
is not one, a form that does not parse is no configuration, and so on). The
longest is `EpisodeAssumption` of `GenerationGraph`, on what an episode is given:
each parent has a manifest whose literals have identifiers of their own, a
well-formed machine of its width and a training corpus of labelled numbers; each
plan has three such corpora without an example in common and a policy that the
code's own constructors accept; the two queries ask what `extend` and `contract`
ask. TLC evaluates it in the run `promotion`.

The library's induction theorems take an operator, which none of the provers
can instantiate. Where a proof has to go along a log, a queue or a chain it
takes the least counterexample instead: `LeastNumber` and `LeastOfNumbers` say
that a set of naturals that is not empty has a least member.

*Mapping table* (`ConcurrencyProofs`). Type correctness, and the two
lap properties: every remembered word is at most one lap behind, and its
distance in generations decides whether it can still match.

*Shadow auditor* (`ConcurrencyProofs`). `RingInv` says that each slot holds an
observation that belongs there, that a recorder's last sight of its slot is no
newer than the slot, and that an observation whose `record()` has returned is in
its slot or was overwritten by a newer one. With it `SlotsGoForward` is a fact
about the one compare-and-swap, and `QuietRingStaysWindow` follows because a
window has one observation for each slot. `ScanInv` adds what a snapshot has
counted and what it has passed by without counting; `SnapshotsStayFaithful`
needs no bound on the recorders that run meanwhile.

*Registry* (`RegistryProofs`). None of the ownership properties is inductive by
itself. `activate` trusts that its artifact owns the sources it has bound so
far; `replace_active` that the parent still owns the sources not yet moved;
the words trust the states of the artifacts they name, and the states trust the
words. `IInv` therefore says what holds at each place of a mutator
(`AtShadow`, `AtBind`, `AtRelease`, `AtMove`, `AtPublish`, `AtRetire`), what
every word, state and `active_mappings` says about the others (`Ownership`),
which phase the current audit window has (`PhaseMatches`, `RecordersMatch`) and
what a resolver in flight knows (`ResolversMatch`). One lemma per action shows
that `Ownership` is preserved; `TypeStep`, `AuditStep` and `ResolverStep` do the
same for the rest. TLC confirmed `IInv` on the `registry_routing` and
`registry_resolve` instances before it was proved. The theorems
`RegistryTypeCorrect`, `ActiveRoutes`, `HeldIsExact`, `HandoffNeverFails`,
`ExclusiveRoutes`, `AuditsStayClean`, `ResolvesAreLinear` and
`CheckpointsRestore` follow from it.

*Routing* (`RegistryProofs`). `Spec => RoutingSpec`: `PublishActive`
publishes, `Reopen`/`DissolveMapped` of an active artifact withdraw,
`MoveSource` detaches, every other step is a stutter of the abstract routing.

*Persistence* (`DurabilityProofs`). Tokens are chains and the frames of
a log grow from the snapshot, each one event longer (`LogContinues`); what is
synchronised is a beginning of what is written (`DiskIsBeginning`); the last
frame is the writer's token or one append ahead of it (`WriterIsClose`); and,
unless a frame that was never synchronised has been adopted, the token lies
under every frame that a power failure may leave as the last
(`UntaintedIsUnder`). `PersistenceInv` is the conjunction, with what holds inside
each call. It gives `FreshTokensStayAccepted` and, on every file system,
`RecoveryStays`. `RecoveryStaysFaithful` also needs `AckedIsDurable`, which only
holds where the fsync of a new file makes its name durable: the theorem assumes
`FsyncCoversNewEntry = TRUE`, as the run does, because TLC finds it violated
without (section 3); the other two theorems do not.

*Bounded process* (`ConcurrencyProofs`). `NothingEverOutlives`, on every path out of
the `try`, needs that the boundary is owned from the launch to the last kill (`TreeIsOwned`).
`OutcomeStaysTrue` needs that no unit is lost or invented between the child and
the output (`Conserved`, which adds the queue up item by item), that the end
marker of a stream is its reader's last item and that the caller's count of
markers is right (`QueueIsOrdered`), and that a reader only sends one when nobody
can write any more (`EndedIsSilent`): two markers taken then mean that the output
is whole. `ProcessImplementsCall` proves the safety part of the refinement to
`BoundedCall`, on which the campaign, the searches and the collective rest; its
fairness stays with TLC.

*Campaign* (`DurabilityProofs`). An ok record is believed long after its attempt,
so `CampaignInv` follows the attempt: its wrapper has written every split before
the one it is at (`WrapperHolds`), with the planned executable or with one that is
no longer on disk, which the second look then notices; one that says "ok"
has delivered every split, and what has been scored so far is what it delivered
(`ScoresHold`); nobody but an orphan writes behind the driver's back
(`CallHolds`); and the driver's memory is `raw.jsonl`, up to lines that were cut short
(`DriverKnows`). A line that joins a torn one leaves a malformed line
(`JoinedTells`), so `AppendHolds` records a run at most once whatever is cut.
`RecordsStayEarned` follows.

*Generation store* (`GenerationControllerProofs`). That the published log
replays is not inductive: an append is decided on one log and published later,
possibly by a controller that has since lost its lock to a failure or a crash.
`AppendInv` says what the append in progress started from and how far it has
come in either file; `FilesInv` that both files and what was reported are
prefixes of one another in the right order, each of them a log with `LogInv`;
`CallInv` that a thread that waits, evaluates or commits still has its evidence
among what is spent; `RouteInv` that a route was active in what was reported.
`LogInv` follows a log through its fold: it replays, at most one transition is
in progress (`OneTransition`), no observation is spent twice. For every writer a
lemma (`RegisteredIsValid` ... `CreatedIsValid`) shows that its checks under the
event lock imply the ones that replay makes of its event. The theorems are
`LogAlwaysReplays`, `PromisesStayDurable`, `EvaluationsStayApart`, and the
refinement `ControllerImplementsLine`: the events that count, those before the
append in progress or else the head's, grow by one valid event at a time
(`SettledMoves`), and each kind of event is one step of `GenerationLine` or none
(`EventImplements`).

*Workbench* (`WorkbenchProofs`). The search side and the training side read each
other's state only in the cancel key, so each has an invariant of its own.
`SearchInv` adds to "an unstopped thread is the current one" that the current
thread searches the kind that the session's document is of, and that the
document lags behind the selector by exactly the messages in the queue.
`TrainingInv` says at each place of the worker and for each posted handler what
the session is, and that the export button is right up to the queued edits; only
with it does the property survive an edit between a job's end and the form's
messages. They give `SearchStaysReachable`, `ExportStaysExact` and
`PanelsStayOnOneRun`.

`HandoverStaysExpected` needs of each worker that it is at the sample the session
waits for: `TrainerInv` says at every place, also while the job is being
cancelled, that the recorded samples are a beginning of the selected epochs.
`SelectedAreSampled` shows those to be the sampled epochs in ascending order.

`PredictionsStayVerified` has its own invariant, of what is open, shown and
queued in each shell: the last of the queued inputs are those of the artifact
that is open.

*Bounded search* (`BoundedSearchProofs`). A repair never meets an example twice
(`SeenOnce`): the guard it holds has just been checked against all it has met
(`SeenIsMet`), so the example it fails on is another. After as many turns as
there are examples it has met them all, by the pigeonhole lemma `AllAreSeen`.
This gives `StopsAreEarned`, and with the checks of each answer `AnswersFit`;
`ThresholdRefusalsAreEarned` rests on the honesty of a child that finds nothing
and on the monotonicity argument of `_has_monotonicity_contradiction`.

*Collective* (`ThresholdPromotionProofs`). `CollectiveInv`: a run in progress is
of an admitted session, and the session of the last accepted answer bears out
each of its rows; one lemma for each kind of row (`AnsweredRowIsSo` collects
them) shows that the validation leaves nothing to trust. So `AnswersStayTrue`,
of any number of prints, each with one line or count altered or none.

`AnswersStayWhole` is the converse: nothing that holds is left out of an answer
whose counts say so. The step from an answer to the session is short: a fact
makes a list longer, so that a session which has grown is never again the one of
the last answer (`OldAnswer` in `WholeInv`, which TLC confirmed on the instance of
`promotion` before it was proved). The rest is about the derivation, for
sessions of any facts:

1. Where the numbers of a field are of one Python type, GNU Prolog's standard
   order of its terms is that of the numbers, and what `derive_` finds is what
   the session bears out, product by product (`DerivedIsBornOut`): a flip is a
   turn between neighbouring terms of one label each, an interval is a maximal
   run of positives between two turns.
2. An honest answer is never disbelieved, unless it is of mixed numbers or of a
   clause scored twice for a class (`HonestIsWhole`, `Disbelief`). Under a
   misprint, redundancies that `contract` takes are complete all the same, by the
   service's own comparison of columns (`ContractionIsWhole`).
3. The reference oracles of Python sort samples, not terms. Where each number
   has one label, neighbours among the samples at a turn are neighbours among
   the terms and the other way round (`TurnIsAdjacent`, `AdjacentIsTurn`); and a
   ranking that keeps `MaxFacts` candidates drops none, because there are no
   more of them than facts (`AllAreForemost`). The weights differ as section 3 says.

It assumes what the annotations and checks of the code say: literals and scores
are integers, and a query asks for a natural number of rows
(`NumbersAssumption`, `QueriesAssumption`).

*Promotion* (`ThresholdPromotionProofs`). An artifact takes over what its clause
says of its review, and the clause what the review found: `PromotionInv` carries
both, and that catalogs only grow, so `ArtifactsStayEarned`. The evidence of a
review is two neighbouring observations whose truth differs, and no two
thresholds have the same evidence; with `CollectiveInv` and `ProposalInv` (a
proposal of an honest child is a flip of its session) this gives
`PromotionStaysEarned` and `ProposalsStayReviewable`.

*Scalar machine* (`GenerationEpisodeProofs`). For machines of any size: the
extension by a feature and the export keep every score, and a contraction keeps
the score of each row on which its two literals agree. Each is a lemma on the
clauses that are on; `SameClausesOn` turns it into one about scores. They are what
`SameScores` and `Conforms` ask of the objects of an episode.

*Episodes* (`GenerationEpisodeProofs`). `ChildrenStayEarned` rests on
`EpisodeInv`: each lineage that the log holds is earned where it is
(`LineageIsEarned`), the transition in progress excludes the ones before and
after it (`InOrder`), and what the driver has in hand fits its plan at each of its
places (`DriverInv`). Validation recomputes a child from its corpora
(`RebuiltIsEarned`), the holdout shares nothing with what the child was trained
on (`HoldoutIsUnseen`), and an accepted audit means the counts it stores
(`AcceptedDeserves`); a reopened case rests on vectors that were run on the live
corpus (`CountsAreErrors`, `DriftIsWorse`).

`EpisodesStaySettled` has two halves. The first holds whatever fails: an ended
call leaves nothing in progress. `SettleInv` says for each place of the driver
what the log has in progress and whose it is, and that two constructions of a
controller end whatever it is (`SettledIsOrderly`), so a result always names
the child that is active. The second is of an episode that nothing happens to:
what `extend` and `contract` build must pass the replay of
`_validate_threshold_lineage_graph`, which trusts none of it and derives it again.
`SmoothInv` (`SmoothInvariant`) carries along the episode that the caller's
objects are published, its reservation is the one in the log, its sequence is the
next, and its lineage is `Derivable`. That needs a chain of facts, each for every
value of the constants:

1. Training keeps a machine well formed (`FitKeeps`; the recursion of `Fit` by
   `KeptThroughout`, a least counterexample again), and so do the extension by a
   literal and the contraction (`GrownIsWell`, `ContractedIsWell`).
2. What is compiled from a well-formed machine conforms to it, so that the child
   is deployable (`ChildIsDeployable`).
3. An answer with a misprint that is taken all the same says what an honest
   answer says (`ServedSaysAll`): a line that is lost, doubled or added leaves the
   number of thresholds and of insights apart, or the redundancies other than the
   service's own comparison of columns finds them. So the steps of the collective
   keep that it says all (`CollectiveSaysAll`).
4. What is built from such an answer is among what the replay derives from an
   honest one (`BegunIsDerivable`, `DerivableRebuilds`), and the audit is counted
   again with the same result (`AuditedReaudits`).

What is left for an episode to raise over is what `EpisodesSettle` names: a child
that its audit turned down, and one whose behaviour has been active before.

Only model-checked:

- liveness (`RecordReturns`, `MutatorsFinish`, `ReadersEnd`, `CampaignSettles`,
  `JobsSettle`, `RequestSettles`) and the fairness of `CallSpec`, which TLAPS does
  not do. `RecordReturns` checks that a failed compare-and-swap reloads and gives up
  when it should; its bounded observations cannot show a recorder that others
  starve for ever, which a lock-free loop permits;
- `AnswersAreExact` beyond `AnswersFit` and `RefusalsAreEarned` beyond its
  thresholds and stops: that a program computes what its tree does, and that the
  trees the Prolog search leaves out repair nothing more, are inductions over trees.

## 6. Plan

Done: the mapping table, the auditor, the registry, persistence, and the proofs
about the table and the registry; the generation store and its controllers; the
bounded process and what is built on it: the campaign, the workbench's jobs, the
symbolic searches, the PTA collective and the promotion of a threshold; the
episodes over the store with their object files and the scalar machine; the
whole workbench with its artifacts; the proofs of section 5.

Left, in this order:

1. The rest of the PTA control plane: lowering to the other targets, groups of
   categories, exception rules.
2. `DisjointSet` and the logic compiler against reference definitions.
3. The data adapters' feature templates and their budgets.

## 7. Not modelled

Byte encodings, digests, JSON and file formats; GPU and SIMD kernels; floating
point; widgets; the C ABI; the command line; the text of the protocols between
Python and GNU Prolog. Where a modelled component relies on one of them the
module's comment names the abstraction: digests are collision free, a rename is
atomic and is followed by a directory sync whose failure the code ignores, the
unsynchronised end of a file survives a power failure as a prefix.

Of the modelled components: the Windows job object (the same kill of everything
inside); two campaign drivers at once, which nothing prevents and for which the
code promises nothing; dataset preparation and the host-environment check of a
campaign; `on_unmount` and the wording of the shells; the advisory
`audit_decision`, whose answer may be stale when its caller acts on it and which
`activate` and `replace_active` compute again; the re-attestation of lineages
whose schema is no longer written (`model_generation.py` 1269-1318); a policy
that an episode refuses at once; the relations of a reasoning session that
nothing is derived from; `search_artifact`.

Of the others: the packed and GPU kernels and the graph machines are arithmetic
over wide words and arrays, compared with a reference in the repository's tests; the
compilers and adapters are pure functions of large inputs; the command line and
the documentation tools only arrange calls of what is modelled.
