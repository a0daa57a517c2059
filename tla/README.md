# Verification of print-engineer

TLA+ models, TLC runs and TLAPS proofs for the parts of this repository whose
correctness depends on order, timing or failure. Every definition is written
from the source; `PROJECT.json` maps each one to its lines.

## 1. The system

| Component (source) | State it keeps | Operations | Interacts with |
|---|---|---|---|
| Refresh cooldown (`adapters/printer/transport.py` 16-30, 180-211) | process-wide eligibility table and lock, one flag per client | reserve, publish | every client of the process |
| MQTT transport `PahoMqttClient` (`transport.py`) | connected event, CONNACK failure, report queue, subscription mark, drop counter | connect, fetch_report, request_status_refresh, disconnect; `_on_connect`, `_on_connect_fail`, `_on_message` | paho's network thread, the broker |
| Printer adapter (`adapters/printer/bambu.py`) | retained client, accumulator | connect, get_status, disconnect | transport (calls), MCP printer tool |
| Printer MCP tools (`mcp/tools/printer.py`) | none | status, issue_info | one adapter per call |
| Preparation service (`core/preparation_service.py`) | none across requests | prepare | setup engine, realizer, executor, finalizer |
| Slice executor, finalizer (`adapters/slicer/execution.py`, `finalization.py`) | the run's workspace directory | execute, finalize | file system, slicer process |
| Process runner, slicer adapters (`process.py`, `orca.py`, `base.py`, ...) | child process, job directory | run_cli, slice, validate | operating system |
| Profile store (`profile.py`, `preparation_service.py`) | none, scans the store on each call | list, find, materialize by name or from the discovered source | file system, which the user and the slicer change |
| Print context (`recommendation/context.py`) | none | resolve, resolve_with_authority | profile store, configured defaults |
| Setup selection and realization (`preparation_service.py`, `realization.py`) | none across requests | select, require authority, realize | profile store (read three times) |
| Recommendation (`recommendation/`, `core/recommendation.py`, `core/policy.py`) | per call the rules' builder | recommend, setup, filament_candidates | profile store, slicer, LLM |
| LLM client, prompt (`adapters/llm/ollama.py`, `recommendation/prompt.py`) | none | complete_json, build_prompt | LLM server |
| Plain slice (`mcp/tools/slicer.py`, `orca.py`, `base.py`) | the jobs' directories | slice | profile store, slicer process, the clock |
| Model analyzer; config, CLI, server, logging | none | pure or a single call | - |
| Codex controller (`tools/codex-controller`) | state file, worktrees, provenance records, execution lock | plan, build, review, general, publish | git, Codex, OpenRouter selector, other controllers |
| Primary status client (`codex-app-server-client.ts`) | expected id, pages, verdict, timers | readPrimaryStatus | a child process |
| OpenRouter selector (`tools/openrouter-free-selector`) | lock file, producer records | select, lock, write | controller |

What is hard: two threads share the receive queue, part of it without the lock;
a clock is read outside the lock that uses it; late CONNACKs meet new attempts;
sparse reports must add up to one status across warm, cold and standalone reads;
every failure must release what the call acquired; files are read several times
while others may write them; a killed child may survive its parent; a profile is
listed by one scan, judged by a second and sliced from a third; several
controllers share a state file without a lock and a lock file that outlives its
owner. The complete list, each at its line, is `hazards` in `PROJECT.json`.

What makes each component correct:

- cooldown: reservations of a printer are a cooldown apart under any
  interleaving; each is spent once; a denial has a cause;
- transport: reports in order, at most once, none lost unaccounted; only an
  own CONNACK opens; a closed wrapper has no thread and no memory left, though its
  connection may stay open; marks agree with the broker until the connection is
  lost; calls end;
- adapter: a status is the last known value of each field since the connection
  was opened, rests on a report of its own call, and no client leaks;
- preparation: READY only for the artifact this run sealed, made from the model
  and the configs that were verified; the failure stage is the one that failed;
  a run that fails removes its workspace, unless something beside the service
  had a hand in it; nothing runs beside the slicer;
- realization: what the slicer is given is proven on the bytes the realization
  read itself; a profile whose authority was required is found again, unless
  somebody touched the store;
- recommendation: a setting gets the direction of the first rule that proposes
  it, other directions are reported as conflicts, the LLM drops and changes
  nothing the rules found, and is not refused for repeating them; measured values
  are those of the profiles the digest was made of;
- plain slice: a job reports what its own slicer made of its own files, which
  holds only as long as no other job was started in the same microsecond;
- controller: two calls of a repository never produce at the same time, a lock
  outlives only a killed call, a review is never done by the producer, a thread
  is continued only in its own role, the primary provider is used only on proof,
  and the question for that proof ends.

## 2. Modules

| Module | Models | State and actions |
|---|---|---|
| `RefreshCooldown` | `_reserve_status_refresh`, `request_status_refresh` | `nextEligible` is `_refresh_next_eligible`; one action per step a thread can be delayed between: `Subscribe`, `ReadClock` (line 25), `Reserve` (26-30, the lock section), `Publish` (192-211). `grants`, `attempts`, `denials` are history. |
| `ReportChannel` | nothing of its own: what the transport promises | `Open`, `Accept`, `Overflow`, `Spill`, `HandOut`, `Close` on a bounded FIFO |
| `PahoTransport` | `PahoMqttClient` and its two threads | `pc` is the caller's place in a method, `net` the network thread's place in `_on_message`. A caller's section under the receive lock is one step that waits for `net = "poll"`; `_on_message` is split at each queue operation because `fetch_report` takes without the lock. `link` and `brokerSub` are the MQTT connection and what the broker knows of it; they outlive the loop, since `loop_stop()` closes no socket. `steady` (history) says that the connection of this `connect()` was not lost. |
| `StatusAccumulator` | `_BambuStatusAccumulator` | `Apply` is `apply()` with its order of fields; `LastKnown` is the reference: each field computed from the whole sequence of reports |
| `BambuSession` | `BambuPrinterAdapter` | one action per call of the transport and per exit; `Finish` sends a standalone call through its `finally` clause |
| `PreparationContract` | nothing of its own: what `print.prepare` promises | `Pass`, `Seal`, `Reject`, `Raise`, `Deliver` over the stages of a request |
| `Preparation` | `PreparationService.prepare`, `SliceExecutor.execute`, `_slice_realized`, `run_cli`, `SliceFinalizer.finalize` | `pc` is the place in this chain, one action per separate read or write of a file and per wait; `candidate`, `intact`, `dir` and `model` are what the disk holds, `facts`, `digest`, `size`, `identity` what the code remembers of it |
| `ProfileStore` | `ProfileRepository`, `ProfileMaterializer`, the exact reader of the preparation service | pure: a store is a function from file to document; `ListProfiles` is one scan, `Chains` one generation of parents, `FindProfile` and `MaterializeProfile` follow the parents up to `MaxDepth` |
| `PrintContext` | `PrintContextResolver` | pure: printer, nozzle, plate and process of a request from what was read |
| `FilamentMatrix` | `FilamentMatrixBuilder` | pure: `BuildOne` judges a profile, `Ranked` orders the candidates for a goal |
| `Realization` | `_selected_setup`, `_require_unique_profile_authority`, `realize_setup` | pure: `AuthorityGap`, `Resolve`, `Unproven` and `EffectiveInputs` on the documents read |
| `RecommendationRules` | `rules.py`, digest, facts, `_validate_llm_set`, `_merge` | pure: `Proposals` in the rules' order, `Add` of the builder, `Merge` |
| `SetupTools` | `print.setup`, `print.filament_candidates`, `print.prepare` up to the realized setup | `pc` is the place of a call; one action per scan of the store and per computation between scans (`SelectPrinters` ... `RealizeSetup`); `call` is what it has read |
| `PrintTools` | all tools over one store: adds `slicer.slice` and `print.recommend` | `MakeJobDirectory`, `WriteJobFiles`, `RunSlicer`, `CollectArtifacts` over the shared `jobs`; `Evaluate`, `AddProposal`, `AskLLM`; `EditFile`, `LoseUsers` and `Tick` are the user and the clock |
| `PrimaryStatus` | `readPrimaryStatus` in `codex-app-server-client.ts`, `provider-decision.ts` | one client per call; one action per kind of line, timer and event (`InitializeReply` ... `ChildFails`) |
| `FreeSelector` | `model-selector.ts`, `openrouter.ts`, `compatibility.ts` | pure: the gates of a record, the registry, exclusion, override |
| `Controller` | `index.ts`, `core.ts`, `codex-executor.ts`, `provenance.ts` | one process per call; one action per file read or written, per edit of Codex and per command that shares something; `Kill` at any place; `Approve` is the user |
| `RefreshCooldownProofs`, `ReportChannelProofs`, `PahoTransportProofs`, `BambuSessionProofs`, `PreparationProofs`, `PrintToolsProofs`, `PrimaryProofs`, `ControllerProofs` | - | theorems and proofs |
| `MC*` | - | instances for TLC |

`BambuSession` uses the transport through its interface: each call of the client
may deliver, time out or raise. `PahoTransport` justifies that interface: its calls
end, and reports come in order. `RefreshCooldown` and `PahoTransport` split
`request_status_refresh` between them: the former has the reservation among many
callers, the latter the subscription and the outcome.

`Preparation` is one request. Requests share only the source model, which any other
party may edit at any step, and the profiles; the workspace of each is named by its
own uuid. A file's digest is its content. A candidate remembers the model it
was sliced from and whether all configs were the realized ones when it was written
(history: no guard reads these fields except by comparing whole contents, as a
digest does). The selection and the realization are outcomes: passed, rejected,
raised; what they read and compute is `SetupTools` with `Realization`, where a
request of `print.prepare` ends with the inputs of the slicer. `config_differs`,
`workspace_not_directory` and `model_rejected` each stand for a family of codes.
`RemoveWorkspace` is `rmtree()` as `execute()` calls it: it takes the whole
directory, or stops at the first entry it cannot remove and leaves the rest, which
may be everything. It can only be stopped (`Obstructed`) when a process of the slicer
is alive or another party has written, opened or replaced something (`Tamper`, which
may also leave all contents as they are); the operating system refuses nothing else.

`PrintTools` extends `SetupTools`, which extends the pure modules: the tools share
the store and the directories of the slicer's jobs, and nothing else. `Controller`
extends `PrimaryStatus`, whose client each call runs first, and `FreeSelector`.

Abstractions. Reports are numbers in the transport and records of four fields in
the adapter: `gcode_state`, the percentage, one field for the temperatures (read
before the percentage) and one for the fields read after it; they differ in the
code only in how they are parsed, and a parser's answer is a value, a rejection or,
for `float()`, an overflow. One topic, as in production. The broker is external:
it may refuse, disconnect, deliver late or never. Production builds a new paho
client for each connection of the adapter; `PahoTransport` also lets one wrapper
connect again, which its own code is written for. `tls_set` may then refuse, as
that of a real paho client does, with a `ValueError` the code does not map, or
accept, as the client of the tests does. `disconnect()` of the paho client may raise
with the socket closed or open; a failed `connect()` does not call it. `MaxReports`,
`MaxConnects`, `MaxLosses`, `MaxTime`, `MaxClients`, `MaxEdits` and `MaxTampers`
bound the instances and guard exactly one action each.

In the print tools a profile is a record of the keys that something reads, a
diameter, height or ratio is a whole number of its smallest unit, a sha256 is the
content, and a scan of a directory is one step, as is a look-up by name with its
chain of parents. What detection, the checks of the model file and the exit of
the slicer decide are outcomes. What a recommendation returns is a set (`final`): the
order of its proposals, and that an LLM says one twice, are left out. `Names` and the brands are those of the instance;
`MaxDepth` is the bound on parents, 12 in the code.

In the controller each edit leaves bytes that were never there before, and only
a commit cleans a worktree; what is there before a task begins is tracked. The
app server answers what it was asked, once and with anything; each other line is
noise, of which there are at most `MaxNoise`. That `saveState` is not atomic shows
only as a load that fails. Git, Codex, the marketplace and GitHub are external.
`MaxEdits`, `MaxLive` and `PageLimit` bound the instance.

## 3. Runs

| Run | Instance | Shows |
|---|---|---|
| `cooldown` | 3 callers, 2 printers, window 2, clock 0..5 | reservations spaced, spent once, denials justified, publish gap |
| `spacing` (violation) | 2 callers, 1 printer | publishes may be closer than the documented cooldown: the clock is read before the lock and the publish is after it |
| `transport` | queue of 2, 5 reports, 2 connects, 1 loss, fairness | FIFO refinement, order, accounting, own CONNACK, no thread and no memory left behind, marks agree with the broker, every call ends |
| `left_open` (violation) | queue of 1, 1 connect | `disconnect()` after a `connect()` that timed out leaves the MQTT connection open |
| `reconnect` (violation) | queue of 1, 1 loss | paho's reconnect leaves the topic marked and unsubscribed, contrary to the plan |
| `session` | 9 deltas, 3 different reports on a connection, any number of calls | accumulator against its reference, freshness, no leak, calls end |
| `session_errors` (violation) | as above | the retained client's connection error is not mapped |
| `preparation` | 2 model versions, 2 edits, 1 foreign change beside any number of the slicer's writes, fairness | READY is what the slicer made of the identified model and the realized configs; every exit that fails removes the workspace, in which nobody but the slicer's own process had a hand, and a success keeps it; nothing runs beside the slicer; the contract; requests end |
| `prep_facts` (violation) | 1 foreign change | READY may carry facts of other bytes than the digest's |
| `prep_timeout` (violation) | nobody else | a process that survives its kill holds the request |
| `tools` | one call of each tool, or two slices at once; 4 stores, 1 of 6 edits between any two reads, 2 microseconds, parents up to depth 2 | realized setups are proven, required authority is decisive, rules go by precedence, the LLM keeps the candidates and may repeat them, statistics belong to the digest, jobs are apart, no job is made of an endless inheritance |
| `controller` | 3 calls over 1 or 2 tasks, 2 of them running at a time, 2 edits, 2 pages of models, 1 line of noise, fairness | one producer, a lock outlives only a kill, reviews are independent, threads resume exactly, the primary provider is proven, its client always settles |

Why these bounds suffice for the question asked. Two clock windows fit in the
clock's range and two callers contend for one printer while a third shows that
printers do not interact. A queue of two reports overflows, drains and overflows
again with five reports, and can hold a report that is older than the evicted one;
two connects and one loss give each of the late-CONNACK, refused and reconnected
cases. The nine deltas cover each branch of `apply()`, and three of them in a row
give every order of a value, its clearing and its return. Two edits of the model allow a change
and its return on either side of the check; one foreign change falls between any
two reads, and a helper the slicer left behind adds writes of its own at any of
them, so every pair of reads can differ twice. That nobody else puts a realized
configuration back is an assumption of `Tamper`: with it undone in time, the second
check cannot see the first change. The four stores of `tools` have a
sound set of profiles with an inherited process and filament; two filament files of
one identity, one shadowing the other; a process that is its own ancestor; and a
printer with two nozzles that shadows another. The edits change a material, a
process, its parent or a printer, remove a file or make it unreadable, the users'
directory may become unreadable, and one such event falls between any two of the
scans whose agreement matters. With parents up to depth 2 every chain of the
instance fits and the cycle does not. Two microseconds let two jobs have the same
one or not. Calls of different tools share only the store, so two calls together are run
only for the directories of the jobs. In `controller` the combinations of requests
are those that meet in a file: two producers and the review of what they leave,
builds that are published, a task continued under another role, and the three ways
to ask for a provider; two edits are a change of what was recorded and one of what
was read. Deadlock checking is off only where everything may stop: at the instance's
bound (`cooldown`, `transport`) or because all requests are answered (`preparation`,
`tools`, `controller`).

Fairness. `PahoTransport!FairSpec` assumes that a thread inside a call or a
callback goes on; each wait of the caller has a timeout, and the joins wait for a
callback that consists of three queue operations. `BambuSession!FairSpec` adds that
the clock goes on. `Preparation!FairSpec` assumes that the service's thread goes
on and that a timeout passes; of the slicer, its helper and the kill nothing is
assumed, which is why `RequestsEnd` has its exception. `Controller!Spec` assumes
only that Node fires a timer that stays armed, which is all `EveryReadSettles`
needs; the calls themselves may stop anywhere. Nothing is assumed of the
user, the broker, the network or the printer. `loop_stop()` joins without a
timeout; `CallsReturn` therefore rests on the callback ending.

## 4. Proofs

| Module | Theorems | Argument |
|---|---|---|
| `RefreshCooldownProofs` | `TypeCorrect`, `CooldownRespected`, `OneAttemptPerWindow`, `NoSpuriousDenial`, `PublishGap` | `GrantsSpaced` is not inductive: it needs that the table's entry is the end of the latest window, so that a reading at or past it is a cooldown past every earlier reading, and that clients are numbered per caller, so that a grant names one client |
| `ReportChannelProofs` | `HandsOutInOrder` | `InOrder` with the spilling report newer than every waiting one |
| `PahoTransportProofs` | `TypeCorrect`, `NoReportUnaccounted`, `OwnConnack`, `NothingRunsOn`, `MarksAreSubscribed`, `Refinement`, `InheritedOrder` | the invariant ties the caller's place to the loop, the event and the callback's place, not to the connection, which outlives the loop; `SteadyInv` adds that a connection not lost since its `connect()` is up once its CONNACK is accepted, which is what makes the marks inductive; the refinement follows step by step from it, and `FetchesInOrder` is then the channel's theorem, instantiated |
| `BambuSessionProofs` | `TypeCorrect`, `NothingLeaks`, `EveryStatusFresh`, `SnapshotHolds` | the invariant relates `pc` to the number of connected clients and to the reports consumed so far; for the snapshot, what `Apply` does to a status is compared with what one more report does to each reading of the history, and a connection that is not open yet, or a client that is gone, has none |
| `PreparationProofs` | `TypeCorrect`, `ReadyFromIdentity`, `ReadyWithRealizedConfigs`, `WorkspaceOwnership`, `SlicerFirst`, `Refinement` | the invariant follows the candidate: it is faithful to the identified model unless the model was touched, and one made from other configs leaves a config different that the loop still has before it; `WorkspaceOwnership` rests on `SlicerFirst`, since a living slicer could stop the removal, and on what `tampers` and `helper` say of everybody else; the refinement maps `pc` to the stage and the identified candidate to the sealed artifact |
| `PrintToolsProofs` | `RulesCiteFacts`, `TypesHold`, `PrecedenceHolds`, `RepetitionHolds`, `StatsOfDigestHolds`, `JobsApartHolds`, `AuthorityIsDecisiveHolds`, `RealizedIsProvenHolds`, `CandidatesKeptHolds`, `RulesSurviveHolds`, `NoEndlessInheritanceHolds` | see below |
| `PrimaryProofs` | `PrimaryIsProvenHolds` | a candidate that speaks for the primary provider was made with nothing more asked and every proof heard, so no later line, timer or event can replace what it rests on |
| `ControllerProofs` | `OneProducerHolds`, `LockIsOwnedHolds`, `KilledLockStays`, `ControllerTypeHolds`, `ResumeIsExactHolds`, `ReviewIsIndependentHolds` | see below |

**The print tools.** Rule by rule, a proposal cites only lines of the digest, the
statistics or the limits its own guard has seen. `IInv` ties a call's place to its
tool (`ToolInv`), its documents to its place (a recommendation holds materialized
profiles, which the job takes as they are: `DocumentInv`), whatever lies in a
directory to a job of that microsecond (`DirectoryInv`), and keeps that each setting
proposed so far is among the recommendations (`Covered`), without which
`RulesByPrecedence` is not inductive. Three theorems extend it, each by what a call
carries from one read of the store to the next:

- `AuthorityInv`: as long as the count of edits is that of the selection, each
  identity whose authority was required is listed exactly once (`Decided`); the
  realization's look-up, of the same identity in the same store, then finds it. This is an
  action property: the step of the realization does not answer.
- `PreparedInv`: what the realization has found has the identity that was selected
  and declares its own kind, while it reads and after; the tests of `Unproven`
  that did not hold then prove the nozzle, plate and material.
- `CandidatesKept` is inductive with `RulesInv`: the candidates of a call no longer
  change when it has an answer, and `Merge` keeps them whatever was answered.

The first two only have to be shown for the five steps that select and realize a
setup: all others leave what they speak of alone (`PlainStep`), which is proved once.

`NoEndlessInheritanceHolds` says that for every bound the recursion of
`_resolve_chain` fails on a path of parents without an end: each name of such a path
fails at a depth if all its names fail one deeper, and beyond the bound every name
fails.

**The controller.** The lock first: whoever is between acquiring and releasing has
created the file; only the owner removes it; a killed owner never does, so that every
later producer is refused (`LockInv`). On that rests `ControllerInv`: while a call
produces, whatever changes in its worktree was changed by itself or by nobody who
produces (`ProducerOk`), so the model a record names is the one that made those bytes
(`RecordsOk`), so a review that excludes the recorded model excludes the author
(`ReviewOk`). Every saved thread was started by a call of the same task, role,
provider and model (`Sound`), which saving a file that was loaded earlier does not
change (`ThreadOk`).

The only assumptions are those stated in the modules. They bound the bounds
(`CapacityAssumption`, `BoundAssumption`, `ReportBoundAssumption`, `BoundsAssumption`,
`EditsAssumption`, `DepthAssumption`), give the constants their types
(`SerialAssumption`, `CooldownAssumption`, `DeltaAssumption`, `RatesAssumption`,
`SituationsAssumption`, `ToolsAssumption`), keep Python's and TypeScript's null apart
from every string, name and call (`NoneIsNoCall`, `NoneIsNoString`, `NamesAssumption`,
`ReasonsAssumption`, `NoStatusIsNoStatus`, `MarkerAssumption`), or say what the code
has validated before the model begins: `CatalogsAssumption` is the shape
`openrouter.ts` demands of the marketplace's answer, `AnswersAssumption` the schema an
LLM's answer has passed. The theorems hold for every number of callers and calls,
every capacity, all model contents, all sequences of reports, all stores and edits of
profiles, all requests, all answers of an LLM and every bound.

Every invariant the passing runs check is a theorem, and of their other properties all
but the liveness is. The induction the library's theorems cannot be instantiated for is
done by least counterexample, from `WFMin` (the recursion of `ResolveChain` has a
value; the least element of a set of naturals).

Only model-checked: liveness (`CallsReturn`, `CallsEnd`, `RequestsEnd`, `EveryReadSettles`)
and the fairness it needs, which is beyond the prover; and what the violation runs
refute.

## 5. Findings

1. `spacing`: `plans/phase-2-printer-status-refresh.md` promises one refresh per
   printer and cooldown; two delayed callers can publish closer together.
2. `left_open`: `plans/phase-2-printer-passive-receive.md` gives `disconnect()` the
   final MQTT cleanup; after a `connect()` that timed out it returns at once, and the
   connection stays open.
3. `reconnect`: the same plan asks that subscription marks reset with a reconnect;
   they do not, and a retained session starves.
4. `session_errors`: the retained branch lets `MqttConnectionError` through.
5. `prep_facts`: the plan takes equal digests for proof that the facts are those of
   the artifact; facts and digest come from two reads, and the digest from the
   later one.
6. `prep_timeout`: the timeout of `run_cli` is not hard: the wait after the kill has
   none.

## 6. Not modelled

- **Model analyzer** (`adapters/model/analyzer.py`): floating-point geometry over
  meshes without state or order; what the rules read of its result enters as a value.
- **Printer MCP tools, issue metadata**: one call of the adapter and a table of texts.
- **CLI, MCP server, configuration, logging, smoke harness**: registration, parsing
  and output.
- **Slicer adapters**: version probing, `validate()`, and what is parsed from project
  archives and from the comments of the G-code; their results enter as outcomes.
- **Preparation**: overrides of a realized setup, which `prepare()` never selects.
- **Recommendation**: warnings, reasons, summaries and prompt wording; fields of a
  digest that no rule and no check reads; the match of a vendor's name as a substring.
- **Controller**: the commands `--provider-status`, `--select-only` and
  `--compatibility-probe`, and the content of the record of a read-only run, which
  nothing reads. Files a user left untracked before a task. That the removal of the
  lock file fails (`rmSync` at `provenance.ts:31` throws on a file held open).

Known limits of the code, which the models contain and no property states:

- `float()` of a number beyond the double range raises `OverflowError` out of
  `get_status()` with half the report applied (`bambu.py:58`), although
  `plans/phase-2-printer-state-accumulator.md:72` has malformed fields tolerated;
- two slices of one microsecond share a job directory (`base.py:348`), and the slicer
  of one may slice with the profiles of the other;
- a build between the selection of a reviewer and its review can be by the reviewing
  model (`core.ts:42`), although `plans/codex-openrouter-free-provider-v1.md:655` has
  the two differ for the exact current state;
- a malformed line of the app server makes the status unknown only until a valid
  answer replaces it (`codex-app-server-client.ts:17`; the same plan, line 1976);
- a committed build no longer matches its record: its review is refused (`core.ts:39`);
- `rmtree()` gives up at the first file it cannot remove, which
  `plans/phase-3-slice-execution-v1.md:145` covers by "bounded best-effort cleanup";
- the guard of a read-only run compares lines of `git status`, not contents
  (`index.ts:432`);
- a commit whose push failed is not pushed by the next call, which finds nothing to
  commit (`index.ts:264`).

Worth adding next: an abstract specification of the producer records that
`Controller` implements; that the realized profiles hold the values of every
generation of their chain, the nearest first.
