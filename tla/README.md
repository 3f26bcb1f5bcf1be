# FRA: a verification project

FRA (`src/fra`) is a command-line financial research agent. A run asks an agent
CLI (Codex or Claude) for a plan, collects evidence from data sources, asks the
agent for an analysis, verifies its claims, asks for a synthesis and saves the
report; every result is a Markdown file, and the files are the only state that
survives a process. This directory holds TLA+ models of that system, the TLC
configurations that check them, and proofs that TLAPS checks.

Run `tlc -config X.cfg M` for a run of the table below, `tlapm M.tla` for a
module of proofs.

## 1. The system

| Part | State it keeps | Operations | Modelled in |
|---|---|---|---|
| Research run (`domain/research.py`) | state, checkpoints, attempts, provider session of one run | `transition`, `resume`, next stage | `ResearchRun`, `RunLifecycle` |
| Orchestrator (`application/research_orchestrator.py`) | a process's copy of the run, the stage it is in | `start`, `resume`, `_continue` and what it calls | `Orchestrator` |
| Verification (`application/verification_service.py`) | claim statuses, `verification.md` | `verify` | `Orchestrator` |
| Repositories (`adapters/storage/markdown_*.py`, `atomic_files.py`) | the Markdown files, temporary siblings, lock files | every save: lock, check, write, replace, flush, unlock | `FileStore` (implements `Repository`); one action per write in the others |
| Forecast lifecycle (`application/forecast_service.py`) | `forecasts/ID/vNNN.md`, `outcomes/` | issue, monitor, resolve, score, refresh | `ForecastLedger` (implements `Ledger`) |
| Agent adapters (`adapters/agents/`) | a child process group, its pipes | health check, execute a stage, cancel, time out | `AgentProcess` (implements `AgentCall`); its reply in `Orchestrator` |
| Sources (`application/source_platform.py`, `source_service.py`) | registry, saved health | register, route, execute, check | `SourceRouting`, `SourceChecks`, `MarketResearch` |
| Market workflows (`crypto_market_timing.py`, `allocation_research.py`) | the collect checkpoint | collect, finalize | `MarketResearch`, `Allocation`; what they return in `Orchestrator` |
| Crisis workflow (`crisis_research.py`) | the collect checkpoint | collect, finalize | its cutoffs, refusals and forecast in `ForecastLedger` |
| Workspace maintenance (`adapters/storage/workspace_maintenance.py`) | a destination directory, two indexes | init, export, migrate, rebuild-index | `WorkspaceMaintenance` |
| Dashboard, doctor, CLI output, configuration, codecs, prompts | none | read, show, parse | not modelled, see section 7 |

How they meet. The CLI calls `ResearchOrchestrator.start` or `.resume`, one
process per command. The orchestrator awaits the workflow (which awaits the
router, which awaits adapters) and the agent backend, and between two awaits
writes files through repositories; each write takes the lock of its aggregate
and replaces one file. Processes share nothing but the files. What is hard is
therefore the order of the writes, a stop between two of them, and two processes
working on the same files. Inside one process there is no concurrency over a
run: the orchestrator is a sequence of awaits. The one place where tasks of a
process run beside one another is the agent adapter, with its readers, its timer
and the cancellation of its caller, beside a process group it does not control.

What makes the parts correct: a stage recorded in `run.md` has left all of its
files; a completed run was verified and reported, and no stage is recorded
twice; a claim is verified only on evidence that is there; a run that ends
otherwise explains itself; loops over repairs and research iterations end; state
and checkpoints in `run.md` never disagree; no forecast is informed by what
became available after its cutoff; versions, outcomes and scores are only ever
added, and a score can be recomputed from the files; a save takes effect as a
whole or not at all and is not lost once reported; an agent call ends, and leaves
nobody behind; sources that corroborate each other are independent, and a
fallback speaks only for a primary that did not; proposed weights respect the
cap and the tolerated loss. The hazards list of `PROJECT.json` names the line
where each could fail and the property that would show it.

## 2. Modules

- `ResearchRun`: the data. `States`, `NextStates` and `CanTransition` are the
  tables and checks of `ResearchRun.transition`; `NextStage` is `_next_stage`;
  a checkpoint keeps its stage, the claims an analyze stage wrote and the
  verdict of a verify stage (what the rest of the payload tells apart).
- `RunLifecycle`: the abstract specification, what `run.md` promises whoever
  reads it between two commands: it is created, enters stages, records them one
  by one, is interrupted, reopened, completed.
- `Orchestrator`: the detailed one. `run`, `planned`, `artifacts`, `claims`,
  `scenarios`, `verification`, `outputs`, `report` and `limitation` are the
  files. `pc`, `loc`, `backend` and `job` are the processes: the label, the copy
  of the run, the agent that is configured, and the locals of the call. Every
  action ends at one file write or at an await; `Crash` may come between any two
  of them and stands for a kill as for any exception that leaves the call.
  `Start` and `Load` are a command being run by a user, `Step` what the call does
  by itself. Claims and artifacts are named by the order they were written in,
  0 is an identity the agent made up.
- `OrchestratorProps`: the properties. `OrchestratorRefinement`: the mapping to
  `RunLifecycle` (a run that is not created yet is `None` in both; files other
  than `run.md` are hidden).
- `Scoring`: the Brier score, in units of 1/`Scale`.
- `Ledger`: the abstract specification of the files of a forecast: time passes,
  records are added one at a time, none from the future, none changed later.
- `ForecastLedger`: the detailed one. `evidence`, `collection`, `versions`,
  `outcomes` and `scores` are the files, `now` the clock, `cutoff` the knowledge
  cutoff of the mandate; `pc` and `job` are the processes, one command each. A
  step ends where another process may come between: at a read of a file, at the
  reading of the clock, at a write or at an await. The commands are `Research`
  and `ResumeIssue` (a crisis run up to version 1), `Monitor`, `Refresh`,
  `Resolve`. `ForecastProps`: its properties and the mapping to `Ledger`, the
  identity on the files.
- `Documents`: the kinds of documents a workspace has, which of them need
  another, and the calls that save them. `Repository`: the abstract specification,
  the rules of the in-memory repositories, each call taking effect at one instant
  or never, and what a power failure may take back. `FileStore`: the detailed one,
  the Markdown repositories over `AggregateLock` and `AtomicFileWriter`. `files`
  is what processes see, `disk` the set of directory trees a power failure may
  leave, `holder` the lock; `pc`, `request`, `target`, `temp`, `verdict` the calls.
  `Look`, `Acquire`, `Decide`, `Stage`, `Flush`, `Replace`, `SyncDirectory`,
  `Release` are the steps of a save, in this order; `Decide` evaluates the checks
  of the repository. `FileStoreProps`: the properties and the mapping: a call has
  been applied when its document has been replaced.
- `WorkspaceMaintenance`: `fra init`, `export`, `migrate`, `rebuild-index` beside
  the calls of `FileStore`. `dest` is the destination, `index` the two indexes,
  `job` the command, one file per step, `report` the files that the report of a
  migration names as failed: those of a schema it does not know (`Convert`) and
  those it could not read or write (`ConvertFails`). Cache entries are listed by no
  command (`MarkdownFiles`). `WorkspaceProps`: its properties.
- `AgentCall`: the abstract specification, what a caller of the port
  `AgentBackend` may rely on. `AgentProcess`: the detailed one, one stage executed
  by either adapter. `pc`, `ending`, `result` are the call, `reader` the task that
  reads, `leader`, `helper`, `signals` the process group, `unread`, `holders`,
  `out` the pipes. `Call`, `Read`, `TimesOut` and `Cancel` are FRA's side, `Agent`
  is everything the CLI and a process it started may do. `AgentProps`: the
  properties and the mapping: the group is live while somebody has the pipes open.
- `SourceRouting`: pure operators, `Registrable`, `Suits`, `RolesGiven`, `Route`,
  `Regular`, `Fallbacks`, and the manifests of CoinGecko and yfinance.
  `SourceChecks`: processes that run `fra source check`. `Allocation`: the weights
  of `propose_allocation`. `MarketResearch`: a crypto or an allocation run over
  these, from its inputs to its signal, with `SourceRouter.execute` as its steps
  from `RouteAsset` to `NoValue`. `MarketProps`: the properties.
- `MCRunLifecycle`, `MCOrchestrator`, `MCForecast`, `MCWorkspace`, `MCAgent`,
  `MCMarket`: the instances for TLC.
- `RunLifecycleProofs`, `OrchestratorProofs`, `SoloProofs`, `ForecastProofs`,
  `AgentProofs`, `FileStoreProofs`, `WorkspaceProofs`, `MarketProofs`: proofs.

Definitions that a comment calls a mutant are not part of a specification: each
is a plausible bug, kept beside the definition it replaces in a mutation check.

Simplifications of the orchestrator. Repositories are configured, as `bootstrap`
always does, so the branches for `None` are left out, and so is the synthesis of
a run without workflow (lines 289-297): a run without workflow fails in
`collect`. The stale check of `save` (line 60 of `markdown_research.py`) is left
out as well: it compares the stored `updated_at` with the one being saved, and
each save of the orchestrator stamps the present time, so it can refuse a save
only if the clock goes back (`FileStore` has it, as `SaveRun`). A verification's
issues are reduced to the verdict; an agent's verdict is any Boolean. Attempts
are counted without their timestamps.

Simplifications of the forecast. One forecast is followed, issued by one process:
`Orchestrator` says what several processes do to one run, and a second finalize
makes a second forecast, with an identity of its own. The agent stages between
`collect` and `finalize` are left out, except that a failed verification may
collect again (`Research` with a `collection`). An evidence file is its
`available_at`; a live answer is stamped with the clock, a vintage with the
cutoff, a filing with a date not after it. Calculations are not followed. The
clock never goes back. Economic series are in every collection, as they are in the
code (`LedgerConstants`), so none ends without evidence. Evidence that does not exist, and an empty list of it, end
a monitor or resolve before it has done anything and are left out.

Simplifications of the file store. One aggregate per behaviour: aggregates share
no file and no lock. Of each kind of document there is one, or one per version;
its content is a schema version and the mark that the checks compare (a time
stamp, the version superseded, a plan's text). The file system is taken to
journal: after a power failure the tree is one that was there since the last
directory flush, and a file put in place unflushed is torn. Listing a directory is
one step; initialising a workspace is one step. A plan that is there already is
answered as saved without another flush. A destination of an export is not
rolled back by a power failure.

Simplifications of the agent. The group is its leader and at most one helper that
has inherited the pipes. Each of them has the input open until it closes it or
exits (`holders`: a pipe breaks only when nobody has its other end open), and the
output as long as it runs. Input is counted in units, output in lines, one of which
may be over the limit of `readline`. Error output is one with standard output. The
time a process takes to die of a signal is not counted; a timer may fire at any
moment after it was set.

Simplifications of market research. Time is in coarse units, of which
`StaleAfter` is two days; a history is its length, its age, its trend and its
risk. Adapters answer one of `Series` or fail; which of the expected failures
only matters where it is saved as a status. Weights are whole numbers of
percents, or exact quotients of them, so what `CapsKept` says of them holds in the
code up to its rounding to 34 digits. What the agent does between collecting and
finalizing is time that passes; a verification that sends the run back is
`CollectMore`, counted as a command to bound it.

## 3. Runs

A *launch* is one call of `start` or `resume`.

| Run | Question | Instance |
|---|---|---|
| `lifecycle` | does the abstract lifecycle keep its promises (`CompletedMeans`, `SynthesisEarned`)? | up to 17 recorded stages: five rounds of research |
| `core` | does one process at a time, stopping between any two writes, keep `run.md`, claims and verdict in agreement (`StateTracksStage`, `CompletedVerified`, `VerifiedSupported`, `CheckpointsAppended`, `ResearchBounded`), and implement `RunLifecycle`? | 3 launches, 2 research iterations, citations of evidence that is sound, discovery-only or late, of a calculation, of nothing, of a file that does not exist |
| `calls` | does every call end (`CallsEnd`), with bounded attempts (`AttemptsBounded`) and an explanation (`EndingsExplained`)? | 1 repair, a backend with and one without structured output, weak fairness of `Step` |
| `shared` | what survives two processes on one run (`CheckpointsSaved`, `CompletedSaved`, `LoopProceeds`)? | 2 processes |
| `forecast_commands` | do versions, outcomes, scores and reported successes survive commands that race (`VersionsOrdered`, `OutcomesJustified`, `ScoresRecompute`, `ReportedPersisted`)? | 2 processes, 4 commands, the clock before and at the horizon, 2 probabilities with different scores, the numbering that ends after 2 versions |
| `forecast_reader` | does a reader of the files see a `Ledger` while the clock moves between what a command reads and what it writes? | 2 processes, 3 commands, the clock up to two units past the horizon |
| `forecast_sources` | can later facts reach a version (`NoLookAhead`)? | 1 process, 3 commands, three kinds of request, the cutoff before, at and after the clock, the clock up to after the horizon |
| `workspace` | is a save atomic and lasting (`OneWriter`, `FilesClosed`, refinement of `Repository`), and are copies and indexes what the commands report (`ExportFaithful`, `MigrationComplete`, `IndexesAgree`)? | any aggregate, 2 processes, 2 calls or commands, files of an older, the present and a newer schema |
| `agent_call` | does an agent call end (`CallEndsUnless`), quietly (`ReturnedMeansQuiet`, `OutlivesOnly`) and with the right status (`CompletedEarned`), and does a caller see `AgentCall`? | both adapters, prompts that fit the pipe and that do not, 2 cancellations, every behaviour of leader and helper |
| `market` | are sources asked and evidence judged as promised (`CrossChecksIndependent`, `FallbackSpent`, `CryptoCutoffSound`, `CapsKept`, `ChecksNewest`)? | 3 registries of 3 sources, 2 commands, 2 checking processes, 2 instants |
| `stranded`, `agent_unbounded` | statements of the documentation that the code does not keep | expected to be violated; see section 5 |

The bounds. A crash loses everything but the files, so a launch starts from the
files alone: two launches show every recovery, three every recovery from a
recovery. Two iterations are the least with one failed verification that is
followed by another round and one that ends the run. Collections and analyses
of zero, one or two items let a stop fall before, between and after the writes.
The proofs do not depend on any of these bounds.

In `forecast_commands` an issue, two commands that race and one after them are
four commands. A horizon of one unit gives the clock a value before and at it;
`forecast_sources` adds one after it, `forecast_reader` two, so that the clock can
move while an outcome is being scored; an issue and two commands are enough for a
write to be overtaken. `LastNumbered` is 2 instead of 999, so that
the end of the numbering is reached.

In `workspace` two calls are the least that race on one lock, and a call beside a
command the least that changes what is being copied. The refinement is proved for
any number. In `agent_call` the pipe takes one unit and one line: what fits and
what does not is all that is told apart. The second cancellation is the one that
comes while the first is handled. In `market` two commands are a run and its
resumption, a run and a check, two checks, or a run that collects twice; the
registries have two sources of one group, a source for discovery, fallbacks of
which one is not built, and those that FRA brings. A profile whose cap cannot be
met is not in the instance: that it is refused is one comparison. Two risks give two
scores, with which a cap never binds in a second round; those rounds are covered by
the proof of `CapsKept` (section 4).

Two kinds of property. With one process at a time, `run.md` and the process agree
whenever it is live. With several, the copies diverge and the last save wins
(section 5), so the properties marked [one process] in `OrchestratorProps` do not
hold; the others do. The first are proved for any number of processes of which
one at a time is live, the second for any number (section 4).

Fairness. In `Orchestrator` only `Step(p)` is fair: a running call is scheduled by
its event loop, and the awaits in it end, since data sources have HTTP timeouts
and the agent adapters time out the stage (with the two exceptions that
`agent_call` names; `CallsEnd` assumes an agent without them). Nobody is forced to
run a command, and `Crash` is not fair: a call that crashed has ended. In
`AgentProcess` the call, the reading task, the timer of `wait_for` and the delivery
of a signal that is not ignored are fair, each by itself; nothing the agent does
is, so it may hang at any point. The other specifications have no fairness.

## 4. Proofs

Every invariant, action property and refinement that a passing run checks is also
a theorem, for every value of the constants. What is left to TLC is liveness:
`CallsEnd` and `CallEndsUnless`, since TLAPS does not treat fairness and `ENABLED`
here.

The assumptions are named, and TLC evaluates each in the runs of its module. Most
are types: `ConstantsAssumption`, `LedgerConstants`, `ScaleAssumption`,
`AgentAssumption`, `DocumentsAssumption`, `MaintenanceAssumption`,
`ProvidersAssumption`, `ClockAssumption`, `RequestsAssumption`, `AgeAssumption`,
`TargetsAssumption`, `SeriesAssumption`. That `None` is no other value is said by
these and by `NoneAssumption`, `NoRoleAssumption`, `NoProblemAssumption`,
`StatusAssumption`. Two are about the program: `RegistriesAssumption` takes what
`SourceRegistry.register` and the enumeration of authority classes let in, and
`ProfileAssumption` what `InvestorProfile.__post_init__` lets in (fractions from
zero to one, a positive cap). No constant is assumed to be small.

- `RunLifecycleProofs`: the invariant says that the recorded stages form a chain
  of legal successors and that a completed run's chain ends with a passing
  verification and a synthesis. Without the chain, completion would not be
  inductive: it is `NextStage` of the last checkpoint that is `done`.
- `OrchestratorProofs`: what holds for any number of processes on one run, in
  three layers.
  - Files. `CheckpointsSaved` is not inductive alone: a process about to write a
    checkpoint must have written the files first. `IInv` adds `WorkDone(p)`, one
    clause per label: at `checkpoint` the files of the stage are there; at
    `saving` the outputs no longer on the list are; at `analyzing` and `judging`
    the listed claims exist. Two facts carry it from step to step: files only
    grow, so what backed a checkpoint goes on backing it, and a step of one
    process changes nothing another one's clause reads, except files. Each action
    has a lemma, and `NextIInv` puts them together.
  - Claims. `SupportInv` says that a process marking claims after a passing
    verdict marks only claims that pass the deterministic checks, which look at
    artifacts that are never changed (`PassesStays`), so another process can add
    files but not undo the support: `VerifiedSupported`.
  - Stages. `StageInv` says that every copy of the run, the one on disk and the
    one of each process, is legal by itself (`RunLegal`: its checkpoints are a
    chain, and its state is the stage that follows or the one just recorded), and
    what a label says about the copy of its process (`ProcLegal`). Processes only
    exchange whole copies, through `run.md`, so it is no matter who saved last:
    `StateTracksStage`, `LoopProceeds`, `CompletedSaved` and `EndingsExplained`
    follow for any number of processes, where the runs have one or two.
- `SoloProofs`: what holds while one process at a time drives the run. `SoloSpec`
  adds to `Spec` that no two processes are live at once (`OneAtATime`): the user's
  side of the bargain, which nothing in the code enforces (section 5). A process
  may crash anywhere and another go on. `SoloOfOne` shows that with one process,
  the instance of the runs, the hypothesis costs nothing. From it follows `InSync`:
  the copy of the live process is the run on disk. On top of it come an invariant
  that counts failed verifications per launch (`ResearchInv`), one that counts
  attempts per entry into a stage (`AttemptsInv`, with the attempts of the entry
  under way in `Tried`), and one that says which claims are verified at each label
  (`VerifiedInv`: those of the last analysis from the checkpoint of the verdict
  on, some of them while they are being marked, with nothing left behind by a
  crash). That checkpoints are appended and that the steps are those of
  `RunLifecycle` needs `InSync` and `StageInv` alone; every save of `run.md` is
  the abstract action of its name.
- `ForecastProofs`: type correctness, all five safety properties, and that
  `ForecastLedger` implements `Ledger`. The properties of the files are not
  inductive: that an appended version is not older than the last one follows from
  what the process read (`job.base` is still a version, and no file of the next
  number exists, so it is the last) and when it read the clock (`StampedOK`).
  `WorkOK(p)` says, for each label, what the process has made sure of. It survives
  the steps of others because files only grow and time only passes (`Grow`,
  `WorkStays`); the one fact that does not grow, an outcome without a score,
  belongs to the process that saved it (`ScorersApart`). `Phases` says that the
  crisis run is alone until version 1 is there. Each action has a lemma for the
  files (`...Files`) and one for its process (`...Work`). The refinement then needs
  no history: each write is the abstract action of its name, everything else a
  stutter. A score is stamped before it is saved, so all that the ledger promises
  of its time is that it lies between the outcome and the save. That no save of a score meets an existing one (`save_score` would
  refuse it) is part of it.
- `AgentProofs`: type correctness, the three safety properties and that
  `AgentProcess` implements `AgentCall`, for any prompts, pipes and number of
  cancellations. The invariant ties the label of the call to the group and the
  reader: before the spawn the group is absent, the reader is off until the wait,
  once it is done nobody has the pipes open (and that stays so, since only a
  running leader forks), and an ending by "exit" means the leader exited without
  a signal. The refinement maps the last exit of the group to `End` and the end
  of the call to `Answer` or `Escape`.
- `FileStoreProofs`: type correctness, mutual exclusion, closedness of the files
  and that `FileStore` implements `Repository`, for any number of processes, calls,
  versions and kinds of content. The invariant adds that every tree in `disk` is
  closed and holds whole documents, and, for the process inside the lock, that
  the checks it has passed still hold (`Underway`): they read files that nobody
  else can write. Closedness needs both, since a version is safe to add because
  the one before it was seen under the lock and is in every tree that a later
  power failure can leave. In the refinement, `Replace` is `Apply`, the flush of
  the directory is `Settle`, a failed check is `Refuse`.
- `WorkspaceProofs`: the commands take no lock, and what they copy goes on being
  written. Outside a power failure, which ends the command too, files only grow
  (`FilesGrow`): none goes away, an immutable one stays, stamps do not go back, and
  no call writes what another version of the program wrote. `JobInv` says what the
  command under way holds of the files as they are now. That the listing is closed
  gives a closed copy, although files are copied later than they are listed.
  `ExportFaithful` has one exception that its first proof attempt showed and TLC
  confirmed: a mandate left by a creation that was killed is written anew by the
  next one, so a copy may have the older one until `run.md` is in the copy as well
  (`Final`). `MigrationComplete` says that what other versions wrote is in the copy, cache
  entries apart, and that what is not converted there is what the report names; its
  invariant is that a copy is of this version or among those left or failed
  (`Current`), and that these are as they were (`Untouched`). It is proved for
  `shadowed = {}`, no root below a directory named `cache` or `logs`; below one it is false (section 5), and the run
  has no such root either. A workspace with commands is still a `FileStore`
  (`WorkspaceIsFileStore`), which carries the refinement of `Repository` over.
- `MarketProofs`: the five properties of market research.
  - Routing. `InOrder` chooses a sorted sequence; that there is one is `Sortable`
    (each source stands at the number of those up to it), and `RolesExist` that
    the roles can be given along it, each from those before. Both need an
    induction, done as a least counterexample (`Least`). `RouteDecides` then says
    that no two corroborating sources share a group, and `FetchInv` carries it
    through the fetches: what is still to be asked, what answered and what failed
    make up what was selected (`Accounted`).
  - Checks. `ChecksInv`: a source that a check has passed has a status no older
    than the check, because a save that would make a status older is refused.
  - Cutoffs. `CutoffInv`: a basis is timely when it is judged, and whatever was
    collected before the value came has its cutoff before it.
  - Weights. Folds are unrolled for the three candidates of an allocation
    (`TakenOut`, `TotalIs`, `ProductIs`). `Round` is the invariant of the rounds of
    `_capped_weights`: what is left to share is not negative and no more than the
    caps of those who share it, and whoever has the cap scores more than whoever
    has not. `RoundKeeps` is one round, `UncappedIs` says that three rounds are
    enough, `WeightsAre` what the weights then are, for any positive scores, total
    and cap. `CapsInv` takes them to the checkpoint.

## 5. What the code does not do as its documentation says

Two runs are expected to fail, each with an entry under `findings`.

- `stranded`: a stop between the last checkpoint and `completed` leaves a run
  that every `resume` returns as it is, in state `synthesizing`.
- `agent_unbounded`: a Codex call has no timeout while it writes the prompt, which
  ends only when the prompt is read or nobody has the input open any more, and
  neither adapter has one while it reads what is left after a timeout: a helper
  that survives the leader keeps the call.

The models contain more behaviours worth knowing, which have no run of their own.
Of a run:

- `save` overwrites `run.md` with the saver's copy; a second process that resumed
  earlier removes a checkpoint (`markdown_research.py:60`; compare
  docs/07-extensibility.md:232);
- session identities are kept when the provider changes
  (`research_orchestrator.py:580`; compare docs/05-runtime-flows.md:197);
- `resume` of a run that needs input does not ask for it again (`Reopen`; compare
  docs/05-runtime-flows.md:20);
- a run refused because its agent has no structured output has no limitation
  file (`Unsupported`; compare docs/10-implementation-plan.md:294);
- a stop between `save_plan` and its checkpoint lets the next plan conflict with
  the saved one each time (`PlanConflict`);
- a stop after `report.md` lets each resume save another set of outputs before it
  leaves with a conflict (`ReportConflict`);
- an exception that the adapters do not expect, of an agent or a source, leaves
  the command with the run as it was saved last (`Crash`, `SourceEscapes`).

Of forecasts:

- version 1000 is saved and never found (`markdown_forecasts.py:115`);
- a crisis run with live sources can be issued only if the cutoff lies between
  the end of its collection and its issue, and a refresh over sources without
  vintages is refused by its own cutoff as soon as the clock moves
  (`FetchRefused`, `IssueTooEarly`; `crisis_research.py:206`);
- the forecast, and likewise the signal and the portfolio, cite the first
  collection of the run, not the one that was verified last (`EndCollect`,
  `Finalized`);
- a forecast can be resolved more than once, and a monitor overtaken by a resolve
  saves its version after the outcome (`SaveOutcome`, `AppendVersion`).

Of sources and markets:

- an allocation reads its cutoff before it fetches, and a live source that stamps
  its answer later has it refused as evidence of the future (`Reject`;
  `allocation_research.py:123`, `:169`). The crypto workflow freezes its cutoff after
  retrieval, as docs/05-runtime-flows.md:116 says of it, and is free of this
  (`CryptoCutoffSound`); of allocations no document says so;
- a market run that is resumed without the inputs it asked for collects its
  evidence and then leaves with a `KeyError`, each time (`InputLacking`;
  `crypto_market_timing.py:251`, `allocation_research.py:319`);
- the primary role is given only to the first of the list: if that source cannot
  be primary, nobody is, and the fallbacks are asked although cross-checks
  answered (`RoleFor`, `Candidates`);
- values of a source for discovery alone are enough for a collection
  (`NoValue`; compare docs/02-architecture.md:294);
- the status saved last excludes a source however old it is (`Reachable`);
- a signal is issued from a collection of any age: only the collection was
  compared with the clock (`FinalizeCrypto`);
- a check of all sources ends at the first status that another check has
  overtaken (`SaveRefused`), or at the first unexpected error (`HealthEscapes`);
- a portfolio of three shared weights can be refused because their rounded sum is
  not exactly one (`WeightsRefused`, `domain/portfolio.py:90`).

Of a workspace:

- a root below a directory named `cache` or `logs` exports and indexes nothing and
  reports success (`MarkdownFiles` with `Shadowed`; `workspace_maintenance.py:124`;
  compare docs/11-operations-and-recovery.md:36);
- an export that stops part-way leaves its destination, which the next one
  refuses (`Prepare`), and a migration that fails has converted the rest.

## 6. Plan

1. Proofs: the weights of `_capped_weights` for any number of candidates, with an
   induction over the size of sets as a least counterexample.
2. Proofs: what the abstract specifications promise by themselves (`Ledger`,
   `Repository`, `AgentCall`), which their implementations then inherit.
3. The composition of `Orchestrator` with `MarketResearch` instead of the sets
   `Collections` and `Outputs`.

## 7. Not modelled

- Dashboard, doctor, listings and readings of repositories: they change nothing.
- The rate limiter of the HTTP client: sources are asked one after the other by
  one task, so that nobody waits for its lock. Of a request only the answer or
  the failure is seen; the client does not retry.
- The cache service: the container builds it and no command calls it. The save of
  a cache entry is a rule of `FileStore`.
- Parsing of vendor responses and of agent events, the numeric scoring of crises
  (Decimal arithmetic), codecs and serialization (round trips over data),
  configuration, prompts, redaction and the parsing of command lines.
- `ResearchRunService` (`research_run_service.py`): `bootstrap` builds it and no
  command calls it.
- The rounds of `Uncapped` are proved to end, and to end well, for the three
  candidates that an allocation has; for any number they are not.
