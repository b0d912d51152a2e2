# Epoch: a TLA+ development

Epoch runs a time experiment: it boots a private Firecracker VM, moves the
guest's clock, runs declared workloads inside it, and publishes a verdict. This
directory models the parts of it that keep state and interact, checks them with
TLC on small instances, and proves the safety properties that matter most with
TLAPS for every value of the constants.

`PROJECT.json` has the machine-readable side: which definition models which
lines, what each run checks, one faulty variant per checked property, the
hazards and the theorems.

Contents: [the system](#the-system), [the modules](#the-modules),
[the runs](#the-runs), [fairness](#fairness), [the proofs](#the-proofs),
[disagreements](#disagreements-with-the-documentation),
[what is left out](#not-modelled), [plan](#plan).

## The system

| part | source | state | operations |
|---|---|---|---|
| run controller | `internal/engine/run.go` | `manifest.json`, `report.json`, in-memory `Manifest` and `Report`, contexts | lock, admit, create evidence, stages, execute, clean up, publish |
| recovery | `internal/engine/recover.go` | the same files, the manifest it loaded | load, lock, inspect, stop, remove, save |
| step execution | `internal/engine/steps.go` | step index, observations | one call per step, two for a wait |
| VMM process | `internal/firecracker` | the child, its identity, its exit | start, stop, stop a recorded process |
| evidence recorder | `internal/evidence` | bytes used, sticky error, open files | event, log bytes, close, final |
| guest client | `internal/guestclient` | one connection, one call | dial, call, close |
| agent server | `internal/guestagent/server.go` | session, clock barrier | hello, clock, action, service, shutdown |
| service manager | `internal/guestagent/process_linux.go` | service table, process groups, `signalMu`, `reaping` | start, health, stop, terminate, reap |
| scenario | `internal/scenario` | none after validation | validate, evaluate assertions |
| authority workload | `workloads/agent-authority-expiry` | `pending-request.json`, `worker-state.json` | attempt, request, execute-pending |
| incident demo | `demos/incident-response-agent` | PostgreSQL rows | issue, restart a worker on a one-use authority |
| host checks, clock, configuration, artifacts, private files, wire format | `internal/...` | none of their own | pure checks and conversions |

How they interact. The controller holds an flock while it works; it starts the
VMM, talks to the agent through the client, one call at a time, and records what
it sees. Three goroutines and two log writers share the recorder and the run's
context. The agent runs workloads in process groups of their own, each with a
goroutine that reaps it. If the controller dies, its lock is gone at once, its
VMM a moment later, and a recovery works from the files that are left.

What makes it hard: a crash between a side effect and the record of it; a
recovery working from a stale record; a VMM that dies, a disk that fills or an
operator who cancels while the verdict is being formed; an answer that is lost
after the guest acted; a signal to a process group whose number was reused; a
kill between two file operations; a clock that moves between decision and effect.

What correctness means here: a disk is never taken from a live VMM; two VMs never
run at once; COMPLETE and exit code 0 mean what they say; a verdict is final; no
step is performed twice; a completed run had healthy services; a signal never
leaves its process or group; a request is executed at most once and under a valid
authority; an assertion's result is what the assertion says; everything that waits
stops waiting.

## The modules

Every module states in comments which code it translates. A definition named
"Faulty variant" is a plausible bug of the definition after it; no specification
uses it, and each is there because the property it breaks must be able to fail.

| module | about | proofs |
|---|---|---|
| `RunOwnership` | controllers, recoveries, crashes, reboots and the files they share | `RunOwnershipProofs` |
| `DiskCustody` | what is promised about disks, whoever acts (abstract) | refined in `RunOwnershipProofs` |
| `VMMStop` | the VMM's start, `Stop` with several callers, `StopOwned` | `VMMStopProofs` |
| `RunVerdict` | one run's goroutines, contexts, evidence quota and report | `RunVerdictProofs` |
| `Scenario` | a scenario's validation, budgets, answers and results | `ScenarioProofs` |
| `JSONValues` | JSON values as data | |
| `Assertions` | decoding, pointers and comparisons, as operators | |
| `ScenarioResults` | what the assertions' results mean | |
| `GuestSession` | engine steps, client calls, agent session and services | `GuestSessionProofs` |
| `OwnedGroup` | one workload's process group, its reaper and its terminator | `OwnedGroupProofs` |
| `AuthorityExpiry` | the authority-expiry workload's commands and files | `AuthorityExpiryProofs` |
| `Incident` | the demo's agent, authority checks and restart transaction | `IncidentProofs` |

`MC*` modules give constants their values.

### RunOwnership

`pc[r]` is where controller `r` is in `Run`, `mem[r]` and `verdict[r]` its `m` and
`r`; `manifest`, `report`, `files` and `evidence` are the disk; `rpc`, `target` and
`snap` are a recovery. A step is one file operation or one process operation.
`AtomicWrite` may fail before or after its rename, so a failed save leaves either
content. Only two things about runtime files matter: entries that
`removeOwnedRuntime` recognises (`"disk"`) and the temporary file of `AtomicWrite`
which it does not (`"temp"`), and which makes it refuse before deleting anything.
`Crash` drops the lock and the memory and keeps the disk; `VMMExits` is separate,
because the kernel closes a dead process's files, and with them the flock, before
it sends the parent-death signal. `Reboot` ends every process and may clear the
runtime root. `OperatorWaits` says whether `recover` is only invoked once the
controller ended, as `docs/operations.md` describes it. A rename that was
never synchronised is assumed to survive a reboot: `AtomicWrite` excludes storage
faults.

### DiskCustody

Three variables (`vmm`, `disk`, `gone`) and six actions, without locks, records or
recoveries: one run at a time is given a disk, its VMM is launched on it once, the
disk is discarded when no VMM uses it, and only then is the run announced as
cleaned up. `RunOwnership` implements it under the mapping that `Custody` states: the
disk is there when `files[r]` has it, and a run is announced when its saved report
says COMPLETE. `KeepsCustody` is that statement, checked by TLC and proved.

### VMMStop

`startOwned`'s goroutine (`spc`), the `sync.Once` of `Stop` (`first`, `kpc`), its callers
with contexts of their own (`cpc`, `cctx`), and `StopOwned` of a recovery that finds the
controller dead (`rpc`, `fd`). The kernel's side is `child`, `sig` and `reused`: a number
is free once its process is reaped and may then belong to anybody. `thread` is there
because the parent death signal follows the thread that started the child. The
module justifies the outcomes that `RunOwnership` and `RunVerdict` give to a stop.

### RunVerdict

Starts where the VMM is up. `pc` is `Run` from boot to publication; the monitor
goroutine, the VMM, its two log writers, the operator's cancellation and the two
deadlines, the scenario's and the CLI's own ten minutes, are actions of their own. Evidence is counted in records; `failLocked` is
sticky and cancels the run's context. The write of an event and the look at
`Err()` after it are one step, because the error is sticky and is looked at again.
A deadline that passes after the last look at the context changes nothing. A context
keeps the reason for which it ended first, so an interrupt after the CLI's ten minutes is
reported as an error, not as a cancellation; a scenario may last as long as that, and its
cleanup longer.
`lost`, `anomaly` and `early` are history: what really happened, which the report
must not contradict.

### GuestSession

Composes four components over one connection. The plan is not a constant: the
host chooses any next step that `Scenario.Validate` accepts after the steps so
far, which enumerates exactly the valid plans. `wire` holds the single frame of
the single outstanding call. A call that fails in any way closes the connection
and fails the run; the request may still be executed. `svc` has, per service, the
entry in `Manager.services` and the process behind it, which may end or overrun
its output quota at any moment. A process is `dead` before it is `done`: `startOwned`
closes `p.done` only when the group is killed and the leader reaped, and the health check
looks at nothing else. A shutdown is two steps, the health check (`Shutdown`) and `StopAll`
(`EndShutdown`), because the manager's lock is free in between. Two refusals are out of reach of a valid
plan and left out: a repeated request id and the session's quota of requests
(1024, for 128 steps).

### OwnedGroup

The inside of `startOwned`'s goroutine and of `terminate`. `rpc` is the goroutine
(observe the exit without reaping, lock, kill the group, scan `/proc` until nobody
is left or a deadline passes, set `reaping`, reap); `cpc` the terminating caller.
Members fork at any time and do not leave the group, which `docs/guest.md` asks
of workloads. `foreign` says that the kernel gave the number to somebody else.

### AuthorityExpiry

One command process at a time, as the agent runs them, one file operation per
step, killed or failing at any of them; the removal of the temporary file after a
failed write may fail too, which `writeJSON` ignores. The clock ticks, and scenarios set it
forwards or back. A request is what `authorize` distinguishes: its interval, its resource and
the checks it fails. `accepted` and `performed` count, as history, what became of it.

### Scenario and Assertions

`Decode` is the whole validation of one plan: defaults, durations, the order of steps,
references of assertions, the operator's policy and the image's declarations. `SendStep`
is the arithmetic of `executeStep` over what may be left of the run's one deadline,
in units finer than a millisecond, so that truncation happens. `ReceiveAnswer` takes
any answer of an honest agent, among them every clock readback within the bounds,
through the response's decoding and the host's own checks. `JudgeAssertion` is one turn
of the loop of `Evaluate`, at place `due`: it passes an assertion of another step, adds a
result, or ends the run with the results so far, because the assertion cannot be judged
or because its result exceeds the report's budget of 1 MiB. `EndStep` adds the automatic exit-code
result. The code appends the loop's results to the report when it returns; here they
appear one by one, and nothing else reads the report in between. Sizes are left out: any
answer, and any result that quotes a value, may be the one that exceeds the budget.

`Assertions` has the algorithms. A string, key or pointer is a sequence of atoms, each
a byte that the code looks at or a name without such bytes, so that splitting and
unescaping are done, not assumed. A number is its literal, mantissa and exponent.
The reference definitions are in `ScenarioResults`: `Nodes` gives every value inside a
value the pointer that RFC 6901 gives it, `Canon` brings numbers to one unit, and `Holds`
says in those terms what an assertion means.

The algorithms recurse over JSON values, and a module with recursive operators is out
of the prover's reach. `Scenario` therefore takes decoding, the table of fields and the
judgement of one assertion as constant operators (`Decodes`, `Available`, `Judgement`);
`Scenario.cfg` gives them the operators of `Assertions`.

A plan's checks of single fields (identifiers, versions, resources, sizes) are its
flag `wellFormed`. Output quotas are an action's error (`CallFails`).

### Incident

A client is one pass of `agent.Run`; several clients stand for calls that are
repeated or overlap on one tool server. The restart's statements are steps of one
serializable transaction with its snapshot, the row lock, the unique key of
`authority_uses` and a connection from the bounded pool; any statement may fail, and
a commit may take effect although its answer is lost. The clock is set at will.
PostgreSQL itself is external, modelled from how `store.go` uses it.
`RestartWorker` does not look at the worker's health; the agent chooses an
unhealthy one, which another call may have restarted in between.

## The runs

| run | instance | shows |
|---|---|---|
| `ownership` | 2 runs, 1 recovery, 1 reboot | `OneUnresolvedRun`, `CompleteMeansGone`, `ExitZeroIsBacked` and the refinement `KeepsCustody` when recovery follows the controller's end |
| `ownership_races` | 1 run, 2 recoveries at any time, fair | `VerdictIsFinal`, `RemovalNeedsDeadVMM`, `LockIsReleased` |
| `stale_recovery` | 1 run, 1 recovery at any time | expected violation of `DiskOutlivesVMM` |
| `unreported_run` | 1 run, 1 recovery | expected violation of `InterruptedIsReported` |
| `group` | leader, 3 children, 2 scans, fair | `NoForeignSignal`, `CleanTermination`, `TerminateReturns`, `KillReaps` |
| `session` | 3 services, limit 2, 6 steps, fair | `NoReplay`, `NoGuardRefusal`, `PassMeansHealthy`, `AgentEnds`, `CallsEnd` |
| `lost_dial` | 1 service, 2 steps | expected violation of `RetryCanSucceed` |
| `authority` | 4 commands, clock 0..3 | `AtMostOnce`, `EffectIsAuthorized`, `OutcomeIsTruthful`, `LeftoverBlocks` |
| `verdict` | 2 steps, 20 records, fair | `PassIsBacked`, `CancellationIsReported`, `UnfinishedIsNotEvaluated`, `RunEnds` |
| `vmm_stop` | 2 callers, 1 recovery, fair | `StoppedMeansDead`, `NoStraySignal`, `BorrowedErrorKilled`, `KillIsRequested`, `OwnedVMMEnds`, `CallersReturn` |
| `incident` | 2 clients, 4 authorities, 2 workers, 2 connections, clock 0..2, fair | `LedgerBalances`, `EffectWasAuthorized`, `AnswersAreTrue`, `PassesEnd` |
| `scenario` | 4792 plans | `TypeOK`, `DeadlinesNest`, `HostAgreesWithGuest`, `ResultsAreTrue`, `ReferencesResolve`, `ResultsAreKept` |

What three of them do not promise, because the code does not:

- `PassMeansHealthy` is about a service's end as it is announced, by the closing of
  `p.done`. A service that dies while its group is still being killed and reaped, or between
  the shutdown's health check and `StopAll`, passes for one that was stopped.
- `LeftoverBlocks` does not say that the directory stays clean: a kill or a failed removal
  leaves a temporary file, and from then on the writes of that file fail. They fail loudly,
  and the file left behind is never published.
- `ResultsAreKept` does not say that every result that was computed is reported. `Evaluate`
  judges all assertions of a step first; when the budget is exhausted by the result of one
  of them, that result and those after it are dropped. Those before it are kept.

A run does not repeat what a stronger statement says. `KeepsCustody` implies
`DiskOutlivesVMM` and `OneLiveVMM`; `StoppedMeansDead` contains `FailedStartIsClean`, and
`ResultsAreTrue` contains `PointersReadBack`; the inductive invariants, and with them
the other type invariants, are left to TLAPS.

Why the bounds are enough.

- Two runs are the fewest for which admission means anything. A run never ends up
  with more than one successor that interferes, and the proofs remove the bound.
- Two recoveries race each other and a controller; a third adds nobody new, since
  all but one wait for the lock. One reboot, in `ownership`, gives two boot ids.
- Three children let one fork while another dies and a third is already dead; two
  scans are one that finds somebody and one that does not.
- Six steps hold start, clock change, start, stop, restart and one step more; the
  limit of two with three services lets the limit be reached and released.
- Four commands are request, execute, and both again; a clock of four values holds
  before, at, inside and after a half-open interval.
- Twenty records let every record of a two-step run fit once, so that the quota
  is met at each of them as the VMM's log takes up the rest.
- Two callers of `Stop` are the two that the code has: the watcher and the cleanup.
- Two clients hold one authority or two, for one worker or two, and fill the pool.
- `MCScenario` lists plans in families that vary one part each: all pointers of up
  to four atoms, and of up to three more below `stdout_json`; every comparison of
  twelve values in several notations and nestings; budgets at and around
  each limit; clock targets at both ends with offsets and all tolerances around the
  bound; all orders of up to three steps after a clock change, over four services; all
  fields of all results, a service's output present and absent; up to four assertions of which any may fail. The limits are
  small numbers in the order of the code's; the response allowance exceeds the
  agent's bound on ending a process, as 4 s exceed 3 s.

Deadlock is not checked: a run, a session, a command and a scenario all end.
Symmetry is used in `ownership` only, where nothing is a liveness property.

## Fairness

Safety runs assume none. The liveness properties assume the following, and each
assumption has its reason in the code.

- `RunOwnership`: weak fairness of each controller's and each recovery's steps. All
  their waits have a context with a deadline, so each reaches its next step or its
  error path. Nothing obliges anyone to invoke either, so `AcquireLock` and
  `LoadManifest` are not fair, nor are crashes, reboots and VMM exits.
- `RunVerdict`: weak fairness of `Run` and of the monitor goroutine: the Go
  scheduler runs a ready goroutine, and calls to the guest end with the context. The
  VMM, its log, the operator and the deadlines owe nothing.
- `GuestSession`: weak fairness of the host alone. Its calls have deadlines; the agent,
  an action or a service owe nothing for `CallsEnd`. What `AgentEnds` needs of the
  agent is a hypothesis inside that property.
- `OwnedGroup`: weak fairness of the two goroutines for `TerminateReturns`. `KillReaps`
  has its own hypothesis, `KernelFairness`, inside the property: a process with a
  pending KILL dies, and `signalMu` is not kept from the waiting owner for ever
  (`sync.Mutex` hands over to a starving waiter), which is strong fairness of
  `LockOwner`.
- `VMMStop`: weak fairness of the goroutines, of contexts and timers that expire, and
  of the kernel carrying out a KILL. The VMM need not end by itself or after TERM, and
  only the watcher is obliged to call `Stop`.
- `Incident`: weak fairness of each client's statements once they have what they wait
  for. Nothing obliges a statement to fail, so waiting for each other would show.

## The proofs

Each `*Proofs` module extends its component and `TLAPS`. All proofs are safety
proofs by one inductive invariant `IInv`. To try it on an instance before changing a
proof, add `IInv` to the invariants of the component's `.cfg`. (For `Scenario` leave out
`plan \in Plans`, which TLC would evaluate in every state.) The only assumptions
are the named `ASSUME`s of the component modules, which say what kind of thing each
constant is; TLC evaluates them on its instances.

**RunOwnership**, for any runs, recoveries and reboots. `TypeCorrect`, `DiskSafe`
(if operators wait), `Admission`, `SingleVMM` (if operators wait), `ExitZero`,
`VerdictFinal`, `RemovalSafe`, `CompleteIsGone` (if operators wait) and `CustodyRefined`
(if operators wait). None of the properties is inductive: that a live VMM still has
its disk depends on what a recovery read before it took the lock,
which depends on what the controller saved before it launched. `IInv` has
- `LockInv`: whoever is between taking and closing the lock holds it, so two
  actors never change files at once;
- `PhaseInv`: what memory, disk and VMM have in common at each program point, above
  all that `BOOTING` is on disk before the launch;
- `LaunchInv`: a live VMM with its disk is on record as possibly alive, which is
  what stops a recovery without a process identity;
- `RecoveryInv` and `WaitingInv`: what a recovery knows about its target, without and
  with operators who wait;
- `AdmissionInv` and `VerdictInv`: an admitted controller is the only one with
  something to resolve, and no report claims more than its controller did.

The proof has one lemma per group of actions, and each shows all conjuncts that
its actions can disturb: typing and frame lemmas (what a step that touches little
leaves intact), the steps of a controller, those of recoveries and of the environment,
the invariance theorem and its corollaries. `CompleteIsGone` adds one fact to `IInv`,
`CompleteInv`: while a controller works, no record of its run says COMPLETE. The last
record repeats a verdict that says so only after the removal; a recovery says so of
an ended run whose files it removed and whose VMM was dead by then. `CustodyRefined` maps
initial states to initial states and each step, in states that satisfy `IInv`, to an
action of `DiskCustody` or a stutter; `AloneWhileActive` carries it: whoever provides a
disk or launches is admitted, so nobody else has a disk or a live VMM.

**RunVerdict**, for any number of steps and any quota. `PassBacked`,
`CancellationReported` and `NotEvaluated`. `BackedInv` relates each claim of
the report to history: the step counter, the sticky recorder error that stands
for a lost record until the files are closed, and the cancellation, which is the
operator's as long as no deadline ended the caller's context before it.

**OwnedGroup**, for any children and any number of scans. `ForeignSafe` and
`TerminationClean`. `GroupInv` says that a sender holds `signalMu`, hence `reaping` is
not set, hence the zombie leader still occupies the number; and that without an
error the scan has seen that nobody is left who could fork.

**AuthorityExpiry**, for any requests and any number of commands.
`ExecutedAtMostOnce`, `ReportsTruth`, `LeftoverIsSafe`, `RestartIsAuthorized` and
`PendingSafe`. `CreditInv` counts: what was performed, plus one if the request is
pending, plus one if a command is about to perform it, never exceeds what was
accepted. Each step moves one unit between the three.

**VMMStop**, for any number of callers. `StopNilIsDeath`, `SignalsStayHome`,
`ErrorsFollowKill` and `KillsAndStarts`. `ChildInv` says who reaps the child and that
its thread stays until then, `StopInv` what each outcome of the one stop has seen,
and `RecoveryInv` that a pidfd confirmed by the second inspection is the VMM's.

**Incident**, for any clients, authorities and workers. `RestartInvariant`,
`LedgerHolds`, `EffectsAuthorized` and `AnswersHold`. `TxInv` says that a worker's row and
an authority's identifier have one holder each and that a holder's snapshot is
still the truth; `CheckInv` what a client's place says about its two checks; `RowInv`
that each client leaves one record, which is its answer.

**GuestSession**, for any services, any limit and plans of any length.
`NoStepIsReplayed`, `PlansAreAdmitted` and `CompletedIsHealthy`. Each property relates
the host's view to the guest's, and between the two lie a request or an answer on the
wire, a guest that works on, and connections that either end has closed. `IInv` has
- `LinkInv` and `CallInv`: where both ends can be, given the connection and the frame
  on it; while the host waits for nobody the agent is idle, and a pending request
  has no answer yet;
- `EffectInv`: every earlier step succeeded and was performed once, every later one not
  at all, and the current one not before the guest has it;
- `TableInv`: the table of services and the clock barrier that `Validate` computes for
  the plan so far are the guest's own, except for the step that is under way
  (`TableBefore`), which is why no guard refuses it;
- `HealthInv`: a service that was lost is still visible to a later health check
  (`Evidence`), or the check has seen it, or `StopAll` will see its output, or the error is
  on its way, or the answer can no longer be sent.

The proof has one lemma per conjunct with one step per action.

**Scenario**, for any plans, limits, unit of time and skews of the clock. `BudgetsNest`
and `ReadbackAgreed`, which rest on `AcceptedPlan`: validation leaves a positive timeout in
every workload and a positive tolerance in every `clock.set`, so neither the guest's
default nor the host's is ever used for them. `PlanInv` says so of the current plan, and
`RequestInv` that the request carries the budget computed from its step and from what
is left. Beyond that it is arithmetic: cutting to whole milliseconds rounds down, to no
less than one; and the host's interval for a readback is the guest's, moved by the
target. `ClockResultAssumption` says of the decoder only that it takes the result of a
`clock.set`, which is shallow and has plain integers.

`TypeCorrect`, `ResultsKept` and `ResultsJudged` are about the report, for every
judgement, whatever it answers. `ResultsAreKept` is a conjunct of the inductive invariant:
every finished step has a result for each of its assertions and its exit code, all in the
order of the plan, after an error as well; a step that ended at one of its assertions has
exactly the results of those before it (`ReportEndsBefore`). Since the loop passes the assertions of other
steps, it needs `ResultInv`: `due` is a place of the list, and below it the current
step's assertions have their results. A new result comes last in that order because the
earlier results belong to earlier steps or to lower places, which rests on the
validation's identifiers without repetition. `ResultsJudged` is a second invariant
on top of `IInv`: each result of the current step is the judgement of its own assertion
on the step's own answer, or the exit code compared with the expected one. No cfg lists
it, because `ResultsAreTrue` says more of the judgement that the code has.

Only model-checked:
- all liveness properties: fairness and `ENABLED` are out of the prover's reach;
- `ResultsAreTrue` and `ReferencesResolve`, about operators that recurse over JSON values:
  this prover has no induction over data. With `ResultsJudged`, what is left to TLC of
  the first is that one judgement means what `Holds` says.

## Disagreements with the documentation

Three runs are expected to fail. Each states what a document says and TLC gives a
behaviour of the code in which it does not hold.

- `stale_recovery`: "If a VM may still live, preserve its disk."
  (`docs/implementation-contract.md`). `Recover` loads the manifest before it takes
  the lock. Invoked while the controller prepares, it keeps a record without a
  launch; if the controller then launches and dies, recovery takes the lock and
  removes the disk while the VMM may still be alive. `RemovalSafe` proves that a
  stale record is the only way.
- `unreported_run`: "Report inspection without a final file is INTERRUPTED."
  (`docs/evidence.md`). The evidence directory exists before the first manifest; a run
  that ends in between cannot be inspected.
- `lost_dial`: "Malformed frames, duplicate IDs and lost connections end that
  session." (`docs/guest.md`). `Serve` returns with the first failed session, so the
  agent ends with it, and its unit is not restarted; a host that still retries its
  dial finds nobody.

Two more are stated inside passing properties, as what the code does.

- "Assertions cannot reference nonexistent steps or fields unavailable for that
  operation." (`docs/scenarios.md`). `availablePointer` takes `/stdout` and `/stderr` for
  `service.start`, but `Manager.Start` sets neither and empty ones are omitted.
  `ReferencesResolve` says what follows: a validated value comparison with them ends every
  run that reaches it, `exists` always fails and `absent` always holds.
- "Earlier completed assertion results survive a later execution failure"
  (`docs/evidence.md`). With an exhausted report budget this is so only of the results
  before the one that did not fit, as `ResultsAreKept` says.

## Not modelled

- Byte-level parsing: frames, exact field names, identifiers, UTF-8, the length of a
  number's literal, configuration, flags. It keeps no state; a frame or a plan is
  well-formed or not.
- Permission and symlink checks of the private file tree, and the preflight checks
  of host, KVM and limits: they look at an environment that no action changes.
- `hostcheck.Compare`: three comparisons of two samples. A model of them would repeat
  the code; that each sample is compared with the one before it is in `RunVerdict`, as
  an anomaly that is seen or not.
- Loading and hashing prepared images, and building the VMM's configuration: pure,
  and before any state exists.
- The clock-probe workload, the start-up of the agent, the demo's process wiring and
  its database bootstrap: linear, on a fresh private disk, without state that another
  part reads while they run.
- `ReadPartial`: it reads records for display and changes nothing.
- The sizes behind the quotas of reports and outputs, and `MaxEvents` (4096), which a
  plan of 128 steps cannot reach.

## Plan

Built: `RunOwnership` and `DiskCustody`, `VMMStop`, `RunVerdict`, `GuestSession`,
`OwnedGroup`, `AuthorityExpiry`, `Incident`, `Scenario` and `Assertions`; every safety
property of a run but the two named above is proved. What would add most next: a
composition of `RunVerdict` with `RunOwnership`, the verdict's phases as a refinement of
the controller's.
