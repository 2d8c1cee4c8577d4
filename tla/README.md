# Panel Assistant: verification of the install and update machinery

TLA+ models, TLC configurations and TLAPS proofs for the Home Assistant
integration in `custom_components/panel_assistant`. Paths below are relative to
that directory unless they start with `tests/`.

## 1. The system

The integration adopts wall panels into Home Assistant and, for a panel that
runs nothing of ours yet, installs the daemon on it. The installation is a long
workflow with irreversible steps on a device at the other end of an ADB
connection, driven by a process that may be restarted at any time. That
workflow carries most of the repository's own protocol logic, and most of this
development is about it. The delivery of APKs to a browser that installs over USB
and the update entity of an adopted panel are the two other places where several
actors share state over time, and are modelled too.

| component | state it keeps | operations | interacts with |
|---|---|---|---|
| receipts, `install_jobs.py` | one private store file of receipts; per process `_jobs` (last document seen) and `_claimed_jobs` (job -> generation) | create or join, get/list/find, request cancel, claim, transition, mutation and cleanup barrier | executor, config flow, entry setup |
| executor, `install_executor.py` | `_tasks`, `_finalizers`, `_nonrestartable_workers`; each worker's local artifact and staged APK | ensure/wait, resume loaded jobs, the worker's phase loop, finalizer lease | receipts, custody, ADB, credentials, network policy |
| ADB install, `install_adb.py` | nothing in the process; one fixed staging slot and the package on the panel | preflight, verify, stage, install, launch, clean up; every call classifies its failure as definite or ambiguous | the panel |
| custody, `install_artifacts.py` | `.part` and ready files per execution id; process-wide worker bookkeeping | prepare, download, promote, clean up, reconcile | executor |
| credential, `adb_credentials.py` | one private key file that panels have trusted; per process the lock and `_credential` | get, persist with read-back, durable get | executor, config flow, Home Assistant's `Store` |
| finalization, `config_flow.py` | per flow: job id, lease, reservations, release tasks | finalize a healthy install into an entry, reject, remove | executor lease, receipts, entry setup |
| entry setup, `__init__.py` | runtime data per entry | reconcile the healthy receipt of the address, resume jobs, set up and unload | receipts, executor |
| network policy, `install_network.py` | none | pin a target, revalidate a pin | executor, flow |
| browser delivery, `browser_*.py` | admitted requests; at most two bundles with their leases, `_busy`, `_failed`, `_closed`; a directory | list, prepare, stream, reap, stop | the browser installer, custody |
| update entity, `update.py` | `_installed_code` and its key, `_code_task`, `_observer_task`, `_attr_in_progress` | refresh the installed code, install stable, deliver a build, observe | the polls of `coordinator.py`, `update_coordinator.py`, `feed_coordinator.py`; the panel |
| build feed, `build_feed.py` | none | fetch, parse | feed coordinator |
| browser installer, `frontend/src/*.mjs` | IndexedDB job receipts, USB session | compare-and-swap a receipt, stage/install/launch over USB, recover | browser delivery |
| polling and entities (`coordinator.py`, `client.py`, `status.py`, ...) | last status | request, render | Home Assistant |

### What is hard

* **Failure after the write.** A save may raise after the file changed, or its
  caller may be cancelled while the write is drained. Memory is then dropped and
  the next call works from the file, so no call may rely on knowing whether its
  predecessor took effect.
* **Restart in the middle of a mutation.** In `staging`, `installing` and
  `launching` the previous process may already have changed the panel.
* **Stale authority.** Claims live in memory and receipts on disk. A claim must
  stop counting as soon as anyone else has claimed.
* **Cancellation against progress.** A cancel request can land between any two
  steps of a worker.
* **Ambiguous ADB answers.** A timeout can hide a success.
* **Custody left by a crash**, and executor threads that outlive their caller.
* **Finalization.** Config flow and entry setup may both want to consume the
  same healthy receipt.
* **Late answers.** The number of a panel's build is asked for by a task of its own,
  while the panel may be replaced, also by an earlier build, between any two awaits.
* **Callers that go away.** A cancelled call of the receipts drops the claims of all
  jobs, whoever works on them.
* **Latches without a lock.** `_busy` of the browser cache and `_attr_in_progress`
  of the update entity are flags that cancelled tasks must give back, once.
* **Shutdown.** Home Assistant stops with writes, downloads and responses under
  way; their threads are not stopped.
* **Bounds.** Receipts, bundles, attempts, retries and revisions are all capped.

`PROJECT.json` lists each of these at its line, with the properties that would
catch it going wrong.

### What makes each component correct

| component | properties |
|---|---|
| receipts | no call sequence writes a document the parser refuses; at most one effective claim; a revision determines the receipt; work of unknown effect is never taken over; cancel wins; outcomes are final; targets of unfinished jobs are disjoint |
| executor | each panel mutation is started at most once per job over all restarts; a definite outcome leaves no staged residue; a finished job leaves no local artifact; every worker ends |
| ADB install | a definite failure means the panel keeps nothing of the job; a command reaches only the panel and root mode that were proved; nothing installed is ever replaced; every call returns with everything closed |
| custody | nothing but a verified file becomes ready; no cancellation makes anyone forget a partial or close a file a thread still uses; a reconciliation removes exactly what no job needs |
| credential | there is only ever one key; nobody is given a key that is not on disk; every call ends |
| finalization | a proof and its outcome happen under the lease of the job; one entry per address; a healthy receipt is settled by one finalizer; a removed flow lets go |
| browser delivery | no bundle goes while it is streamed; no file without an owner, never more than two, none after a stop; the cache is never left busy |
| update entity | a number is recorded only for the build that has it, whichever way the panel goes, or the one read is known in which it was not; one delivery at a time; the entity does not stay in progress |
| browser installer | two tabs cannot both own a job |

## 2. Plan

In order of importance. Each component gets its own module, parameterised by
constants with named assumptions; modules to prove about declare no RECURSIVE
operator.

1. `InstallPromise`: what the receipts promise, one stage per job. Done.
2. `InstallJobs` with `MCInstallJobs`, `InstallJobsProofs`: receipts, claims,
   barriers, the limits of the document. Done.
3. `InstallExecutor` with `MCInstallExecutor`: the workers composed with
   `InstallJobs`, local custody and the panel; termination of workers. Done
   (the finalizer lease is in step 4), with `InstallExecutorProofs`: type
   correctness, refinement of `InstallJobs`, every safety property of the runs.
4. `Finalizer` with `MCFinalizer`, `FinalizerProofs`: lease, re-proof, entry
   creation, setup reconciliation. Done.
5. `InstallCustody`: what the custody of the APKs promises to its callers.
   `InstallArtifacts` with `MCInstallArtifacts`, `InstallArtifactsProofs`: custody
   files, the threads that touch them and the calls that wait, shown to implement
   `InstallCustody`. Done.
6. `InstallAdb` with `MCInstallAdb`, `InstallAdbProofs`: the calls to the panel, their
   proofs, their commands and what their codes say. Done.
7. `AdbCredentials` with `MCAdbCredentials`, `AdbCredentialsProofs`: the
   credential store. Done.
8. `BrowserCache` with `MCBrowserCache`, `BrowserCacheProofs`: requests, bundles,
   leases, shutdown. Done.
9. `UpdateEntity` with `MCUpdateEntity`, `UpdateEntityProofs`: installed code,
   observer, deliveries. Done.

Left: the browser's own receipts over IndexedDB (`frontend/src/job-store.mjs`) and
the USB transactions that use them.

Theorems: every safety and action property that a run checks, the two refinements
among them, is proved for all values of the constants. Worth adding are that what
`InstallExecutor` takes the panel's answers for is what `InstallAdb` gives, and
that its own steps use the custody as `InstallCustody` lets them (section 6 says
which step relies on which clause); both are composed by reading only.

## 3. Receipts: `InstallJobs`

### State and actions

| TLA+ | code |
|---|---|
| `disk` | the document of the private store, job id -> receipt |
| `cache[m]` | `_jobs` of manager `m` |
| `claimed[m]` | `_claimed_jobs` |
| `used` | ghost: identifiers `token_hex` has returned; it never repeats one |
| `Refresh` | `async_get`, `async_list`, `async_find_active`, a create that joins, any call refused after its load |
| `Fault` | a load that raises, a save refused before it starts, a rejected barrier |
| `Restart` | a new process: a new `InstallJobManager` |
| `Create`, `RequestCancel`, `Claim`, `Transition`, `VerifyBarrier` | the calls of those names |
| `Saved` | `_async_save_locked`: written and read back, or raised before or after the write |
| `Prunable` | the outcomes of `_prune` |

A call runs under the manager's lock from load to return, so one call is one
action. A call may fail half way in every way the code allows: `Saved` leaves
the old or the new document with the memory invalidated, which is also what a
cancelled caller leaves.

Abstractions:

* The frozen plan is one value with the three identities a target is compared
  by. Nothing in a receipt's later life changes or reads more of it.
* `attempt` and `executor_generation` move together (the parser demands
  equality) and are one counter.
* Timestamps are left out. The age at which finished receipts expire is a free
  choice. Stamps have one-second resolution and follow the wall clock, so the
  receipt a call has just finished sorts first only if the clock was not set
  back: `SteadyClock` says so, and where it is `FALSE` the prune of the same call
  may take it.
* The validation a save starts with is not a guard of the model.
  `StoreStaysReadable`, `DocumentBounded` and `ActiveTargetsDisjoint` (all proved)
  show that
  it never refuses what the calls admit, apart from the clock check, which is one
  of the ways a save fails.

`Managers` has more than one element in the runs although a process keeps one
singleton: the generation fence and the revision checks are written for a second
manager over the same file, and the tests of the module exercise exactly that.

### Properties

| property | says | would be broken by |
|---|---|---|
| `StoreStaysReadable` | every receipt on disk passes the receipt parser | keeping health evidence in a quarantined receipt |
| `DocumentBounded` | the document is within the parser's two limits | pruning one too few |
| `ClaimsAreFenced` | one effective claim per job | claiming without a new generation |
| `CancelHonoured` | a cancel request keeps the job out of later mutations | letting a cancelled job progress |
| `ProgressIsStamped` | a change of an unfinished job is one revision of the same plan and is not lost | pruning the wrong end |
| `AmbiguousNeverReplayed` | a takeover in a phase of unknown effect is a quarantine | claiming such a phase normally |
| `KeepsPromise` | the receipts implement `InstallPromise` | a shortcut past a phase |

Each phrase in the last column is a mutant operator in the module, marked as
such and used by nothing. Stated and proved below, and checked by no run of their
own: `TypeOK`, `ActiveTargetsDisjoint` (unfinished jobs share no panel identity),
`RevisionIdentifies` (memory with the durable revision is the durable receipt),
`OutcomeIsFinal` (finished receipts never change, forgotten ones never return) and
`HealthyWaits` (a healthy receipt is changed only by its finalizer).

### Runs

| run | instance | states | why it is enough |
|---|---|---|---|
| `jobs_two_managers` | 1 job, 2 managers, 1 plan, 2 attempts, 1 root mode, revision bound 16 (never reached: the attempt bound ends the job first) | about 11,000 | every phase and outcome is reached; two managers are what fences and stale memory need; the attempt bound is reached by claims |

`DocumentBounded` is checked by `exec_two_jobs` (section 4), whose two jobs fill a
store that keeps one finished receipt, under a clock that may be set back.

Deadlock is checked; a refused call (`Refresh`) is always possible.

### Proofs

`InstallJobsProofs` holds for every set of managers, jobs, plans, and every limit
that satisfies `LimitsAssumption` and `NoneAssumption`.

Argument. `Next` has many actions but few effects. `JobStep` lists what a call can
do to one receipt (nothing, create, mark cancelled, claim, move), and
`NextIsJobStep` shows that every action, with every way its save may fail, is a
`JobStep` for some job together with a prune of finished receipts. Memory is
handled the same way by `NextIsMemoryStep`: adopt the new document with
reconciled claims, or forget everything. All invariants are proved against these
two relations, never against the eleven actions.

`IInv`, the inductive invariant, is `TypeOK` and

* unused identifiers have no receipt and no claim, on disk or in any memory;
* no memory and no claim is ahead of the file in revision or generation;
* the safety invariants `StoreStaysReadable`, `CancelHonoured`,
  `ActiveTargetsDisjoint`, `ClaimsAreFenced` and `RevisionIdentifies`.

None of the last group is inductive alone: the fence needs "no claim is ahead of
the file" so that a new generation is new to everyone; the revision property
needs "no memory is ahead" for the same reason; readability needs the fence of
`CancelHonoured` on moves to `consumed`, and both need unused identifiers to be
clean so that `Create` starts from nothing. Action properties and the refinement
of `InstallPromise` follow from `IInv` and `JobStep`. `PromiseTheorem` and half
of `ProgressTheorem` assume `SteadyClock`.

The last part is `BoundsTheorem`. `DocumentBounded` is inductive given
`IInv`: a finished receipt can only appear in a step that prunes, and a
prune leaves at most `MaxTerminal`; an active one can only appear by `Create`,
which counts them first. The rest is cardinalities of subsets of `JobIds`, which
is finite (`LimitsAssumption`).

There is no liveness claim for the receipts: the
manager is passive, and nothing in it must eventually happen.

## 4. The executor: `InstallExecutor`

### State and actions

The module extends `InstallJobs` with one manager `Ha` and adds the tasks of the
process, the custody directory and the panels.

| TLA+ | code |
|---|---|
| `up` | `hass.data` holds the executor (`async_get_install_executor` has run) |
| `task[j]` | the worker in `_tasks`: its program counter and its locals (`receipt`, `local_artifact`, `staged`, `stale_partial_removed`, the operation and the transition it is about to ask for) |
| `task[Resumer]` | a call of `async_resume_loaded_jobs` that has met a job of unknown effect |
| `poisoned` | `_nonrestartable_workers` |
| `custody[j]` | what lies in the custody directory under the job's execution id: nothing, a partial file, a verified file |
| `panel[s]` | the one staging slot and the package of a panel, each with the job that put it there |
| `cmd[j]` | the last command sent for the job: sent, carried out, or refused by the panel |
| `asked[j]` | ghost: every operation ever commanded for the job |
| `excused` | ghost: the jobs whose worker has met a failed or cancelled call since it began, its own or another caller's, could not clean up, or was cancelled itself |

| actions | code |
|---|---|
| `Begin`, `AskFirst`, `Reget`, `Reclean`, `Confirm` | `_async_claim` and the retry around it, in `_async_run` and in the resume |
| `Approved` ... `HealthCheck` | the branches of the phase loop |
| `Acquire`, `Fetch`, `Unpart` | `async_download_install_artifact` and `_async_clear_stale_partial` |
| `Authority`, `Barrier`, `Send`, `Answer` | `_async_mutation_authority`, `_async_cleanup_authority` and the ADB call that follows |
| `CancelSeen`, `DropLocal` | `_async_cancel_requested` |
| `CleanFail`, `DropRefused` | `_async_cleanup_local_then_fail`, `_async_install_refused` |
| `DoMove`, `Recheck` | `_async_transition` |
| `DoFail`, `DoRecover`, `RecClean`, `RecGet`, `Finish` | `_async_fail`, `_async_recovery` |
| `CallFails`, and the second half of `Await` | a manager call that raises or is cancelled; the worker's final `except` clauses |
| `Cancelled`, `Abandoned` | `CancelledError` reaches a worker or the resume in whatever it awaits (`install_executor.py:566`, `:289`); what the custody's own handlers then leave of the artifact |
| `Boot`, `Ensure`, `Resume`, `Crash` | creation of the executor with its reconcile (which may fail half way), `async_ensure_job`, `async_resume_loaded_jobs`, the end of the process |
| `FlowCreates`, `FlowCancels`, `FlowFinalizes`, `FlowFails` | the calls that config flows and entry setups make on the same manager |
| `PanelActs` | the panel carries out, or refuses, a command it was sent |

Every `await` of a worker ends an action, so each of the others may come between
two of them. A command outlives its call: `Answer` may give up (`Unknown`) while
`cmd[j]` is still `sent`, and `PanelActs` may follow when the worker, or the
process, is long gone.

Two constants say what may go wrong. `DiskFaults`: calls on the store and on the
custody directory may fail. `HangUps`: workers, the resume, and the flows and setups
that call the same manager may be cancelled. Either makes a manager call drop its
memory and every claim with it (`CallsMayFail`), for the handlers of
`CancelledError` (`install_jobs.py:1049`, `:1121`, `:1187`) do what those of a
failing file do.

Abstractions:

* Custody is what one look into the directory shows. That a failed download
  removes its partial file only if the removal works, and that a failed removal
  may or may not have removed it, are kept. Arbitration between a caller and its
  worker thread is in `InstallArtifacts`.
* An ADB session is its verdict: it failed before its first mutating packet
  (`Refused`), it is unknown (`Unknown`), or the panel's answer was understood.
  That the code's error codes sort into these three is `install_adb.py`'s part
  (`InstallAdb`). Under which of the codes its phase admits a failure
  is filed is a free choice.
* The artifacts of all jobs have the same bytes, so the digest check of a slot
  never tells two jobs apart: the harder case.
* `Resume` handles one job per action; its list may be stale by the time of the
  claim, which the steps between `Resume` and `AskFirst` stand for.
* `async_request_cancel` has no caller in the integration at this commit. It is
  the public operation the executor's cancel handling exists for, so it is in the
  model (`FlowCancels`).

### Properties

| property | says | would be broken by |
|---|---|---|
| `MutationOnce` | no operation is commanded twice for a job, over all workers and processes | going round the loop again after an unknown answer |
| `NothingLeftBehind` | a job that claims to know its outcome has left nothing in the staging slot and no staging command that is still under way, and a finished job nothing in the custody directory | judging by the worker's memory alone whether there is a local file |
| `TasksEnd` | every worker and every resume ends | retrying an unknown answer for ever |
| `StrandedForCause` | a worker gives up an unfinished job only when a cancel request overtook it, when it was cancelled or could not clean up, or when, while it ran, a call of the manager failed or was cancelled | dropping the claims of cancellable jobs on a refresh |
| `LiveArtifactKept` | while a worker stages a file, the file is there | a resume that does not recognise the process's own claim |
| `OneHandPerPanel` | two workers never command one panel at a time | comparing addresses only |

`StrandedForCause` says what costs a worker its job, and each of its causes is real:

* a cancel request between the read in `_async_mutation_authority` and its barrier
  makes the barrier raise, and the job stays unfinished until the next process; the
  same request one step earlier is handled in place;
* a cancelled worker is never restarted in its process (`install_executor.py:185`);
* a call of *anybody* on the manager that fails or is cancelled forgets the claims of
  all jobs, and the next transition or barrier of each live worker is refused. A user
  who closes a dialog at the wrong moment is enough, with every file readable.

The receipt is safe in all of them. That nothing else strands a job, neither the
resume, nor the flows, nor the claims and transitions of the workers among each
other, is what the property shows. The ghost `excused` is forgotten when the next
worker of the job begins, so no worker is excused by what an earlier one met.

### Runs

| run | instance | states | why it is enough |
|---|---|---|---|
| `exec_faults` | 1 job, 2 attempts, `DiskFaults` and `HangUps`, under `FairExecSpec` | about 70,000 | every phase, every detour, every failure, and a cancellation at every await; two attempts give a worker, its successor in a new process, and the quarantine at the limit |
| `exec_two_jobs` | 2 jobs on one panel under two addresses, a clock that may be set back, 1 attempt, store of 2 active and 1 finished, neither `DiskFaults` nor `HangUps` | about 730,000, up to the view `Outlines` and a symmetry of the jobs | one job follows another on a panel while commands of the first may still be under way; two is what sharing a panel needs; the plans share the serial only, so that one identity is all that keeps them apart |
| `exec_live_artifact` | as `exec_faults`, without `DiskFaults` | stops at the violation | see below |

The revision bound 18 is never what stops a job. Deadlock is checked in all.

Fairness: `TaskStep(t)` is weakly fair for each task. What a worker awaits
returns: manager calls and file operations are bounded work, and downloads, ADB
sessions and health probes run under timeouts. Nothing is assumed fair of config
flows, entry setups, the panel or the process: it may die at any time, and a
command may never be acted upon.

### A disagreement between comment and code

`install_executor.py:252` says of a resume that an active worker of the same
manager retains its claim and "must never be duplicated or have its live artifact
cleaned". It retains the claim only until some call on the manager, for whatever
job, fails to load or save or is cancelled: `_invalidate_cache`
(`install_jobs.py:1009`) forgets every claim. Entry setup resumes jobs each time an entry is loaded. A resume that
then meets the job in `staging` takes it for a dead process's, removes the
artifact the live worker is pushing and writes `recovery_required`
(`exec_live_artifact` shows the steps; no file fails in it, one call of another
caller is cancelled). `exec_faults` shows what still holds in such an instance:
nothing is commanded twice, and no definite outcome is claimed. `exec_two_jobs` shows
the comment true as long as no call of the manager fails or is cancelled, and
`UndisturbedHandsAlways` that the workers that met no such call are safe anyway.

### Proofs

`InstallExecutorProofs` proves, for any jobs, plans, limits and faults that satisfy
the assumptions, with one manager:

* `ExecTypeCorrect`: `ExecSpec => []ExecTypeOK`. The type invariant is not
  inductive by itself. A worker asks for the transition it has set its `goal` to,
  and sends the command it has set its `op` to, so the shapes of the next state
  depend on a worker at those places having one. `ExecInv` adds that (`Sound`), and
  that identifiers never drawn have left no trace (`UsedInv`, from the receipts).
  `TaskMoves` shows for each action of a task that the worker it leaves is
  well formed and sound; `TaskCustody`, `TaskPanels` and `SurroundingTypes` do the
  rest.
* `ExecImplementsJobs`: `ExecSpec => Spec`. Every step is a step of `InstallJobs`
  by the one manager `Ha`, or leaves the receipts alone: `TaskCalls` for the
  tasks, `SurroundingCalls` for flows, the resume, the panel and a new process.
  This is not just composition: the guards a worker puts before a transition or a
  barrier must imply the revision the manager is called with.
* `ExecKeepsJobs`: hence what is proved of the receipts in section 3 holds of
  the executor: `StoreStaysReadable`, `CancelHonoured`, `ActiveTargetsDisjoint`,
  `ClaimsAreFenced`, `OutcomeIsFinal`, `AmbiguousNeverReplayed`.
* `NothingLeftBehindAlways` and `MutationOnceAlways`, through faults, late commands,
  resumes, foreign quarantines and restarts.
* `StrandedForCauseAlways`, without any assumption on faults and hang-ups.
* `UndisturbedHandsAlways`, likewise: a worker that is not excused has the file it
  stages, and no other such worker commands its panel, whatever calls fail before it
  began or for workers that have ended.
* `LiveArtifactKeptAlways` and `OneHandPerPanelAlways`, the same of all workers,
  assuming `~CallsMayFail`, as the run that checks them does. Without it the first is
  false (`exec_live_artifact`): one failed or cancelled call makes the manager forget
  every claim. So is the second, by the same way: the resume quarantines a job whose
  worker is about to command the panel, and a new job is admitted to it
  (`HangUps = TRUE` in `MCExecTwoJobs.cfg` shows the steps).

The named assumptions are those of `InstallJobs`, `ExecutorAssumption` and
`NoneIsApart`: "nothing" is none of the records it may stand in place of.

*What a worker relies on.* The inductive invariant of the first two is `Standing`:
`ExecInv`, the receipts' `IInv`, and `WorkInv`, which says

* `MemoryInv`: the one manager remembers the file as it is, or nothing;
* `JobInv(j)`, for each job: where its worker is suspended and what the receipt on
  disk, the commands so far, the last command, the slots and the custody then are.
  `Tracks` bounds what others can have done to the receipt since the worker read it
  (asked it to cancel or ended it; before the first mutation only the former);
  `Place` says, for each place of the worker, which transition or operation it has in
  mind and why it may; `Says` what each phase of the receipt tells of the panel
  and the custody, which is what `NothingLeftBehind` follows from; `Sent` that
  commands go to the plan's panel; and the last conjunct (`Grasped`) that a claim of
  a job of unknown effect is held only for its worker, or for one that gave up;
* `ResumerInv`: the resume removes files only of a job that is of unknown effect and
  that nobody holds.

`MutationOnce` follows from `AtOperation`: at each operation the commands so far are
among those of the operations before it (`Below`), although `asked` is a ghost that no
guard reads. That this survives a crash is what quarantine is for: a receipt in an
early phase has asked for nothing, and a receipt in any later one is never worked
on by another worker.

A step of one task disturbs the others' jobs only as `Elsewhere` allows
(`WorkerElsewhere`, `ResumerElsewhere`, `FlowsElsewhere`, ...), and `Bystander` shows
once that this preserves `JobInv`. A worker's own steps are summed up by the
memory it leaves (`Proceeds`), and proved in the order of the code: claiming, the
phase loop, cleaning up, authority and barrier, command and answer, transitions.

*What a worker keeps.* The inductive invariant of the last four adds `CalmInv`: each
job is excused, or (`Calm`) its worker past its claim still has it as long as the job
is claimable (`Backed`), a receipt with the revision seen is the receipt seen
(`Dated`), the file is there as long as it may be needed (`Supplied`), and a worker
that lost a race for its claim, or gave up, was overtaken by a cancel request
(`Raced`). The argument is that a step which drops the manager's memory excuses every
worker (`QuietOrHindered`); that among the others only a barrier is refused, and only
if the receipt has moved on (`TaskQuiet`, `BarrierHolds`); so the claims of the
others survive all calls (`ClaimKept`), a resume therefore finds none of its kind
(`ResumerSteady`, and `CalmCancelled` when it is cancelled while it cleans), and a
transition is refused only to a worker that was overtaken (`MoveIsAdmitted`). A
worker that begins after a failed call is not excused by it, since it claims again;
this is why `CalmInv` is inductive whatever fails. Under `~CallsMayFail` nobody is
ever excused (`UnhinderedStays`), which gives the last two.

The view `Outlines` of `exec_two_jobs` keeps of a finished receipt its revision
and generation, and leaves out how it ended, the ghost `asked`, and a command that
was acted upon and that no worker waits for. No guard reads those (`Answer` and
`PanelActs` read only the commands the view keeps) and none of that run's
properties does, so no state is lost that a property could tell apart.

## 5. Finalization: `Finalizer`

A healthy receipt becomes a config entry in one of two ways. A config flow takes
the job's lease, proves once more that the panel at the pinned address is the one
that was installed on, creates the entry, and consumes the receipt from
`async_on_create_entry`. Or the setup of an entry that has the panel's address
anyway (`_async_reconcile_install_receipt`) takes the lease and settles the
receipt. A user may submit the form twice, close the dialog at any time and open
another; a browser that hangs up cancels the submit at whatever it awaits.

### State and actions

| TLA+ | code |
|---|---|
| `receipt[j]` | phase of the durable receipt: still worked on, healthy, consumed, or sent to recovery |
| `entry[e]` | address of a config entry; `gone` once removed |
| `lease[j]` | `InstallExecutor._finalizers` |
| `flow[f].job`, `.owner`, `.exec`, `.deferred`, `.retried`, `.release` | `_finalizer_job_id`, `_finalization_owner_task`, `_install_executor`, `_release_after_finalization`, `_removed_release_retry_started`, `_finalizer_release_task` of one flow object |
| `task[f, s]` | a running `async_configure` of that flow: where it awaits, its job, and how it goes on after the release it waits for |
| `setup[e]` | a running `async_setup_entry` |
| `faults` | releases that have raised in this process, bounded by `MaxReleaseFaults` |

| actions | code |
|---|---|
| `ReadReceipt` with `Enter`, `Reserve`; `Resume` | `async_step_install_result`, `_async_finalize_healthy_install` before and after the release of a previous owner |
| `LoadExecutor`, `AcquireLease` | first half of `_async_finalize_healthy_install_locked` |
| `ProofFails`, `Refuse`, `CreateEntry` | its proof and its last look; network, credential, ADB and health checks are one verdict |
| `RejectHealthyReceipt` | `_async_reject_healthy_receipt` |
| `EntryAdded`, `OnCreateEntry` | Home Assistant's add, then `async_on_create_entry` |
| `Cancel` | the `CancelledError` handlers around all of it |
| `RemoveFlow`, `FinalizationDone` | `async_remove`, `_finalization_done` |
| `Releasing`, `RunRelease`, `Kept`, `Tell` | `_ensure_finalizer_release_task`, `_async_run_finalizer_release`, `_finalizer_release_done`, the waiters of `_async_release_finalizer` |
| `ListReceipts`, `SetupAcquires`, `SetupSettles`, `SetupReleases`, `CancelSetup` | `_async_reconcile_install_receipt` and its drained release |
| `ConnectFound` | another flow's `_async_create_panel_entry` |
| `OpenFlow`, `Submit`, `StartSetup`, `RemoveEntry`, `Crash` | Home Assistant |

Every `await` at which something else can happen ends an action. Home Assistant
is modelled from how the code uses it: an aborted or finished flow is removed
(`async_remove`), a form keeps it, an added entry is set up before
`async_on_create_entry` is called, and any served request may be cancelled.

Abstractions:

* A job stands for its address: unfinished receipts never share one
  (`ActiveTargetsDisjoint`, proved). Of a receipt the phase is enough: a healthy
  one is never rewritten as healthy (`HealthyWaits`, proved), so a transition
  with the revision read while healthy succeeds exactly if it still is.
* A release task and its done callback are one step (`RunRelease`): nothing
  that waits for the task resumes before the callback, since the callback was
  registered first.
* `Prompt`, and the guard of `RunRelease` on `acquire`, are the event loop's and
  the lock's order: a submit whose release has finished goes on before a call
  begun later returns, and the executor's lock is first come, first served.
* `FinalizationDone` stays possible while its callback would have found a
  release running; `.retried` and the release's own end disable it exactly when
  the callback's two tests would.

### Properties

| property | says | would be broken by |
|---|---|---|
| `ProvenUnderLease` | proving, rejecting and creating happen under the job's lease | `async_remove` releasing at once |
| `OneFinalizer` | no two submits, flows or setups finalize one job at a time | granting a lease that somebody else holds |
| `NoOrphanLease` | a flow that holds a lease remembers it | forgetting the lease when its release raises |
| `AddressUnique` | no two entries of one address | not looking again after the proof |
| `RemovedLetsGo` | a removed flow lets go of every lease | trying a failed release again without remembering to |
| `Handoff` | once a flow has made an entry, the receipt is settled | leaving the receipt to the setup of the entry, which has found the lease taken |

`FinTypeOK` (shapes; a flow with an owner has a job and the other way round),
`EntryFromHealthy` (an entry is made out of a receipt that is healthy then) and
`SettledUnderLease` (a healthy receipt is settled under its lease) are stated and
proved below, and checked by no run of their own.

### Runs

| run | instance | states | why it is enough |
|---|---|---|---|
| `fin_flows` | 1 job, 2 flows with 1 submit, 2 entries, 1 failing release, no store faults, no interruptions, under `FairFinSpec` | about 158,000 | two flows and two entries are what the lease and the address exclude; a faulty store or a dead process may leave the receipt for a later setup, so `Handoff` is for the rest |
| `fin_hangups` | 1 job, 2 flows with 1 submit, 1 entry, store faults, 1 failing release, interruptions, under `FairFinSpec` | about 130,000 | every await is cancelled, and the process dies, everywhere; the code tries a removed flow's release twice, so one failure is what it must survive |
| `fin_cancel` | 1 job, 1 flow with 2 submits, 1 entry, interruptions | stops at the violation | see below |

Two submits of one flow, which a flow's owner excludes, are in `fin_cancel` and, for
any number of them, in `OneFinalizerTheorem` and `LeaseTheorem` below.

Deadlock is checked where the process may always be restarted. In `fin_flows`
it is off: once every dialog is closed and every entry used,
nothing has to happen.

Fairness: the steps of a submit, of a flow's releases and of a setup are weakly
fair each. What they await returns: locks are held over one file access, probes
run under timeouts, and release tasks are tracked by Home Assistant. Users,
browsers, the panel and the process owe nothing.

### A disagreement between comments and code

`config_flow.py:1036` promises the proof "under the process-wide finalizer
lease", and `async_remove` (1238) defers its release because "releasing while
read-only final verification is still in flight would allow a second flow to run
concurrently". The handler of a cancelled submit (1029) has no such care: it
releases whatever lease the flow remembers at that moment. In `fin_cancel` one
submit waits for its release and is cancelled just after that has finished; a
second submit of the same flow has reserved the lease in between. The handler
then schedules a release of the second submit's lease, which runs as soon as
that submit has been granted it and is proving. Another flow or a setup can take
the lease, and the flow has forgotten the job when the entry is created, so the
receipt is left to a later setup. `AddressTheorem` shows what remains: there are
never two entries of one address.

### Proofs

`FinalizerProofs`, for any number of jobs, flows, submits and entries.

Without a further assumption:

* `FinTypeCorrect`, `NoOrphanTheorem`. The inductive invariant `FInv` adds to the
  types that a flow releases only what it remembers and only with an executor
  (`Sane`), and that a submit on its way to the lease is the owner its flow
  remembers, for the job it remembers (`TaskOK`): a lease granted to anybody else
  would be an orphan. `Leaves` says what a submit's departure, however it comes,
  may do to the memory of its flow.
* `AddressTheorem`: both ways to an entry look and add in one step.

Under `Calm`, that is if the submits of a flow come one at a time or nobody
cancels them, which `fin_cancel` shows to be needed:

* `LeaseTheorem`, `OneFinalizerTheorem`, `EntryTheorem`, `SettledTheorem`. `LInv`
  adds the `Claims`: from its reserve on a submit is the owner and no release of
  the flow is under way. That is what a release of somebody else's lease would
  break, and what keeps `RunRelease` and the lease of a working submit apart.
  The receipt stays healthy under a proof since every way to settle it needs the
  lease (`SubmitSettles`, `SetupHolds`).

`RemovedLetsGo` and `Handoff` are liveness and stay model-checked.

## 6. Custody: `InstallArtifacts`

`InstallExecutor` assumes that a job's local custody is empty, a partial, or a
verified file, and that one call changes it in one step. This module opens that
step: it models the files, the threads that touch them and the coroutines that
wait for the threads.

### State and actions

| TLA+ | code |
|---|---|
| `part`, `ready` | the `.apk.part` and `.apk` names of the directory |
| `data`, `open` | files with the state of their contents (short, exactly the signed bytes, or anything else), and the descriptors the process holds |
| `op[s]` | a worker given to the thread pool: `_WorkerOutcome`, and the thread's next access to the directory |
| `call[c]` | a running call: which worker it awaits, its `file_fd`, and whether it was cancelled or timed out meanwhile |
| `loaded` | `async_get_install_executor` has reconciled the directory |
| `residue` | ghost: partials left by a crash or by a disk that refused to unlink |

| actions | code |
|---|---|
| `Start`, `Abort` | the claim of a worker in `_run_worker`; `_abort_queued_worker` |
| `Look`, `HashReady`, `Create` | `_prepare_destination` |
| `Put`, `Close` | `_write_all`; `_finish_file` and the close in `_abandon_partial` |
| `Check`, `HashPartial`, `Replace`, `Rehash`, `Undo` | `_promote_partial` |
| `PartStat`, `Unpart`, `ReadyStat`, `Unready` | `_remove_owned_files` |
| `Reconcile` | `_reconcile_install_artifacts` |
| `StartDownload` ... `Promoted` | `_async_download_artifact`, one action per await |
| `Abandoned`, `Dropped` | `_async_cleanup_executor`, for a download that failed and for a prepare that was cancelled |
| `Cancel`, `Expire`, `Crash` | a cancelled task, the 180 seconds, the end of the process |

Abstractions:

* One access to the directory by a thread is atomic; between two accesses
  anything may happen.
* The checks of ownership, mode, links and inode are among the ways a step may
  fail (`DiskFaults`). Bytes do not decay once written; a failing disk may have
  written something else.
* A descriptor stands for the file it was opened for. That closing one and then
  using it would hit another file is why `DescriptorsOwned` matters.
* A crash is one of the process, not of the operating system: what was written
  is there. The calls to `fsync` are failures only.
* Each job has one download at a time, which is what the executor's one worker
  per job amounts to; cleanups may run beside it. The reconciliation runs alone,
  before any other call of its process.

### Properties

| property | says | would be broken by |
|---|---|---|
| `ReadyIsWhole` | a ready file holds exactly the signed bytes, and no partial lies beside it | trusting the digest of the stream and not hashing again |
| `PartialAccounted` | a partial belongs to a running download, unless a crash or the disk left it: "BUSY at a safe durable phase is residue" (`install_executor.py:678`) | a thread that starts a worker already cancelled |
| `DescriptorsOwned` | shapes; no thread uses a closed descriptor, and each descriptor is known to the call that opened it, or held by the worker it awaits | going on when cancelled instead of waiting for the thread |
| `CancelHeard` | a cancelled call ends cancelled | forgetting a cancellation while waiting |
| `CustodyKept` | files, threads, cancellations and the pool implement `InstallCustody` (below) | a reconciliation that ignores the list of jobs to keep |

`InstallCustody` is the custody as its callers see it. A job holds nothing, a
partial or the whole signed APK (`held`); a call asks for a download, a cleanup or
a reconciliation and is answered (`deed`); `stale` are the jobs whose partial a
crash or a failing disk left. `Touch` is the only step that changes what a job
holds, between the question and the answer of a call for it (or of a
reconciliation that was not told to keep it), along the moves its kind allows: a
job comes to the whole APK through a partial of a download and not otherwise, and a
download does not lose it on a disk that works. `Answer` is the other half: each
answer is true when it is given. If no other call touched the job, `ok` means that
the whole APK is there (or, for a cleanup, nothing), `busy` that a partial is, and
`failed` of a download on a working disk that nothing is left; a partial that
stays behind any answer of a download is stale. Cleanups and reconciliations fail
only with the disk.

`CustodyKept` is `InstallCustody` under the mapping of `HeldOf` (a partial counts
before a ready file, a ready file for what is in it) and `DeedOf` (a call without
where it awaits). The half of it that concerns reconciling alone is the action
property `ReconcileExact`, which is proved as well.

`InstallExecutor` relies on it so: `Acquire` and `Fetch` on the download's moves,
`ok` and `failed`; `Unpart` on `busy`; its cleanups on the answer of a cleanup;
`Boot` on that of a reconciliation, which may have removed some names when it fails.

### Runs

| run | instance | states | why it is enough |
|---|---|---|---|
| `art_pool` | 1 job, 2 calls, disk faults, 1 worker cancelled in the queue, crashes | about 1,900,000 up to symmetry | a download and a cleanup race at every access, and every access may fail; one lost worker is what each place that waits must survive; the job is to be kept or not, and the reconciliation treats each job by itself. The run also follows `InstallCustody` step by step |

Slots of the pool are never scarce: the assumption on `Slots` says that there is
one for each call and each lost worker. A pool that is full only delays `Start`.

That every call ends is not checked: on this instance liveness is beyond TLC's time.

### Proofs

`InstallArtifactsProofs`, for any number of jobs, calls, files and lost workers, on a
disk that may fail at every access: `ReadyIsWholeAlways`, `PartialAccountedAlways`,
`DescriptorsOwnedAlways`, `CancelHeardAlways`, `CustodyKeptAlways` and
`ReconcileExactAlways`. The inductive invariant `ArtInv` (`ArtSafe`) says who holds what:

* `CallInv`, `OpInv`, `ApartInv`: a call awaits exactly the worker its place names, with
  the descriptor it gave it; a worker that nobody awaits was cancelled in the queue,
  and no other is; two calls share no worker, and no two downloads a job;
* `FilesInv`: what has the ready name is whole and alone;
* `HeldInv`, `OpenInv`: a descriptor is the matter of one call (`Held`: its own, or the
  one that the worker it awaits has opened or has not closed yet), is open as long as
  it is, and its file has no name but the job's partial;
* `PartInv`: a partial without residue belongs to a download that is past its creation
  and not past its removal (`Carries`);
* `StageInv`: what a worker relies on between two of its accesses, that is what
  nobody else may do in between;
* `Heard`, part of `CallInv`: where a cancellation is remembered until it is raised;
* `LoadInv`: a reconciliation has the directory to itself, so the files it does not
  have to keep belong to nobody.

A step of a thread and the step of the call that goes on are different actions, and
most of the proof is that what the thread did while nobody looked (`Serves`) is what the
call expects (`Handles`).

The refinement (`CustodyKeptAlways`) needs to know, at the moment an answer is given,
what the job holds, which several steps of a thread have found out long before. That is
`TellInv`: what each worker's place and result tell of its job while its call has the
job to itself (a prepare that found a partial: it is there; a removal past the partial:
that is gone; a failed abandon: the disk is to blame), and the little that holds also
beside a cleanup. It is inductive with `ArtInv`. The proof has two halves: the steps of
the calls are an answer, a question, a departure or nothing to the promise (`Told`,
`Asked`, `Unseen`), and those of the threads at most a `Touch` of their own job that
leaves what every other worker tells as it is (`Works`), because a worker beside it
either belongs to a call that is not alone or to a cleanup, which only removes.
`StepHonest` puts them together.

`Create` draws its file from those that do not exist (`Spare`)
and is possible only while there is one: a directory's supply is not bounded, the
constant `Files` may be. The assumptions are `ArtifactsAssumption` and `NoneIsApart`.

### Two limits of the guarantees

* A cancelled download whose partial the disk will not unlink raises the disk's
  error, since `_async_abandon_partial` raises before the `raise` that would
  repeat the cancellation. The task is then not cancelled. `CancelHeard` makes
  exactly that exception.
* If the pool cancels the queued `_finish_file`, the download has already set
  `file_fd` to `None` in its `finally` and abandons the partial without closing
  it. The pool only does so when Home Assistant is about to end, so
  `DescriptorsOwned` asks who knows a descriptor only while no worker was cancelled
  in the queue; that no closed one is used holds always.

## 7. Calls over ADB: `InstallAdb`

`InstallExecutor` takes an ADB session to be one of three verdicts: refused before
it changed the panel, unknown, or understood. This module opens the session: one
panel, the calls of `install_adb.py` on it one after the other, and a panel that
others change meanwhile. Its point is that a code which is not among those the
executor takes for ambiguous says the truth.

### State and actions

| TLA+ | code |
|---|---|
| `panel` | what the commands can show of it: the application, the staging slot and how much of a file is in it, the root mode, the Android version |
| `host`, `moves` | does the panel of the receipt answer at its address; bounds what others do |
| `phase[j]`, `mode[j]` | what the executor made of the job's answers, and the root mode in its receipt (`preflight_root_mode`) |
| `call` | the running call: its operation, where it awaits, a cancellation or timeout it drains, its code |
| `fd`, `link` | the descriptor of the local APK and the thread that opens it; the connection |
| `cmd[j]` | the command that changes the panel: sent, done, refused, failed |

| actions | code |
|---|---|
| `PreflightSteps` ... `CleanSteps` | the order of the proofs in `async_preflight_install`, `async_verify_installed_target`, `async_stage_apk`, `async_install_staged_apk`, `async_launch_installed_app`, `async_cleanup_staged_apk` |
| `OpenApk`, `TakeApk`, `Opened` | `_open_verified_apk` in its thread, `_async_open_verified_apk`, `_async_wait_for_completion` |
| `Connect`, `Close` | `_async_connect`, `_async_close` |
| `Admit`, `ProvePosture`, `Vacant`, `Artifact`, `Check`, `Package` | the parsers of the replies, by the facts they demand |
| `Send`, `Answer` | the mutating command and its framed reply; `mutation_started` is set just before |
| `Garble`, `Break`, `Expire`, `Cancel` | a reply that cannot be used, an exception of the connection, the timeout around the call, a cancelled task |
| `Start`, `Return`, `Crash` | the executor's part: which call comes next, and what becomes of the job, also after a restart |
| `PanelActs`, `OwnerActs`, `PanelMoves` | the panel carries out a command, now or later; its owner; a restart in another root mode, or another panel at the address |

Abstractions: an exchange that only reads sees the panel at one moment. The five
dialects of `su` are one proof that succeeds or is unclear. Arguments are valid
(`_validate_request` refuses the others before anything is done). What a shell of the
panel runs outlives the connection; a file transfer ends with it and leaves what
has arrived. A panel that restarts, or that another one replaces, takes the
connection along, so that no command reaches another panel than the one proved on
its connection; that a call proves anything before it sends is what is checked.

### Properties

| property | says | would be broken by |
|---|---|---|
| `AdbTypeOK` | shapes; between calls no descriptor and no connection is open | going on when cancelled instead of waiting for the thread that opens the file |
| `OverIsClean` | a job that ended definitely has left nothing in the slot and, but for a failed launch, no application; what may still be carried out is awaited or its job quarantined | counting a failure of the check after the push as one before the mutation |
| `NotReplaced` | no command replaces an application, whenever it was installed and however late the command runs | `--no-replace` only after Android 9, not from it on |
| `SentToTheRightPanel` | every command goes to the receipt's panel in the admitted root mode, a push into an empty slot | a cleanup that trusts the proofs of the call before |
| `CallsReturn` | every call returns | waiting for the file to be opened well |

| run | instance | states | why it is enough |
|---|---|---|---|
| `adb` | 2 jobs, Android 8.1 and 9, 1 move by others, under `FairAdbSpec` | about 550,000 | every call meets every interruption at every await; the default of `pm install` changes at Android 9; a second job finds what the first left; one move is what can come between a proof and a command |

Fairness: coroutines and threads go on (`CallStep`) and timeouts pass (`Expire`).
A panel owes no answer. Deadlock is checked.

Only `verify` has no ambiguity to report: it changes nothing. After a launch whose
outcome is definite but whose application is later found missing the executor
quarantines the job (`TARGET_CHANGED`, `ROOT_MODE_CHANGED` are in its list of
unknown outcomes after a launch), which `AfterLaunch` repeats.

### Proofs

`InstallAdbProofs`, for any number of jobs, any Android versions and any number of moves
by others: `AdbTypeCorrect`, `OverIsCleanAlways`, `NotReplacedAlways`,
`SentToTheRightPanelAlways`. The inductive invariant `AdbInv` (`AdbSafe`) follows a job
through its calls:

* `JobInv`: in each phase what lies in the slot and whether the application is the job's,
  unless the call under way may be changing just that (`Doing`);
* `CmdInv`: a command that is not answered belongs to the call that awaits it or to
  a quarantined job, and what it can still do if the panel acts on it late;
* `ProvenInv`: what a call has proved on its connection holds as long as that is up,
  since whatever would change it takes the connection along;
* `CallInv`, `ModeInv`, `CustodyInv`: the executor asks only for calls that the phase
  wants, with the root mode it has admitted, and descriptors and connections are
  open only at the steps that use them.

`OverIsClean` is not inductive without `CmdInv`: that an old command cannot fill a slot
which a definite answer has found empty is the point of classifying answers at all.

## 8. The ADB key: `AdbCredentials`

A panel's owner confirms the integration's key once on the panel's screen. If a
second key replaced it, every panel would have to be confirmed again, and jobs under
way would lose their access. The manager holds a lock from the first look at the
store until the key it hands out has been read back.

### State and actions

| TLA+ | code |
|---|---|
| `file`, `aside` | the store's file: a key, damaged, or none; a damaged one set aside beside it (`*.corrupt.*`) |
| `writing` | keys that threads of Home Assistant's `Store` are about to write |
| `stopping` | `CoreState.stopping` or `final_write` |
| `lock`, `cached` | `_lock`, `_credential` |
| `call[c]` | a call of `async_get_credential` or `async_get_durable_credential` |
| `ondisk`, `got[c]` | ghosts: every key the file has held; the key a caller was given |

| actions | code |
|---|---|
| `Enter`, `Look` | the lock; `_store_presence` |
| `Make`, `Save`, `Saved`, `SaveCut`, `Relook`, `Reread` | `_generate_credential`, then `_async_persist_locked`: the save, the second look and the read-back, each drained |
| `Read` | `_read_durable_credential` |
| `Cancel`, `End` | the `except` clauses of both calls |
| `Write`, `Stop`, `Crash`, `Damage`, `SetAside` | the `Store`'s thread, which may fail without telling; Home Assistant; the disk |

What a key consists of, its encoding and the ownership and mode of the file are in
`file` being a key or `"damaged"`. Home Assistant starts no new integration work
once it has left its final-write stage.

### Properties and runs

| property | says | would be broken by |
|---|---|---|
| `OneIdentity` | the file never holds a second key | leaving a cancelled save before its thread is done |
| `GivenIsDurable` | nobody is given, and nothing remembers, a key the file has not held | trusting the save instead of reading back |
| `CallsEnd` | every call ends | waiting for the file to have the key |

| run | instance | states | why it is enough |
|---|---|---|---|
| `credentials` | 2 callers, 3 keys, under `FairCredSpec` | about 14,000 | two callers are what a lock excludes; two generations that come to nothing and a third that succeeds |

Fairness: threads finish (weak fairness of `Write`); a call goes on and the lock,
which serves its waiters in turn, is not withheld for ever (strong fairness of
`CallStep`). Deadlock is checked.

### Proofs

`AdbCredentialsProofs`, for any number of callers and keys: `CredTypeCorrect`,
`OneIdentityTheorem`, `DurableTheorem`. `OneIdentity` alone is not inductive. `CredInv`
adds

* `MakersAlone`: while Home Assistant runs, whoever is about to make or save a key
  has the place vacant: no file, nothing set aside, no thread writing;
* `WriterAlone`: a thread that is about to write is the only one, and nothing is in
  its place, neither a file nor one set aside;
* `WriterAwaited`: while Home Assistant runs, the holder of the lock waits for the
  thread, for exactly its key. This is what the drained save gives, and what
  leaving it early would break;
* `DiskKnown`: an empty place without a file set aside has never held a key.

When Home Assistant stops, `SaveCut` lets a call leave its thread behind, so the
first and the third are stated only while it runs. The second holds throughout: once
Home Assistant stops nothing more is handed to a thread.

## 9. Browser delivery: `BrowserCache`

An administrator's browser that installs over USB lists the releases, asks Home
Assistant to prepare one, and streams its APK. Bundles are shared, at most two, and
expire; responses pin them.

### State and actions

| TLA+ | code |
|---|---|
| `file[b]` | what the directory has of a bundle |
| `entry[b]` | `_entries` with user, release, expiry, `leases`, `retiring` |
| `busy`, `initialized`, `failed`, `closed` | the flags of `BrowserReleaseCache` |
| `task[t]` | a request's handler, or the stop listener: what it awaits, its reservation or lease, what its reap still has to look at, a cancellation not yet raised |

| actions | code |
|---|---|
| `Admit`, `StartCatalog`, `StartPrepare`, `StartApk` | `async_admit` and the views |
| `Selected` ... `Discarded` | `async_prepare`, one action per await |
| `Leasable`, `Released`, `Read`, `Sent` | `async_lease` and the response inside |
| `Reap`, `ReapNext`, `Cleaned`, `Reaped` | `_reap`, `_cleanup` in their drained tasks |
| `Cancel`, `Stop`, `Gathered`, `Close` | cancelled handlers; `async_stop`, `async_close` |
| `Expire`, `Crash` | the clock, the end of the process |

Abstractions: a bundle may expire at any moment. A thread's effect on the directory
is seen when its worker is done, and a download is absent, partial or whole;
`InstallArtifacts` has what lies below. A request that is refused at once (a third
one, a foreign or expired bundle) leaves no trace and is no action. The pool's
shutdown is left out.

### Properties and runs

| property | says | would be broken by |
|---|---|---|
| `BrowserTypeOK` | shapes; `_busy` has exactly one owner; a bundle has as many leases as responses stream it | a response that reaps at its end whoever is busy |
| `LeasedStays` | what is streamed is neither removed nor retired | reaping what is due without counting leases |
| `NothingUnowned` | while no cleanup has failed every file has an entry or is being prepared, never more than two; a stop finds the cache idle and leaves nothing | giving up a download without discarding its reservation |
| `ServiceLetsGo` | the cache is never left busy, and a stop comes to its end | trying a failed cleanup again |

| run | instance | states | why it is enough |
|---|---|---|---|
| `browser` | 2 requests, 2 users, 1 release, 3 bundles, disk faults, under `FairBrowserSpec` | about 135,000 | two requests are what is admitted; two users keep two bundles, the bound; a third identifier is what a new reservation draws while both are full |

Fairness: each task's step and `Close` are weakly fair: they await threads, other
tasks, or something under a timeout (a resolve, a download, 60 seconds for a
response). Clients owe nothing. Deadlock is checked.

A cleanup that fails sets `_failed`, after which the cache refuses everything until
the process ends; that is the code's own answer to a directory it no longer knows,
and why `NothingUnowned` speaks of the time before.

### Proofs

`BrowserCacheProofs`, for any number of requests, users, releases and bundles and a disk
that may fail at every step: `BrowserTypeCorrect`, `LeasedStaysAlways`,
`NothingUnownedAlways`. The inductive invariant `BrowserInv` (`BrowserSafe`) says

* `LatchInv`: the latch is taken exactly when one task is between taking and giving it;
* `TaskInv`: what a task relies on after an await (the bundle it cleans is retiring, the
  one it reserves has no entry, the one it leases is not retiring);
* `EntryInv`: an entry that is not retiring has a whole file, and as many leases as
  there are responses; a retiring one has none;
* `RoomInv`: a reservation leaves room for its entry;
* `KeptInv`: until a cleanup fails, a file has an entry or a reservation;
* `StopInv`: after the stop has gathered the requests there is nobody else, and what is
  left is on its list.

The cardinality arguments (leases, capacity) rest on `FiniteSetTheorems`. `NoneIsApart`
is the only assumption beside those on the constants.

## 10. The update entity: `UpdateEntity`

The entity shows which build a panel runs and installs another. Without a build
feed it asks the panel to install the stable update the panel itself offers, and
one observer waits for the new version. With a feed it backs the panel up, uploads
and commits a build, and waits until the panel runs exactly that. Polls tell builds
apart by version name and build string; the number of the build is read by a task
of its own whenever these change.

### State and actions

| TLA+ | code |
|---|---|
| `panel`, `accepted` | the build it runs, and the one its operation installs; how many operations it took up, at most `MaxAccepted` |
| `feed` | `_feed`: is a build feed configured? |
| `seen`, `opSeen` | the last answers of the two coordinators of the panel |
| `code`, `key`, `reading` | `_installed_code`, `_code_key`, `_code_task` |
| `latch`, `observer` | `_attr_in_progress`, `_observer_task` |
| `call[i]` | a running `async_install` |
| `unlatched` | ghost: an observer ended in the middle of a delivery |
| `crossed` | ghost: whether the panel was replaced since the last poll, between the poll a read was started for and its answer, between the poll that gave `key` and the answer that gave `code`, and after the poll a waiting call goes by |

| actions | code |
|---|---|
| `Poll`, `ReadAnswered`, `ReadDone`, `ReadFails` | `_handle_coordinator_update`, `_refresh_installed_code`, `_async_read_installed_code` |
| `OpPoll`, `Observe`, `ObserverEnds`, `ObserverProves`, `ObserverExpires` | `_resume_running_operation`, `_start_observer`, `_run_observer`, `_async_wait_for_installed_version` |
| `StartStable`, `Accepted`, `Started`, `StableFails`, `Cancel` | `async_install` without a feed |
| `StartFeed`, `Refreshed`, `Deliver`, `WaitSees`, `Proved`, `ProofFails`, `DeliveryFails`, `Leave` | `_async_install_feed_build`, `_async_deliver_feed_build`, `_async_wait_for_build` |
| `OperationEnds`, `OwnerInstalls` | the panel, its owner |

Abstractions: a poll is one step, and one that fails leaves what was seen. A
deadline may pass at any time. The bytes of backup and build are left out: whatever
is wrong with them, their step fails. The panel goes to a later build or to an
earlier one: a build asked for by its number may be older
(`tests/test_feed_update.py:336`), and nothing binds the owner. Whether the last read
of the feed had succeeded, which `_feed_mode` asks, is a free choice wherever it is
asked, and so is what the feed offers. All state but the panel's is in memory, so a restart is a new behaviour: a
behaviour begins with the panel at whatever it does.

### Properties and runs

| property | says | would be broken by |
|---|---|---|
| `CodeMatchesKey` | the number recorded under the key of a build is that build's, by whichever of the two readers, unless the panel was replaced between the poll that gave the key and the answer that gave the number | recording a late answer under what is seen by then |
| `OneDelivery` | two deliveries are under way at once only after an observer has taken the latch | not looking again after the feed was refreshed |
| `ShownEventually` | once the panel stays what it is the entity shows it, however many answers were lost or belonged to another build, unless one of another build is recorded under this build's own key | reading only once |
| `LatchReleased` | the entity does not stay in progress | an observer that lets go only when it succeeds |

| run | instance | states | why it is enough |
|---|---|---|---|
| `update` | 3 builds, one of them stable, 2 calls, 1 operation beside the one the panel may be at when Home Assistant starts (`MaxAccepted`), under `FairUpdSpec` | about 312,000 | two internal builds share a version name; the third has one of its own; two replacements take the panel to another build and back while one read is under way; two calls are what the latch excludes |

Fairness: polls come again and again, and deadlines pass; reads may fail, but not
for ever (strong fairness of `ReadAnswered` and `ReadDone`). The panel owes nothing:
its operation may never end. Deadlock is checked.

### What the model shows of the code

* A late answer can be recorded under the key its read was started for. As a rule the
  next poll brings another key, and the number is read again. Not so when the panel is
  replaced while the read is under way and is taken back before the next poll: a read
  is begun when a poll shows build 1, the panel goes to build 2 of the same version
  name and answers 2, and 2 is recorded under the key of 1. Once the panel is back at
  1, each poll shows the recorded key, and `_refresh_installed_code` (`update.py:157`)
  does not read again, although `_handle_coordinator_update` says it will "Re-read the
  build number whenever the app on the panel changes" (`update.py:147`). The entity
  then shows 2, and refuses to install 2 as installed already, until a poll shows
  another build or the entry is loaded again. Two replacements between two polls make
  this rare; `crossed` marks exactly the reads in which it starts, and
  `CodeMatchesKey` and `ShownEventually` say that it is the only way to a wrong
  number. Without the exception in `ShownEventually` TLC prints these steps.
* `_run_observer` clears `_attr_in_progress` when it ends (`update.py:234`), also
  when a delivery has set it. An operation that a poll finds in the panel is
  observed, and in the middle of a delivery it may be the delivery's own; the
  second call the flag should have kept out is then admitted. `OneDelivery` states the
  exception.
* In feed mode an observer never proves its version, since the version shown then
  carries the number of the build; it ends by its grace or deadline, unless a read of
  the feed fails meanwhile.

### Proofs

`UpdateEntityProofs`, for any builds and any number of calls: `UpdTypeCorrect`,
`CodeTheorem`, `OneDeliveryTheorem`, with no assumption on the order in which builds
follow each other. `UpdInv` adds `Attributed` and `DeliveryLatched` (a delivery holds
the latch, unless an observer has taken it). `Attributed` goes by the ghost `crossed`:
unless the panel was replaced since the last poll, what was seen is what it runs;
unless it was replaced since a read's poll, an answer is of the read's own key; the
same of a call that waits, whose answer is recorded under what its poll saw; and so
of what is recorded. A poll that starts no read leaves the running one its crossing,
which is the step the ghost has to get right.

## 11. Not proved, and not modelled

Model-checked only: liveness (`TasksEnd`, `Handoff`, `RemovedLetsGo`, `CallsReturn`,
`ServiceLetsGo`, `CallsEnd`, `ShownEventually`, `LatchReleased`), which is out of the
prover's reach. Every invariant and every action property of the runs that
expect no violation is stated by a theorem. `LiveArtifactKept` and `OneHandPerPanel`
are proved under `~CallsMayFail`, the finalization's exclusions under `Calm`, `KeepsPromise` and half of `ProgressIsStamped` under `SteadyClock`;
each is a value that the code's environment may have, and the run that checks the
property has it too. Sections 3 to 5 say why it is needed.

Not modelled:

* the browser installer (`frontend/src/*.mjs`): its receipts in IndexedDB and its USB
  transactions run in another program; they are what is left of the plan;
* an entry that is reloaded in the middle of a delivery, overlapping polls, and the
  device page's own observation (`upgrade_observation.py`);
* the steps of the config flow before finalization, which keep only what the user
  has chosen in one flow object, and Home Assistant's service registration and
  platform forwarding;
* the network policy (`install_network.py`), plans and consent (`install_plan.py`,
  `provisioning*.py`), release metadata (`release*.py`) and the build feed's parser:
  verdicts and parsing without state between calls, which the steps that ask for
  them may fail by;
* polling and rendering (`client.py`, `status.py`, the other entities), the panel
  frontend, and repository automation.
