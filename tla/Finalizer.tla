----------------------------- MODULE Finalizer -----------------------------
(***************************************************************************)
(* From a healthy install to a config entry (config_flow.py, the lease of  *)
(* install_executor.py and the receipt reconciliation of __init__.py).     *)
(*                                                                         *)
(* A healthy receipt waits for somebody to finalize it: a config flow that *)
(* proves the panel once more and creates the entry, or the setup of an    *)
(* entry that already has the panel's address.  They exclude each other by *)
(* a lease that the executor keeps per job.  A flow may run two submits at *)
(* once, may be removed, and its task may be cancelled, at any await.      *)
(*                                                                         *)
(* Abstractions: a job stands for its panel's address, since unfinished    *)
(* receipts never share one (ActiveTargetsDisjoint of InstallJobs); of a   *)
(* receipt only the phase is kept, since a healthy one is never rewritten  *)
(* as healthy (HealthyWaits of InstallJobs), so that an expected revision  *)
(* is current exactly if the phase still is; the network, credential, ADB  *)
(* and health checks are one verdict; a call that has a task for itself    *)
(* and its done callback are one step, since nothing that waits for the    *)
(* task resumes before the callback.                                       *)
(*                                                                         *)
(* A definition marked "mutant" is a faulty variant of the one below it;   *)
(* nothing uses it.  PROJECT.json names the property that tells them apart.*)
(***************************************************************************)
EXTENDS Naturals

CONSTANTS
    Jobs,              \* the jobs; each also stands for its address
    Flows,             \* config flows
    Submits,           \* how many submits of one flow may run at once
    Entries,           \* config entries the user may ever have
    None,
    StoreFaults,       \* may calls on the receipt store fail?
    Interruptions,     \* may clients hang up, and the process die?
    MaxReleaseFaults   \* how many releases may fail in one process

----------------------------------------------------------------------------
(* What a flow remembers of its lease: _finalizer_job_id,                  *)
(* _finalization_owner_task (a submit, or one that is done),               *)
(* _install_executor, _release_after_finalization,                         *)
(* _removed_release_retry_started and _finalizer_release_task.  What a     *)
(* submit remembers: its job, the entry it makes, and how it goes on when  *)
(* the release that it waits for is over.                                  *)

Pcs ==
    {"read", "executor", "acquire", "prove", "reject", "adding", "created",
     "release", "released", "unreleased"}

Nexts == {"form", "abort", "enter", "finish", "raise"}

FlowMemory ==
    [state : {"open", "removed"}, job : Jobs \cup {None},
     owner : Submits \cup {"done", None}, exec : BOOLEAN,
     deferred : BOOLEAN, retried : BOOLEAN, release : Jobs \cup {None}]

TaskMemory ==
    [pc : Pcs, job : Jobs, next : Nexts, entry : Entries \cup {None}]

ASSUME FinalizerAssumption ==
    /\ Flows \cap Entries = {}
    /\ None \notin Jobs \cup Flows \cup Submits \cup Entries
    /\ None \notin FlowMemory \cup TaskMemory
    /\ None \notin {"done", "gone", "list", "acquire", "settle", "release"}
    /\ "done" \notin Submits /\ "gone" \notin Jobs
    /\ StoreFaults \in BOOLEAN
    /\ Interruptions \in BOOLEAN
    /\ MaxReleaseFaults \in Nat

----------------------------------------------------------------------------
VARIABLES
    receipt,    \* job -> phase of its durable receipt
    entry,      \* entry -> the address it is configured with
    lease,      \* _finalizers: job -> the flow or entry setup that holds it
    flow,       \* flow -> its state and what it remembers of its lease
    task,       \* flow, submit -> a running call of async_configure
    setup,      \* entry -> a running async_setup_entry
    faults      \* releases that have failed in this process

finVars == <<receipt, entry, lease, flow, task, setup, faults>>

Threads == Flows \X Submits

Configured(j) == \E e \in Entries : entry[e] = j

----------------------------------------------------------------------------
(* A flow and its lease. *)

NewFlow(exec) ==
    [state |-> "open", job |-> None, owner |-> None, exec |-> exec,
     deferred |-> FALSE, retried |-> FALSE, release |-> None]

\* _clear_finalizer_state.
Cleared(w) ==
    [w EXCEPT !.job = None, !.owner = None, !.deferred = FALSE, !.retried = FALSE]

\* _ensure_finalizer_release_task: joins the running release, or starts one
\* for the lease that the flow may hold.
Releasing(w) ==
    IF w.release # None THEN w
    ELSE IF w.job = None \/ ~w.exec THEN Cleared(w)
    ELSE [w EXCEPT !.release = w.job]

\* async_remove: at once, or when the submit that owns the lease has ended.
RemovedAtOnce(w) == Releasing([w EXCEPT !.state = "removed"])    \* mutant
Removed(w) ==
    LET v == [w EXCEPT !.state = "removed"]
    IN IF v.job = None \/ ~v.exec THEN v
       ELSE IF v.owner \in Submits THEN [v EXCEPT !.deferred = TRUE]
       ELSE Releasing(v)

\* Task s of a flow is done.
Without(w, s) == IF w.owner = s THEN [w EXCEPT !.owner = "done"] ELSE w

NewTask(j, pc) == [pc |-> pc, job |-> j, next |-> "form", entry |-> None]

At(t, pc) == task[t] # None /\ task[t].pc = pc

\* The task goes on with its flow remembering w, or ends in one of Home
\* Assistant's ways: with a form, or an error, the flow stays; an abort or a
\* finished flow is removed.
Go(t, pc, w) ==
    /\ task' = [task EXCEPT ![t].pc = pc]
    /\ flow' = [flow EXCEPT ![t[1]] = w]
Ends(t, w) ==
    /\ task' = [task EXCEPT ![t] = None]
    /\ flow' = [flow EXCEPT ![t[1]] = Without(w, t[2])]
Closes(t, w) == Ends(t, IF w.state = "open" THEN Removed(w) ELSE w)

EndsBy(t, next, w) ==
    IF next \in {"abort", "finish"} THEN Closes(t, w) ELSE Ends(t, w)

\* await _async_release_finalizer, then next.
LetsGo(t, next, w) ==
    LET v == Releasing(w)
    IN IF v.release = None THEN EndsBy(t, next, v)
       ELSE /\ task' = [task EXCEPT ![t].pc = "release", ![t].next = next]
            /\ flow' = [flow EXCEPT ![t[1]] = v]

\* A submit that has waited for a release goes on before any call that was
\* begun since comes back.
Prompt(f) ==
    \A s \in Submits : ~At(<<f, s>>, "released") /\ ~At(<<f, s>>, "unreleased")

Quiet == UNCHANGED <<receipt, entry, lease, setup, faults>>

----------------------------------------------------------------------------
(* One submit of a flow: async_step_install_result and what it calls.      *)

OpenFlow(f) ==
    /\ flow[f] = None
    /\ \E exec \in BOOLEAN : flow' = [flow EXCEPT ![f] = NewFlow(exec)]
    /\ UNCHANGED task
    /\ Quiet

Submit(t) ==
    /\ task[t] = None
    /\ flow[t[1]] # None /\ flow[t[1]].state = "open"
    /\ \E j \in Jobs : task' = [task EXCEPT ![t] = NewTask(j, "read")]
    /\ UNCHANGED flow
    /\ Quiet

\* This submit becomes the flow's owner of a lease it has yet to acquire.
Reserve(t, w) ==
    Go(t, IF w.exec THEN "acquire" ELSE "executor",
       [w EXCEPT !.job = task[t].job, !.owner = t[2], !.retried = FALSE])

\* _async_finalize_healthy_install, up to its first await.
Enter(t, w) ==
    CASE w.state = "removed" -> Closes(t, w)
      [] w.state = "open" /\ w.owner = None -> Reserve(t, w)
      [] w.state = "open" /\ w.owner \in Submits -> Ends(t, w)
      [] w.state = "open" /\ w.owner = "done" ->
            IF w.release # None THEN Ends(t, w) ELSE LetsGo(t, "enter", w)

\* The receipt is read; only a healthy one is finalized.
ReadReceipt(t) ==
    /\ At(t, "read")
    /\ \/ IF receipt[task[t].job] = "healthy" THEN Enter(t, flow[t[1]])
          ELSE IF receipt[task[t].job] = "working" THEN Ends(t, flow[t[1]])
          ELSE Closes(t, flow[t[1]])
       \/ StoreFaults /\ Closes(t, flow[t[1]])
    /\ Quiet

\* _async_release_finalizer has returned, or has raised.
Resume(t) ==
    LET w == flow[t[1]]
        next == task[t].next
    IN /\ \/ At(t, "released") /\ next # "enter" /\ EndsBy(t, next, w)
          \/ /\ At(t, "released") /\ next = "enter"
             /\ IF w.job # None THEN Ends(t, w)
                ELSE IF w.state = "removed" THEN Closes(t, w)
                ELSE Reserve(t, w)
          \/ /\ At(t, "unreleased")
             /\ IF next = "finish" THEN Closes(t, w) ELSE Ends(t, w)
       /\ Quiet

LoadExecutor(t) ==
    /\ At(t, "executor") /\ Prompt(t[1])
    /\ \/ Go(t, "acquire", [flow[t[1]] EXCEPT !.exec = TRUE])
       \/ StoreFaults /\ LetsGo(t, "form", flow[t[1]])
    /\ Quiet

\* async_acquire_finalizer: granted by the lease and the receipt as it is now.
GrantableUnlocked(j, who) == receipt[j] = "healthy"               \* mutant
Grantable(j, who) == lease[j] \in {None, who} /\ receipt[j] = "healthy"

AcquireLease(t) ==
    LET j == task[t].job
        w == flow[t[1]]
    IN /\ At(t, "acquire") /\ Prompt(t[1])
       /\ \/ /\ Grantable(j, t[1])
             /\ lease' = [lease EXCEPT ![j] = t[1]]
             /\ IF w.state = "removed" \/ Configured(j) THEN LetsGo(t, "abort", w)
                ELSE Go(t, "prove", w)
          \/ /\ ~Grantable(j, t[1])
             /\ LetsGo(t, "form", w)
             /\ UNCHANGED lease
          \/ /\ StoreFaults
             /\ \E next \in {"form", "abort"} : LetsGo(t, next, w)
             /\ UNCHANGED lease
       /\ UNCHANGED <<receipt, entry, setup, faults>>

\* async_transition with the revision read while healthy.  A call that
\* raises may have written.
Settle(j, phase) ==
    \/ receipt[j] = "healthy" /\ receipt' = [receipt EXCEPT ![j] = phase]
    \/ receipt[j] # "healthy" /\ UNCHANGED receipt
    \/ StoreFaults /\ UNCHANGED receipt

\* The panel could not be asked, or is not the panel that was installed on.
ProofFails(t) ==
    /\ At(t, "prove")
    /\ \/ LetsGo(t, "form", flow[t[1]])
       \/ Go(t, "reject", flow[t[1]])
    /\ Quiet

RejectHealthyReceipt(t) ==
    /\ At(t, "reject")
    /\ Settle(task[t].job, "recovery")
    /\ LetsGo(t, "abort", flow[t[1]])
    /\ UNCHANGED <<entry, lease, setup, faults>>

\* The last look before the entry is made.
MayCreateUnlooked(t) == flow[t[1]].state = "open"                 \* mutant
MayCreate(t) == flow[t[1]].state = "open" /\ ~Configured(task[t].job)

Refuse(t) ==
    /\ At(t, "prove") /\ ~MayCreate(t)
    /\ LetsGo(t, "abort", flow[t[1]])
    /\ Quiet

\* Home Assistant adds an entry and sets it up.
Added(e, j) ==
    /\ entry[e] = None
    /\ entry' = [entry EXCEPT ![e] = j]
    /\ setup' = [setup EXCEPT ![e] = "list"]

\* async_create_entry: nothing happens between the last look and the add.
CreateEntry(t, e) ==
    /\ At(t, "prove") /\ MayCreate(t)
    /\ Added(e, task[t].job)
    /\ task' = [task EXCEPT ![t].pc = "adding", ![t].entry = e]
    /\ UNCHANGED <<receipt, lease, flow, faults>>

EntryAdded(t) ==
    /\ At(t, "adding") /\ setup[task[t].entry] = None
    /\ Go(t, "created", flow[t[1]])
    /\ Quiet

\* async_on_create_entry: the receipt the flow still knows is consumed.
ConsumedBySetup(j) == UNCHANGED receipt                           \* mutant
Consumed(j) == IF j = None THEN UNCHANGED receipt ELSE Settle(j, "consumed")

OnCreateEntry(t) ==
    /\ At(t, "created")
    /\ Consumed(flow[t[1]].job)
    /\ IF flow[t[1]].job = None THEN Closes(t, flow[t[1]])
       ELSE LetsGo(t, "finish", flow[t[1]])
    /\ UNCHANGED <<entry, lease, setup, faults>>

\* The client hangs up.  A submit that has started to finalize schedules a
\* release of whatever its flow holds then.
Cancel(t) ==
    LET w == flow[t[1]]
    IN /\ Interruptions /\ task[t] # None
       /\ \/ /\ \/ At(t, "read") \/ At(t, "adding")
                \/ task[t].next \in {"enter", "finish", "raise"}
             /\ Ends(t, w)
             /\ UNCHANGED receipt
          \/ /\ task[t].pc \in {"executor", "acquire", "prove", "reject",
                                "release", "released", "unreleased"}
             /\ task[t].next \in {"form", "abort"}
             /\ Ends(t, Releasing(w))
             /\ \/ UNCHANGED receipt
                \/ At(t, "reject") /\ Settle(task[t].job, "recovery")
          \/ /\ At(t, "created")
             /\ \/ UNCHANGED receipt
                \/ Consumed(w.job)
             /\ LetsGo(t, "raise", w)
       /\ UNCHANGED <<entry, lease, setup, faults>>

----------------------------------------------------------------------------
(* What happens to a flow, and its releases.                               *)

\* The user closes the dialog: async_remove.
RemoveFlow(f) ==
    /\ flow[f] # None /\ flow[f].state = "open"
    /\ flow' = [flow EXCEPT ![f] = Removed(flow[f])]
    /\ UNCHANGED task
    /\ Quiet

\* _finalization_done, on the owner of a flow that was removed meanwhile.
FinalizationDone(f) ==
    /\ flow[f] # None
    /\ flow[f].deferred /\ flow[f].owner = "done"
    /\ flow[f].release = None /\ ~flow[f].retried
    /\ flow' = [flow EXCEPT ![f] = Releasing(flow[f])]
    /\ UNCHANGED task
    /\ Quiet

Free(j, who) ==
    lease' = IF lease[j] = who THEN [lease EXCEPT ![j] = None] ELSE lease

\* What a flow keeps when its release raised.
KeptForgetting(w) == Cleared([w EXCEPT !.release = None])         \* mutant
KeptRetryless(w) == [w EXCEPT !.release = None]                   \* mutant
Kept(w) ==
    LET v == [w EXCEPT !.release = None]
    IN IF v.state = "removed" /\ v.job # None /\ ~v.retried
       THEN Releasing([v EXCEPT !.retried = TRUE])
       ELSE v

\* The submits that wait for the release of f learn how it ended.
Tell(f, how) ==
    task' = [t \in Threads |->
                IF t[1] = f /\ At(t, "release")
                THEN [task[t] EXCEPT !.pc = how] ELSE task[t]]

\* The release runs under the executor's lock, after a submit of this flow
\* that is already waiting for it.
RunRelease(f) ==
    LET w == flow[f]
        j == w.release
        v == [w EXCEPT !.release = None]
    IN /\ w # None /\ j # None /\ Prompt(f)
       /\ \A s \in Submits : ~At(<<f, s>>, "acquire")
       /\ \/ /\ Free(j, f)
             /\ flow' = [flow EXCEPT ![f] = IF v.job = j THEN Cleared(v) ELSE v]
             /\ Tell(f, "released")
             /\ UNCHANGED faults
          \/ /\ faults < MaxReleaseFaults
             /\ faults' = faults + 1
             /\ flow' = [flow EXCEPT ![f] = Kept(w)]
             /\ Tell(f, "unreleased")
             /\ UNCHANGED lease
       /\ UNCHANGED <<receipt, entry, setup>>

----------------------------------------------------------------------------
(* Entry setup: _async_reconcile_install_receipt.                          *)

\* A reload, or the start of a process.  The add of an entry returns as soon
\* as its own setup has, before another one.
StartSetup(e) ==
    /\ entry[e] \in Jobs /\ setup[e] = None
    /\ \A t \in Threads : ~(At(t, "adding") /\ task[t].entry = e)
    /\ setup' = [setup EXCEPT ![e] = "list"]
    /\ UNCHANGED <<receipt, entry, lease, flow, task, faults>>

SetupTo(e, pc) ==
    setup' = [setup EXCEPT ![e] = pc] /\ UNCHANGED <<entry, flow, task>>

\* The setup may fail before it comes to the receipts.
ListReceipts(e) ==
    /\ setup[e] = "list"
    /\ \/ receipt[entry[e]] = "healthy" /\ SetupTo(e, "acquire")
       \/ SetupTo(e, None)
    /\ UNCHANGED <<receipt, lease, faults>>

SetupAcquires(e) ==
    LET j == entry[e]
    IN /\ setup[e] = "acquire"
       /\ \/ /\ Grantable(j, e)
             /\ lease' = [lease EXCEPT ![j] = e]
             /\ SetupTo(e, "settle")
          \/ /\ ~Grantable(j, e) \/ StoreFaults
             /\ SetupTo(e, None)
             /\ UNCHANGED lease
       /\ UNCHANGED <<receipt, faults>>

SetupSettles(e) ==
    /\ setup[e] = "settle"
    /\ \E phase \in {"consumed", "recovery"} : Settle(entry[e], phase)
    /\ SetupTo(e, "release")
    /\ UNCHANGED <<lease, faults>>

SetupReleases(e) ==
    /\ setup[e] = "release"
    /\ SetupTo(e, None)
    /\ \/ Free(entry[e], e) /\ UNCHANGED faults
       \/ /\ faults < MaxReleaseFaults /\ faults' = faults + 1
          /\ UNCHANGED lease
    /\ UNCHANGED receipt

\* A cancelled setup drains the release of a lease it was granted.
CancelSetup(e) ==
    /\ Interruptions
    /\ \/ setup[e] \in {"list", "acquire"} /\ SetupTo(e, None)
       \/ setup[e] = "settle" /\ SetupTo(e, "release")
    /\ UNCHANGED <<receipt, lease, faults>>

----------------------------------------------------------------------------
(* The surroundings. *)

JobHealthy(j) ==
    /\ receipt[j] = "working"
    /\ receipt' = [receipt EXCEPT ![j] = "healthy"]
    /\ UNCHANGED <<entry, lease, flow, task, setup, faults>>

\* Another flow connects a panel that runs: _async_create_panel_entry.
ConnectFound(e, j) ==
    /\ ~Configured(j)
    /\ Added(e, j)
    /\ UNCHANGED <<receipt, lease, flow, task, faults>>

RemoveEntry(e) ==
    /\ entry[e] \in Jobs /\ setup[e] = None
    /\ entry' = [entry EXCEPT ![e] = "gone"]
    /\ UNCHANGED <<receipt, lease, flow, task, setup, faults>>

NoLease == [j \in Jobs |-> None]
NoFlow == [f \in Flows |-> None]
NoTask == [t \in Threads |-> None]
NoSetup == [e \in Entries |-> None]

\* The process ends; the receipts and the entries are on disk.
Crash ==
    /\ Interruptions
    /\ lease' = NoLease /\ flow' = NoFlow /\ task' = NoTask /\ setup' = NoSetup
    /\ faults' = 0
    /\ UNCHANGED <<receipt, entry>>

FinInit ==
    /\ receipt = [j \in Jobs |-> "working"]
    /\ entry = [e \in Entries |-> None]
    /\ lease = NoLease /\ flow = NoFlow /\ task = NoTask /\ setup = NoSetup
    /\ faults = 0

SubmitStep(t) ==
    \/ ReadReceipt(t) \/ LoadExecutor(t) \/ AcquireLease(t) \/ ProofFails(t)
    \/ Refuse(t) \/ RejectHealthyReceipt(t) \/ EntryAdded(t)
    \/ OnCreateEntry(t) \/ Resume(t)
    \/ \E e \in Entries : CreateEntry(t, e)

SetupStep(e) ==
    ListReceipts(e) \/ SetupAcquires(e) \/ SetupSettles(e) \/ SetupReleases(e)

FlowStep(f) == FinalizationDone(f) \/ RunRelease(f)

FinNext ==
    \/ \E t \in Threads : Submit(t) \/ SubmitStep(t) \/ Cancel(t)
    \/ \E f \in Flows : OpenFlow(f) \/ RemoveFlow(f) \/ FlowStep(f)
    \/ \E e \in Entries :
          StartSetup(e) \/ SetupStep(e) \/ CancelSetup(e) \/ RemoveEntry(e)
    \/ \E j \in Jobs :
          JobHealthy(j) \/ \E e \in Entries : ConnectFound(e, j)
    \/ Crash

FinSpec == FinInit /\ [][FinNext]_finVars

----------------------------------------------------------------------------
(* Properties. *)

FinTypeOK ==
    /\ receipt \in [Jobs -> {"working", "healthy", "consumed", "recovery"}]
    /\ entry \in [Entries -> Jobs \cup {"gone", None}]
    /\ lease \in [Jobs -> Flows \cup Entries \cup {None}]
    /\ flow \in [Flows -> FlowMemory \cup {None}]
    /\ task \in [Threads -> TaskMemory \cup {None}]
    /\ setup \in [Entries -> {"list", "acquire", "settle", "release", None}]
    /\ faults \in 0 .. MaxReleaseFaults
    /\ \A t \in Threads : task[t] # None => flow[t[1]] # None
    /\ \A f \in Flows : flow[f] # None =>
          /\ flow[f].owner = None <=> flow[f].job = None
          /\ flow[f].release \in {None, flow[f].job}
    /\ \A e \in Entries : setup[e] # None => entry[e] \in Jobs

Working(t, j) ==
    /\ task[t] # None /\ task[t].job = j
    /\ task[t].pc \in {"prove", "reject", "adding", "created"}

\* A flow that proves a panel, or turns its proof into an outcome, does so
\* under the lease of the job ("Re-prove one healthy receipt under the
\* process-wide finalizer lease").
ProvenUnderLease ==
    \A t \in Threads, j \in Jobs : Working(t, j) => lease[j] = t[1]

\* Two parties never finalize one job at a time, whether submits of one flow,
\* flows, or the setup of an entry.
OneFinalizer ==
    \A j \in Jobs :
        /\ \A t, u \in Threads : Working(t, j) /\ Working(u, j) => t = u
        /\ \A e \in Entries : setup[e] = "settle" /\ entry[e] = j =>
              /\ \A t \in Threads : ~Working(t, j)
              /\ \A d \in Entries : setup[d] = "settle" /\ entry[d] = j => d = e

\* A flow that holds a lease knows of it, so that its next submit or its
\* removal will let go.
NoOrphanLease ==
    \A j \in Jobs, f \in Flows :
        lease[j] = f => /\ flow[f] # None
                        /\ flow[f].job = j /\ flow[f].exec

\* Entries of one address never exist twice.
AddressUnique ==
    \A d, e \in Entries : entry[d] \in Jobs /\ entry[d] = entry[e] => d = e

\* A flow makes an entry only out of a receipt that is healthy at that moment,
\* although it read the receipt long before.
EntryFromHealthy ==
    [][\A t \in Threads, e \in Entries :
          CreateEntry(t, e) => receipt[task[t].job] = "healthy"]_finVars

\* A healthy receipt is settled only under the lease of its job.
SettledUnderLease ==
    [][\A j \in Jobs :
          receipt[j] = "healthy" /\ receipt'[j] # "healthy"
          => lease[j] # None]_finVars

FairFinSpec ==
    /\ FinSpec
    /\ \A t \in Threads : WF_finVars(SubmitStep(t))
    /\ \A f \in Flows : WF_finVars(FlowStep(f))
    /\ \A e \in Entries : WF_finVars(SetupStep(e))

\* A removed flow lets go of every lease, also if a release failed once.
RemovedLetsGo ==
    \A f \in Flows :
        flow[f] # None /\ flow[f].state = "removed"
        ~> \A j \in Jobs : lease[j] # f

\* Once a flow has made an entry, the receipt is settled.
Handoff ==
    \A t \in Threads, j \in Jobs :
        At(t, "adding") /\ task[t].job = j ~> receipt[j] # "healthy"

============================================================================
