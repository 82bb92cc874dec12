# Verification of the job control of cosmos-rl

cosmos-rl trains a policy by reinforcement learning on several kinds of
processes: one *controller*, *policy replicas* that train, and *rollout
replicas* that generate. They meet only through HTTP calls to the controller,
ordered command streams in Redis, and NCCL collectives. A collective that one
side enters and the other never does hangs for good, so correctness of the
program is mostly a matter of who was told what, in which order, and what
everyone believes of the others. That is what this project models, checks with
TLC and, where possible, proves with TLAPS.

Paths below are relative to `src/cosmos_rl/` unless they start with `src/`.

- [1. Inventory](#1-inventory)
- [2. Modules and how they correspond to the code](#2-modules-and-how-they-correspond-to-the-code)
- [3. What is checked](#3-what-is-checked)
- [4. Fairness](#4-fairness)
- [5. What is proved](#5-what-is-proved)
- [6. What only TLC checks](#6-what-only-tlc-checks)
- [7. Disagreements found](#7-disagreements-found)
- [8. Abstractions and assumptions](#8-abstractions-and-assumptions)
- [9. Not modelled](#9-not-modelled)
- [10. Plan](#10-plan)
- [11. Running it](#11-running-it)

## 1. Inventory

### Components, their state and operations

| Component | State it keeps | Operations that change it | What makes it correct |
|---|---|---|---|
| Policy status manager (`dispatcher/status.py`) | status of each policy replica, `current_step`, `total_steps`, `remain_samples_num`, `samples_on_the_fly`, rollout buffer, dispatched counts per step, job phase and frozen horizon, terminal fields (last real ACK, completion recipients and ACKs), discard-report ids | put_rollout_group, filter_outdated_rollouts, try_trigger_data_fetch_and_training, train_ack, settle_discarded_samples, enter/finish_draining_phase, trigger_training_complete, trigger_weight_sync, register, unregister | steps in lockstep; every sample settled once; the budget covers the data; a terminal barrier that opens exactly when nobody has work |
| Rollout status manager (`dispatcher/status.py`) | registered rollouts, end signals, mesh membership | rollout_end, get_safe_weight_sync_replicas, register, unregister | the end of the rollout side is noticed; nobody is left waiting in a collective |
| Prompt dispatch (`dispatcher/controller.py`, `dispatcher/data/data_fetcher.py`) | dataset iterator, `weight_version_to_prompt_num` | get_batched_prompt with soft and hard throttle, version tagging | bounded work in flight; tags a worker can eventually serve |
| Web panel and monitor (`dispatcher/run_web_panel.py`) | `stop_broadcast_sent`, exit flag | HTTP handlers; a monitor thread that reaps the silent, broadcasts STOP and finalizes | STOP only when no collective can follow; the controller exits |
| Command protocol (`dispatcher/command.py`, `utils/redis_stream.py`) | one ordered stream per replica | DataFetch, TrainingComplete, P2R, R2R, STOP, BuildMesh | the commands of two participants of one collective pair up |
| RL policy worker (`policy/worker/rl_worker.py`) | current command, abort flag | command loop, data fetch and step, ACK, shutdown | leaves after its last command and not before |
| Rollout worker (`rollout/worker/rollout_control.py`) | prompt queue, weight version, end flags, unreported losses | fetch, version gate, generate, report, end signal, weight sync, STOP | what is fetched is generated, reported as lost, or both counted |
| Asynchronous weight sync (`rollout/worker/weight_sync.py`) | priority queue, Redis barrier, buffer model and its versions | P2R, R2R, copy to the live model, fence, stop | no wakeup lost, no round dropped, versions that match weights |
| Configuration validators (`policy/config/__init__.py`) | none | reject inconsistent settings | what they enforce is an assumption of the modules |
| Mesh building and elastic scaling (`dispatcher/status.py`, `replica.py`, `controller.py`) | mesh ranks, who has weights, NCCL error reports and their time window | register, post_register_hook, BuildMesh, weight broadcast and unicast, unregister, post_ncclerror | a joining replica gets weights before it works; after a death the mesh converges on the living |
| HTTP client and retries (`dispatcher/api/client.py`, `utils/network_util.py`) | none | at-least-once calls | handlers tolerate a second delivery |
| Async rollout scheduler (`rollout/worker/asynchronous/`) | task and completion queues, active tasks, flags running, accepting, paused, poisoned | admit, dispatch, generate, pause, drain, resume, poison, stop | no generation meets a half-written model; a failure closes it for good; every admitted task is collected |
| HA NCCL, P2R collective manager (`utils/distributed.py`, `comm/`, `collective/`) | communicator of the mesh, ranks, ready and single-peer flags | build in a background thread, operations with retry and watchdog, error reports | all members rebuild with the same membership and the same NCCL id |
| Payload transport (`utils/payload_transport/`, `utils/nccl_transfer_protocol.py`) | buffer registry, communicator cache | rendezvous, transfer, release | a buffer lives until it is fetched |
| Reward dispatcher (`reward/`) | queue of futures | enqueue, dequeue | order and number of results preserved |
| Colocated mode, multi-replica SFT | a controller of their own, or a simpler barrier | | |
| Checkpoints, trainers, models, engines, data packers, launcher, simulators, reference model | data and files | | not control logic |

`PROJECT.json` lists the same parts with their sources and status.

### How they interact

```
            prompts, rollouts, ACKs, end signals, heartbeats (HTTP)
   policy replicas  ------------------>  controller  <------------------  rollout replicas
          ^                              | monitor |                           ^
          |      DataFetch, P2R,         |  thread |     P2R, R2R, STOP        |
          +------TrainingComplete--------+---------+---(Redis streams)---------+
          |                                                                    |
          +======== P2R: weights to one rollout (NCCL) ========> R2R broadcast =+
```

A rollout fetches prompts, waits until its weights are recent enough for the
tag on them, generates, and posts. The controller filters what will be too old
when it is trained, buffers the rest, and when a global batch is there and no
policy is busy sends DataFetch to all policies. The last ACK settles the step,
starts a weight sync (P2R to one rollout, R2R among the rollouts) and may start
the next step. When prompts run out every rollout signals its end; the
controller freezes the horizon (*draining*), trains what still fills a batch,
then either the last step was advertised as the last one or a TrainingComplete
round closes the job. When the terminal barrier is complete the monitor sends
STOP to the rollouts; policies and rollouts unregister, and the controller exits.

### Hard behaviours

- *Who triggers what*: a step, the draining phase and completion may each be
  triggered by an ACK, a post, a discard report, an end signal or a departure.
  Missing one is a hang; doubling one is a mixed step.
- *Accounting over many paths*: a sample leaves the in-flight count by training,
  by the outdated filter, by a discard report or by buffer cleanup.
- *A horizon that moves*: it shrinks with losses and departures while commands
  that advertise an earlier value are still queued.
- *Estimates used later*: staleness is judged at arrival, used steps later;
  prompt tags are forecasts.
- *Threads and CUDA streams without locks* in the asynchronous weight sync.
- *Crashes* are noticed by heartbeat, and by NCCL time-outs of the survivors;
  nothing undoes what the dead replica held.
- *A mesh under construction*: BuildMesh commands and the operations that need
  the new mesh reach two threads of every replica, in no common order.
- *An event loop and a thread* that move tasks between queues and sets the other
  side counts without a lock.

`PROJECT.json` "hazards" lists each at its line, with the property that covers
it or the reason none does yet.

## 2. Modules and how they correspond to the code

| Module | Lines it models | Role |
|---|---|---|
| `Controller` | `dispatcher/status.py`, `controller.py`, `run_web_panel.py` | the controller as a value; each method `m(self, args)` is an operator `m(c, args)`, the controller after the call |
| `JobControl` | `policy/worker/rl_worker.py`, `rollout/worker/rollout_control.py`, monitor | the whole job: worker loops, streams, monitor and crashes around `Controller` |
| `TrainingRounds` | none: abstract specification | what trainers are promised: rounds in lockstep, one closing round, STOP last |
| `PromptFlow` | version tags, gate, stamps, filter | the same job seen by weight versions, one policy group |
| `WeightSync` | `rollout/worker/weight_sync.py`, threads of `rollout_control.py` | three threads and two CUDA streams per replica |
| `PolicyMesh` | registration and mesh parts of `dispatcher/status.py`, `controller.py`; `utils/distributed.py`; `policy/worker/rl_worker.py` | the NCCL mesh of the policies: building, rebuilding, weights for joiners, operations with retry |
| `RolloutScheduler` | `rollout/worker/asynchronous/rollout_task_scheduler.py`, the asynchronous parts of `rollout_control.py` | one asynchronous rollout worker: main thread, event loop, weight-sync fence, validation |
| `MCJobControl` | | instance of `JobControl` for TLC |
| `JobControlProofs`, `AccountingProofs`, `RoundsProofs` | | theorems about the job, each module resting on the one before |
| `PromptFlowProofs`, `WeightSyncProofs`, `RolloutSchedulerProofs`, `PolicyMeshProofs` | | theorems about the module they are named after |
| `SumProofs` | | what a sum over a finite set is; used by `AccountingProofs` and `PromptFlowProofs` |

**Controller.** The record `c` holds the fields of both status managers under
their own names. `rollout_buffer` is a length, `dispatched` the
`{step, count}` records of `_dispatched_rollouts_by_step`, `policy_stream` and
`rollout_stream` the Redis streams. FastAPI handlers do not yield inside these
methods, so a call is one change of `c`, and a method that ends by calling
another (train_ack → settle_step → trigger_weight_sync → drain_or_complete) is
the composition of the operators in the code's order. `should_broadcast_stop`
has its two ways to STOP: the terminal barrier is complete and all rollouts have
ended, or the policies have all left.

**JobControl.** `ctl` is that record. A policy worker is `pc` (idle, training,
acking, gone, dead), its command `cur` and `abort`, set when it acknowledged a
command whose step reached its advertised total. A rollout worker is `rpc`, its
queue and generated prompts, `fetch_end` and the discard report it owes. Actions:

| Action | Code |
|---|---|
| ExecuteCommand, StepTraining, TrainAck, UnregisterPolicy | main loop, data fetch with gradient all-reduce, ACK post, shutdown of the policy worker |
| RequestNewPrompts, OneStepGeneration, ReportDiscardedSamples, ReportRollouts, SendEndSignal | rollout main loop |
| PolicyToRollout, RolloutToRollout | weight-sync command handlers, as rendezvous of all participants |
| HandleStop, UnregisterRollout | STOP and shutdown of the rollout worker |
| MonitorStop, MonitorFinalize, ReapPolicy, ReapRollout | passes of the monitor thread |
| CrashPolicy, CrashRollout | a process dies silently, bounded by constants |

Which posted samples the filter keeps is a free choice here; `PromptFlow`
models the choice.

**PromptFlow.** Versions are numbers. `prompt_num` is
`weight_version_to_prompt_num`; RequestNewPrompts gives each prompt the first
version with room and counts it; OneStepGeneration and DropStaleBatch are the
SERVE and DROP outcomes of `prompt_version_decision`, WAIT is the absence of a
step; ReportRollouts applies the filter's estimate rollout by rollout; TrainAck
settles a step and publishes the sync that WeightSync executes; Depart is a
replica that is reaped, after which versions are no longer controlled.

**WeightSync.** Per replica a command thread (QueryCommand), the
WeightSyncThread (TakeTask, P2RReceive, BarrierArrive, -Subscribe, -Recheck,
-Wait, EnqueueBroadcast, RecordEvent, R2RDone, TransferFails), the main thread
(SyncBufferToLive, StampPayloads, EndGeneration, HandleStop, the fence and the
join) and two CUDA streams. The thread only enqueues: EnqueueBroadcast puts the
transfer at the end of `gpu` and goes on, with or without its peers, and
RecordEvent and R2RDone announce the new buffer, the version and the replica as
synced while the transfer may not even have started. The GPU executes it later
(TransferStart, BroadcastStart, TransferEnd), a broadcast when it is at the head
of every replica's stream, so one whose peer has died stays there for ever. A CUDA
event is the number of transfers still in front of it: `event` for the last one
recorded (None between its creation and its recording, when a wait for it is
void), `waits` for the one that the enqueued copy to the live model waits for.
CopyStart and CopyDone are the copy. Each access to a shared field is a step of
its own. Weights are named by the step that produced them; a copy that overlaps
a write yields `Torn`.

**PolicyMesh.** `ctl` is the part of the policy status manager that concerns
registration and the mesh, again as a record with one operator per method:
`register` with its post-register hook (finish initialisation at `NInit`
replicas, scale up afterwards), `unregister`, `post_ncclerror`,
`trigger_rebuild_mesh`, dispatch and ACK of a step. `kv` is the store of NCCL
unique ids, keyed by mesh; `groups` is what NCCL itself knows: who has joined
which id. A replica has a background thread `bt` (TakeBuildMesh, PostUid or
AcceptUid, CommCreated, ClearStore, and the ways each fails) and a main thread
`main` that executes weight resume, broadcast, unicast and training steps
(BeginOp, CommReady, Enqueue, Transfer, OpTimeout, WaitTimeout, NextAttempt,
EndOp). `weights` names the step a replica's weights are of; an aborted transfer
or reduction, or a reduction over different weights, leaves `Spoiled`. A replica
may register at any time, also in the middle of a build or of a step. Its BuildMesh
goes to the background threads and the commands behind it to the main threads,
and nothing orders the two: BeginOp asks only that the current communicator is
ready, which may be the one from before the rebuild. A replica may crash at any
step; one that runs out of retries, or looks up a rank its mesh does not have
(for the operation, or once more for the log line after it), ends by itself.

**RolloutScheduler.** The event-loop thread is the worker loop (WorkerWake,
GetNowait, CreateTask, WorkerSleep), one coroutine per task (GenerateStart,
AcquireLease, GenerateDone, GenerateFails) and the drain coroutine (DrainPoll);
they interleave with each other only where the code awaits. The main thread goes
through `mpc`: the weight-sync commands (ConsumeCommand, Quiesce, its return,
failure and time-out, TransferStarts, TransferDone, PublishVersion, Resume), the
streaming generation step (ReportRollouts, CheckConsumed, RequestPrompts,
GateWaits, PutRolloutBatch, CollectResults) and validation (ValidationFeed,
ValidationCollect); it interleaves with the event loop everywhere. The initial
state chooses whether the backend isolates generations by leases and whether the
replica is the leader of the weight sync. A backend with leases is external: it
is modelled by the contract of `begin_weight_sync` and `end_weight_sync` in
`rollout/rollout_base.py`.

**TrainingRounds** knows members, busy members, the round number and three
flags. `JobControl` implements it under the mapping at its end
(`busy` = the policies with status RUNNING, `closed` = a completion step is set).

## 3. What is checked

Bounds are constants of the cfg files. Two replicas of a kind are the least for
which anyone can be early, late or missing; two or more steps are the least for
which a step can overtake another; crashes are limited to one per kind since
every crash scenario below needs one death and its reaping.

| Run | Bounds | Distinct states | Properties | Shows |
|---|---|---|---|---|
| `job` | 2 policies, 2 rollouts, 5 prompts in groups of 4 samples, batch 3, `max_num_steps` 2, both throttles, staleness 1, no crash, fairness | 63 714 | TypeOK, StopIsSafe, StepsAgree, SamplesConserved, BudgetCovers, ThrottleBound, LastCommandIsLast, JobEnds, FinishedJobEnds, no deadlock | batches that no group fills exactly, a horizon below the dataset's, every loss and filter outcome, throttles engaged; the job terminates |
| `job_crash` | 4 prompts, one policy and one rollout may crash | 427 924 | Handshake, SamplesConserved, NoOrphanedSync, ImplementsRounds | the inductive invariant and the refinement survive a crash at any point |
| `rollout_crash` (violation) | 3 prompts, one rollout crash, fairness | | CrashDoesNotBlock | see section 7 |
| `flow_async` | batch 2, staleness 1, 12 prompts, 2 lost, fairness | 12 005 | StalenessBound, VersionNotAhead, TolerantGate | six steps, so tags, stamps and syncs can drift apart by more than the allowance |
| `flow_on_policy` | batch 4, groups of 2, 8 prompts, a loss and a departure | 522 | TypeOK, StalenessBound, OneVersionPerBatch | strict on-policy |
| `sync` | 2 replicas, 2 rounds, no crash | 1 273 474 | TypeOK, FollowersServeSynced, FenceCompletes, NeverOlder, no deadlock | two rounds are the least in which a P2R can overtake an R2R |
| `sync_crash` | 1 round, one death, fairness | 105 357 | FenceCompletes, BarrierOpens, TeardownCompletes | barrier, broadcast and teardown with a dead peer |
| `sync_stamp` (violation) | as `sync`, both replicas generate | | StampIsActual | section 7 |
| `mesh` | 2 initial replicas, a third joins at any time, 2 steps, 2 attempts, one crash | 1 978 145 | TypeOK, OneIdPerBuild, WeightsAgree, TrainsWhileIntact, MeshConverges | three builds can follow each other, a mesh can be built twice, rank 0 or the source of the weights can be the one that dies |
| `mesh_abort` (violation) | as `mesh`, no crash | | NoAbortInFlight | section 7 |
| `sched` | 3 prompts, 2 at a time, fetches of 2, 2 weight syncs, a validation of one prompt after the first, failures and drain time-outs, fairness | 527 756 | TypeOK, FenceInv, GenerationsSeeOneModel, StampIsHonest, FailClosed, DiesOnlyOfFailure, AdmissionBound, EndAfterReports, WorkerFinishes, no deadlock | more prompts than room, so tasks wait, run and complete in one fence; both backends, leader and follower |
| `sched_validation` (violation) | as `sched`, validation after the second sync, no failures | | ValidationEnds | section 7 |

The properties in words:

- **StopIsSafe**: once the terminal barrier is complete or STOP is out, no
  registered policy executes or has queued any command.
- **StepsAgree**: a policy has outstanding work exactly when its status is
  RUNNING, and all outstanding work is of the one current round.
- **SamplesConserved**: `samples_on_the_fly` equals the samples at workers, in
  the buffer and in dispatched steps; the clamp at zero hides nothing. A dead
  rollout's samples stay counted for ever.
- **BudgetCovers**: `remain_samples_num` is never below the samples still to come.
- **ThrottleBound**: the throttles bound samples in flight up to one fetch.
- **LastCommandIsLast**: after a policy executed a command it was told is the
  last, no further round is handed out.
- **NoOrphanedSync**: no queued P2R or R2R names a rollout that left on STOP.
- **ImplementsRounds**: the refinement of `TrainingRounds`.
- **JobEnds, FinishedJobEnds, CrashDoesNotBlock**: termination, see section 4.
- **StalenessBound**: nothing older than `allowed_outdated_steps` is trained.
- **VersionNotAhead**: the filter's assertion cannot fail.
- **OneVersionPerBatch**: a fetched batch asks for one version when the quota of
  a version is a multiple of the fetch size.
- **TolerantGate**: the version gate reopens as long as no more prompts are lost
  than `allowed_outdated_steps` batches hold.
- **FollowersServeSynced**: a follower generates on received weights, not on the
  dummy weights of its engine, although its buffer is announced before the GPU
  has filled it. Left out are copies that slipped into the moment when the event
  is not recorded (section 7, item 2).
- **FenceCompletes**: a replica whose fence succeeded has executed every round
  published, on the thread and on the GPU.
- **NeverOlder**: no buffer, live model or version goes back.
- **BarrierOpens**: nobody needs the barrier's time-out unless a peer dies.
- **TeardownCompletes**: every survivor stops, with nothing left to run, unless a
  peer's death holds up its generation (section 7).
- **StampIsActual**: section 7, item 2.
- **OneIdPerBuild**: replicas that build the same mesh at the same time, with no
  later build queued, use the same NCCL id, though the store is keyed by the mesh
  and a mesh comes back when a joiner has left again. It is limited to meshes that
  have lost nobody (section 7).
- **WeightsAgree**: as long as no replica has been lost, replicas that reduce
  gradients together are in the same step and start it from the same, loaded
  weights, joiners included. Weights spoiled by an abort are left out, since
  `mesh_abort` shows that aborts happen.
- **TrainsWhileIntact**: as long as no replica is lost the system comes to rest
  only when every step has been trained by every replica, joiners included.
- **MeshConverges**: after a death the survivors' communicators become those of
  the registered replicas, as long as training goes on. The exception is stated
  in the property: a build whose rank 0 dies before it posts the id ends the
  background threads of the others.
- **GenerationsSeeOneModel**: generations start on complete weights and, unless
  they have a lease, the live model does not change under them.
- **StampIsHonest**: a sample's version is that of the weights it ran with; with
  leases it may be older, never newer.
- **FailClosed, DiesOnlyOfFailure**: after a failure nothing reopens the
  scheduler, and no interleaving without a failure trips one of its checks.
- **AdmissionBound, EndAfterReports**: counting without a lock misses at most the
  one task that is between the queue and the active set. EndAfterReports is about
  a worker that validates before training only: a validation during training also
  takes training results for its own (section 7, item 4), and these are then
  never reported.
- **WorkerFinishes**: the worker stops, or dies of a failure, or is in a
  validation that waits for a failed generation, which it never looks for.
- **FenceInv, Handshake**: inductive invariants, section 5.

Every property of a passing run has a mutant in `PROJECT.json`: a plausible bug
in a modelled definition under which TLC finds the property violated. The
mutated forms stand beside the originals, marked `Mutant:`.

The `flow_*` and `mesh` runs, `job_crash`, `sync_crash` and the violation runs switch deadlock
checking off: after a crash, a loss, a mixed batch or the last step the modelled
system may really stop, and whether it may is asked by their liveness properties
(in `mesh` by what must hold when it has come to rest). All other runs check
deadlock; the end of a job is a stuttering action of its own.

## 4. Fairness

`JobControl!Fairness` is weak fairness of each duty of each worker loop and of
the monitor passes: the loops are `while` loops that come back to every duty,
and the monitor is a thread with a sleep. Nothing is assumed of crashes. Nothing
is assumed of OneStepGeneration either, because a rollout may wait at its version
gate for ever. That prompts are served in the end is the hypothesis
`PromptsAreServed` *inside* JobEnds and CrashDoesNotBlock; FinishedJobEnds does
without it: once the last step is dispatched, a rollout at the gate still
executes its commands, is told STOP and leaves. When the gate can close for good
is the question of `PromptFlow`, where generation is fair whenever the gate is open.

`WeightSync!FairSpec` assumes progress of the publishing controller, of the three
threads, of the GPU (GPUStep, CopyStep) and of a broadcast once it is at the head
of every stream. A new generation need never start. Barrier, fence and join
time-outs are far longer than a healthy round, so the barrier's and the fence's
fire only after a death.

`PolicyMesh` assumes no fairness. What it promises in the end is stated of the
states in which it has come to rest: `AtRest` says that no step of `Progress` can
be taken, which is what threads, the controller's event loop and the reaping of
the dead do by themselves; further replicas and crashes are not promised and not
waited for. Commands, builds and attempts are bounded, so such steps cannot go on
for ever, and a run in which everybody keeps going ends at rest. A time-out fires
only when what it bounds can no longer happen, so that slowness is not taken for
death.

`RolloutScheduler!FairSpec`: both threads run and coroutines get their turn. The
main thread's loop would satisfy weak fairness by going round without ever
finding a reward ready or the version gate open, so progress of these two is
assumed by strong fairness: reward computations end, and the gate, which
`PromptFlow` is about, does not keep a batch for ever. Nothing is assumed of
failures and drain time-outs.

## 5. What is proved

The theorems hold for all finite sets of replicas and all values of the other
constants allowed by the named assumptions: `ReplicaAssumption`,
`ConfigAssumption` and `NoneAssumption` (`Controller`), `JobAssumption`
(`JobControl`), `FlowAssumption` (`PromptFlow`), `SyncAssumption` and
`NoneAssumption` (`WeightSync`), `SchedulerAssumption` (`RolloutScheduler`),
`MeshAssumption` (`PolicyMesh`). Of the configuration only the relations that the
validators in `policy/config` enforce are assumed; that `None` is no number,
command or task is how the modules write an absent value. Three theorems have a
hypothesis of their own, given in the table; each is what the run that checks the
property fixes too, and TLC refutes the property without it.

| Theorem | Module | States |
|---|---|---|
| TypeCorrect | `JobControlProofs` | `Spec => []TypeOK` |
| HandshakeCorrect | `JobControlProofs` | `Spec => []Handshake` |
| StopSafety | `JobControlProofs` | `Spec => []StopIsSafe` |
| StepAgreement | `JobControlProofs` | `Spec => []StepsAgree` |
| Conservation | `AccountingProofs` | `Spec => []SamplesConserved` |
| Coverage | `AccountingProofs` | `Spec => []BudgetCovers` |
| Throttling | `AccountingProofs` | `Spec => []ThrottleBound` |
| Refinement | `RoundsProofs` | `Spec => ImplementsRounds` |
| HorizonKept | `RoundsProofs` | `current_step` never passes the horizon, nor `max_num_steps` |
| LastCommandBinding | `RoundsProofs` | `Spec => LastCommandIsLast`, when `MaxPolicyCrashes = 0` |
| NoOrphans | `RoundsProofs` | `Spec => []NoOrphanedSync` |
| StalenessBounded | `PromptFlowProofs` | `Spec => []StalenessBound` |
| NoVersionFromTheFuture | `PromptFlowProofs` | `Spec => []VersionNotAhead` |
| OneVersion | `PromptFlowProofs` | `Spec => []OneVersionPerBatch`, when `FetchBatch` divides the prompts of a step |
| SamplesBalanced | `PromptFlowProofs` | `Spec => []Balanced`: the samples counted as in flight are those queued, generated, buffered and in training |
| FlowTypeCorrect | `PromptFlowProofs` | `Spec => []TypeOK` |
| SyncTypeCorrect | `WeightSyncProofs` | `Spec => []TypeOK` |
| Served | `WeightSyncProofs` | `Spec => []FollowersServeSynced` |
| Fenced | `WeightSyncProofs` | `Spec => []FenceCompletes` |
| WeightsAdvance | `WeightSyncProofs` | `Spec => NeverOlder` |
| FenceCorrect | `RolloutSchedulerProofs` | `Spec => []FenceInv` |
| OneModelPerGeneration | `RolloutSchedulerProofs` | `Spec => []GenerationsSeeOneModel` |
| HonestStamps | `RolloutSchedulerProofs` | `Spec => []StampIsHonest` |
| ClosedAfterFailure | `RolloutSchedulerProofs` | `Spec => []FailClosed` |
| DeathMeansFailure | `RolloutSchedulerProofs` | `Spec => []DiesOnlyOfFailure` |
| AdmissionKept | `RolloutSchedulerProofs` | `Spec => []AdmissionBound` |
| SchedulerTypeCorrect | `RolloutSchedulerProofs` | `Spec => []TypeOK` |
| EndsAfterReports | `RolloutSchedulerProofs` | `Spec => []EndAfterReports`, when `ValidateAt \subseteq {0}` |
| MeshTypeCorrect | `PolicyMeshProofs` | `Spec => []TypeOK` |
| MeshWeightsAgree | `PolicyMeshProofs` | `Spec => []WeightsAgree` |

Of the invariants and action properties that passing runs check, all but
OneIdPerBuild, and TrainsWhileIntact and MeshConverges, which speak of ENABLED,
are stated by one of these theorems (section 6).

Each inductive invariant below was checked with TLC, on the instance of a run or
one like it with crashes, before it was proved.

**Type correctness** of the job goes method by method: each operator of
`Controller` maps a well-typed record to a well-typed record, and then there is
one step per action. That `total_steps` is an integer rests on the number of
policies being positive wherever it divides. Of `samples_on_the_fly` the type says
only that it is an integer; that it is never negative follows from Conservation,
which makes it a sum of counts.

**Handshake.** StopIsSafe is not inductive: whether STOP is safe depends on what
is in the streams, which depends on what statuses meant when the commands were
published. The strengthening `Handshake` has three parts:

- `Handshakes`: what each status says about that policy's stream and current
  command. REDUCED: nothing queued, nothing running. READY: only P2R queued.
  RUNNING: exactly one piece of work, the last of the stream or the current
  command, of the current round; and if it advertises itself as the last step,
  the horizon is still that step.
- `Lifecycle`: what the terminal fields say about statuses. A complete terminal
  barrier means nobody RUNNING and nothing queued; completion ACKs and statuses
  agree; an acknowledged last step or STOP implies the terminal barrier (or no policies).
- `WorkerBusy`: a worker holds a command exactly while it executes one.

The horizon clause is the subtle one: a policy leaves after a command whose
`step = total`, so the proof needs that the horizon does not move behind such a
command. The proof again goes method by method: `Agreed(c, w)` says that
controller `c` agrees with the workers' commands `w`; `Frame` shows that methods
that touch only accounting keep it (`SameBarrier`), and one lemma per method
shows the rest. Crashes need nothing special, since a dead policy stays RUNNING
until it is reaped, and reaping removes it from the quantifiers.
StopSafety and StepAgreement are corollaries. TLC checks `Handshake` in `job_crash`.

**Accounting.** `samples_on_the_fly` is decremented by several parties and
clamped at zero; that the clamp never hides anything is what Conservation says.
`Accounts` states the books: the counter is what the workers hold, plus the
buffer, plus the records of dispatched steps; the budget covers what is owed;
each dispatched record is of a step of its own, up to the current one
(`Records`), so that an ACK settles its step and no other; and a discard report
that is still to be posted has an id the controller has not seen (`Reports`), so
that it is settled, and settled once. `Books(c, c0, n, m)` says this of a
controller in the middle of a handler that started from `c0`, and one lemma per
method carries it on. The sums over replicas and steps are the library's
`SumFunction`, whose recursion has no induction rule the provers can use;
`SumProofs` shows what it computes by minimal
counterexample, from the well-foundedness theorems of the library. Throttling is
an invariant of its own beside `Accounts`: only a fetch adds samples, and a fetch
that finds fewer than the limit adds one batch.

**Rounds.** A call of the controller either starts nothing (`Quiet`) or hands one
round to every member at once (`Begins`), and only the last ACK of a round does
so in the same call. With one lemma per method, and Handshake for what the
statuses mean, each action of the job is a step of `TrainingRounds` or a stutter:
that is Refinement, and it includes crashes and reaping.

- HorizonKept needs `Ladder`: the step is below the horizon and the horizon below
  `max_num_steps`, frozen or recomputed, and a horizon of zero means that the
  budget does not fill a batch.
- LastCommandBinding needs `Binding`: every command of the current round
  advertises the horizon as it is now (`Advertised`), and a policy that has
  executed its last command waits for the others of that step or the series has
  ended (`Retired`). It is stated without policy crashes, as `job` checks it:
  when one dies in the final step, the survivors, which were told that it is the
  last, may still be sent a TrainingComplete.
- NoOrphans needs `Orderly`: an R2R is queued at all of its peers or at none
  (`Paired`), none is queued twice and STOP is last (`Tidy`), its step is a
  settled one (`Dated`), and who left on STOP has emptied its stream (`Left`).

**Staleness.** The filter judges a rollout by an estimate of the step that will
train it. `FlowInv` states why the estimate is right: the buffer is a queue of
future batches, so its i-th rollout is trained `(i - 1) \div B` steps after the
next one and is fresh at that time (`BufferFresh`). Dispatching removes one
batch and advances one step, so the estimate of what remains is unchanged; this
is the lemma `DivShift`. `DivFirst` turns the invariant for the first batch
into `StalenessBound`. `NoVersionAhead` bounds published syncs, live versions
and stamps by the current step. The batch size is constant here: the argument
breaks when a policy leaves and the batch shrinks (a listed hazard, section 10).

**One version per batch.** `Aligned` says that `prompt_num` counts whole fetches
of every version as long as there are prompts, and that the tags of a waiting
batch are equal. A version that is not full then has room for a whole fetch
(`MultiplesApart`), so the first tag that differs from the tag before it would
contradict itself (`TagsEqual`). The hypothesis is needed: section 7.

**Weight sync.** `line(r)` is what replica `r` still has to execute, the queue of
the WeightSyncThread followed by the Redis stream. `Synchronised` says in what
order commands stand there (`Lines`: rounds by step, one transfer at most, STOP
last), that what pends is not older than what was announced (`Versions`), that
every round published pends or was announced, and until it is in the buffer is
still to be enqueued or on the GPU's stream (`Complete`: this is the fence), that the
leader's buffer is the newest anyone has and is that of the last transfer received
(`Newest`, `Sends`), that on the leader's stream a round comes behind the transfer
of its weights (`Streams`), that what moves is the transfer at the head and not
older than the buffer it goes to (`Moves`), what stopping leaves behind (`Stops`)
and that live model, copy and buffer follow each other (`Copies`). `Serves` is why
announcing early does no harm: an event that is recorded either has transfers in
front of it or the buffer holds received weights, so a copy that waits for it
never reads dummy weights; the copies that found an unrecorded event are the ones
FollowersServeSynced leaves out. `Complete` excepts a replica that aborted, for
which nothing is promised. The theorems hold for any number of replicas, rounds
and deaths.

**The weight-sync fence.** For any number of prompts, concurrent generations and
weight syncs, a weight sync disturbs no generation. That generations see one
model is not inductive: it depends on what the fence left running, on the order
of the commands and on when the version was published. `FenceInv` has these parts:

- `FlagsAgree`: poisoned means closed; dead means poisoned; outside a sync a
  running, healthy scheduler accepts. This is where FailClosed and
  DiesOnlyOfFailure come from.
- `NothingEarly`: before the first weight sync nothing is admitted.
- `FenceHolds`: from the end of the drain until the resume the scheduler is
  paused, closed and `Quiet` (nothing queued is dispatched, no coroutine is
  between creation and completion), or, with leases, leases are held. The clause
  that a paused, unpoisoned scheduler is quiet is what the R2R of the leader
  relies on when it finds the fence of its P2R still closed.
- `CommandsInOrder`: steps do not go back, and at the leader every R2R is
  preceded by the P2R of its step; without it the leader, which does not write
  its model in the broadcast, could publish a version it does not have.
- `LiveIsVersion`: outside a transaction the live model is of the published version.
- `TasksTracked`: a waiting task carries a stamp not newer than the version.

The proof has one lemma per part and under it one step per action; actions
that leave a part alone for the same reason share a step.

**Admission.** `Admitted` is independent of the fence. A batch counts against the
limit from the moment it is fetched, when the room was measured, not when it is
put; a validation may take that room while the batch waits, but ends only when
the scheduler is idle. The `+ 1` of AdmissionBound is the task between queue and
active set, which the measurement does not see.

**Types of the scheduler.** `Sound` adds to `FenceInv` and `Admitted` what bounds
the numbers: an R2R has a smaller step than every later sync and the published
version lies below what pends (`StepsAdvance`), and each validation that has begun
brings its own budget of tasks (`Budget`), so that what was fed and what is still
to be fed never exceeds the validations begun.

**The end signal.** `Tracked` says where a prompt can be between its fetch and its
report: in the batch that waits, in a queue, in the active set, in a coroutine, or
among the results not yet reported (`NothingLost`); nothing is fetched before the
first weight sync and its validation are over (`FetchedLate`); end of fetch, of consumption and of reports
come in this order (`EndsInOrder`); and after consumption at most the one task
between queue and active set is missing (`OneMissing`). The hypothesis on
validations is needed: section 7, item 4.

**Balance of samples.** TypeOK of `PromptFlow` is not inductive: that
`samples_on_the_fly` is a natural number needs that every decrement, for samples
trained, lost, dropped or filtered, takes away something that was counted.
`Balanced` is that conservation law, a sum over replicas of a sum over their
unposted generations. The inner sum is not recursive but guessed: `Holds` asks for
a sequence of partial sums that `AddsUp`, which a step extends or shortens at one
end. Only then is the clamp of `_settle_samples_on_the_fly` idle and the assertion
in `train_ack` true.

**The mesh: types.** `TypeInv` strengthens TypeOK by what makes a mesh usable:
whoever is registered has started (`Registered`); a unique id that is posted, or
that a build or a communicator uses, was made for that mesh, and only its replicas
have joined it (`Posted`, `Builds`, `Comms`); an operation is that of the first
command in its stream and, in flight, has its peer's rank in its communicator (`Ops`).
The proof goes method by method again, then thread by thread. `post_ncclerror`
unregisters those that did not report one after another; since the provers have no induction
over a recursive function, what every intermediate controller satisfies is again
shown by minimal counterexample.

**Equal weights.** WeightsAgree compares weights at one moment, but whether they
are equal depends on every command since the start. The invariant is
`Intact => Steady`: what a loss destroys is not claimed, and a step after which
nobody is lost starts from a state in which nobody was, because names are fresh
(`IntactBefore`). `Steady` has these parts:

- `Arrivals`: the members are the first replicas to start, in order; until the
  initial ones are there only replica 1 has been given anything.
- `Prefixed`, `Peers`: every mesh, in a queue, under construction or in use, is a
  prefix of the order of arrival. So the rank that an operation looked up on an
  older mesh names the same replica on every later one, whether the BuildMesh in
  front of it has been executed or not. This is what takes the place of an order
  between the two threads.
- `Streams`: what a stream may hold: the resume, the first broadcast, unicasts
  from replica 1, and the current training step exactly if the replica is RUNNING;
  nothing twice, and a transfer that a replica receives is its first command.
- `Ordered`: in replica 1's stream a transfer stands before the current step
  exactly if its receiver also takes part in that step. A joiner in the middle of
  a step therefore receives the weights after that step, and starts with the next.
- `Current`: whoever has received weights has those of the current step, from
  before or after training it, unless an abort has spoiled them.

Of two replicas that reduce, both are RUNNING, so both have the same command and
the same version. Aborts, time-outs and failed attempts do occur in the
invariant and cost what the property says: they may leave weights `Spoiled`.

## 6. What only TLC checks

- **Liveness** (JobEnds, FinishedJobEnds, TolerantGate, BarrierOpens,
  TeardownCompletes, WorkerFinishes) and what holds at rest (TrainsWhileIntact,
  MeshConverges): fairness and ENABLED are outside the prover's reach.
- **OneIdPerBuild**: its condition, that no replica of the mesh is lost, holds of
  a moment and not of the past, and an inductive invariant has to say what ids
  lost replicas may have left behind. It is checked on three replicas with joins
  at any time and a crash, and not proved.

What a recursive definition computes for every input is out of reach in general;
where a proof needs it (the sums, the removals of `post_ncclerror`) it is obtained
by minimal counterexample from the library's well-founded orders. Only TLC refutes
the properties of section 7.

## 7. Disagreements found

Each is a run that TLC is expected to refute; `PROJECT.json` "findings" quotes
the lines.

1. **A crash can block the job** (`rollout_crash`). When the only rollout that
   has not sent its end signal dies and is reaped, `unregister` does not
   re-evaluate `all_rollouts_ended`; no end signal is still to come and the job
   waits for ever. `src/docs/elastic/overview.rst` says a dead replica "won't
   block the ongoing RL workflow". The same property also fails for policies
   (`MaxPolicyCrashes = 1, MaxRolloutCrashes = 0, AllowedOutdated = 0,
   Prompts = 3` in the same cfg): nobody re-evaluates `all_reduced`, or a batch
   that became big enough, when a policy is reaped.
2. **A stamp may not be the version executed** (`sync_stamp`). Buffer write,
   copy, version and stamp are unsynchronised; weights of two versions may be
   mixed in the live model, and a generation may be stamped one version off. In
   the trace the copy waits for nothing: the WeightSyncThread has just replaced
   `_last_event` by a new event that it has not recorded yet, and a receive is
   writing the buffer.
3. **A rebuild aborts an operation in flight** (`mesh_abort`). `build_mesh_lock`
   is taken "to avoid abort in-flight nccl comm", but inside the watchdog that
   waits for the stream: it is released once the operation is enqueued, and a
   BuildMesh that arrives then aborts the communicator under it. In the trace it
   is the initial broadcast that a third replica's registration aborts; the
   all-reduce of a step goes the same way.
4. **A validation during training may not end** (`sched_validation`). The drain
   before a weight sync leaves training results in the completion queue, the
   validation after it collects and counts them, and its test for the end
   compares two counts that never meet again. `sched` therefore validates before
   training only.

More behaviours of the weight sync and of the mesh are in the modules, found while
stating their properties, and are the reason for the conditions in these:

- A survivor announces a broadcast whose peer has died, and if it then generates,
  its main thread waits for an event that never fires. It neither generates nor
  handles STOP (`HeldUp` in TeardownCompletes); stop()'s bounded fence is not
  reached.
- A copy that slips between the creation of the event and its recording may serve
  a follower's dummy weights (`unordered` in FollowersServeSynced).
- Without any crash, a replica that joins early can end the job: the source of the
  weights, or the log line after a transfer, looks the joiner's rank up on the mesh
  from before the rebuild, gets a KeyError and dies. If it was rank 0 and had not
  posted the id of the new mesh, the background threads of the others end with it
  and no step is trained (`Intact` in TrainsWhileIntact, the exception in
  MeshConverges). A survivor of a loss may die of the same log line.
- A replica that registers in the middle of a step is READY at once, so
  `all_reduced()` is false at that step's last ACK, the step is never settled and
  starts no weight sync; the next one is dispatched all the same. The accounts of
  such a step are not modelled yet (section 10).
- Rank 0 clears the id of a mesh after building it, but not when the creation
  failed. When such a mesh comes back a replica may pick up the old id
  (the condition on lost replicas in OneIdPerBuild).

Two more consequences of the version quota are behaviours of `PromptFlow` without
a run of their own. A lost prompt keeps its place in the quota: after more than
`allowed_outdated_steps` batches of losses all further tags lie beyond the gate
(TolerantGate shows that fewer are harmless). And after a replica has come or gone
prompts are tagged 0, which a strict on-policy worker drops once a step is trained.

OneVersionPerBatch also fails, as the code expects by raising an error, when
`rollout.batch_size` does not divide the prompts of a step (for instance
`RolloutsPerBatch = 3, NGen = 1, FetchBatch = 2`).

## 8. Abstractions and assumptions

- **Messages are counted or named.** Prompts, completions and samples are
  numbers; commands are a type, a step and what the receiver compares.
- **An HTTP call is one step**: the handler runs whole, its answer arrives.
  Retries after a lost answer are not modelled yet.
- **The job of `JobControl` starts** after registration, mesh building and the
  first weights, which are the subject of `PolicyMesh`.
- **NCCL transfers are rendezvous** in `JobControl`: all participants take one
  step. A dead policy blocks the gradient all-reduce until it is reaped; a P2R
  or R2R that names a dead replica stays blocked, since the retry on a rebuilt
  mesh is not modelled.
- **RL, disaggregated, no validation**; default `coalesce` settings, no dynamic
  sampling, no checkpoints.
- **PromptFlow**: one policy group of constant size; under the soft throttle
  nothing is fetched (`outdated_rollout_fetch_batch_size = 0`), the hard throttle
  is off; a departing replica holds no work.
- **WeightSync**: `async_r2r_sync = "generation"`, more than one replica, a
  synchronous engine, the WeightSyncThread already running. The leader's engine
  starts from the checkpoint, the followers' from dummy weights. Creating an event
  and enqueueing the transfer before it are one step, since until then the main
  thread sees the previous event as before. Aborting NCCL ends what the stream
  holds. After a death the mesh is not rebuilt; the job ends. A barrier key is
  used once.
- **PolicyMesh**: policies only, one rank each; data always suffices for the next
  step; names are fresh, so a replica that died does not come back under its old
  name. Registration is possible at any time, and BuildMesh commands and operations
  reach their two threads in any order. A transfer of a model is one operation, and
  so are the reductions of a step. Two attempts per operation are enough for one
  that fails, is reported and is repeated on the rebuilt mesh.
- **RolloutScheduler**: thread mode, one rank, one prompt per task. The decision
  of the version gate is free. After a P2R the worker waits for its R2R without
  the 600 s limit; the end signal always gets through; that the fetch may be
  told `is_end` early because training is finished is left to `JobControl`.

## 9. Not modelled

Trainers, model code, kernels, inference engines, data packers and datasets are
numerical or data conversion without control state. The launcher, CLI,
simulators and examples start processes. Checkpointing is file I/O; what it
restores are other initial states. The reference model is a request-response
service. The communicator inside NCCL is a native library. HTTP retries, payload
transport, the reward dispatcher, `DistKVStore`, the P2R collective manager, the
colocated controller and multi-replica SFT are control logic and are planned or
candidates. Of the modelled parts these operations are left out: registration and
mesh building on the rollout side, per-rank end reporters, prefetch and
preparation overlap of the rollout worker, inference mode of the weight sync,
`start_async` and the `paused()` context manager of the scheduler.

## 10. Plan

Done, in this order since each rests on the one before:

1. `Controller`, `JobControl`, `TrainingRounds`: the job's life, its refinement
   and the handshake proofs.
2. `PromptFlow`: weight versions, and the staleness proof.
3. `WeightSync`: the threads behind the one-step weight sync of the first two.

4. `PolicyMesh`: registration, mesh building, weights for joiners, and the
   high-availability NCCL layer that follows.
5. `RolloutScheduler`: the asynchronous scheduler, its fence and validation, and
   the proof that the fence holds.

Then the theorems of section 5: types, handshake, accounting, refinement, the
weight-sync threads, the fence, the flow of versions and samples, and the mesh.

To do:

6. **Retries**: at-least-once delivery of posts, ACKs and prompt fetches against
   the handlers of `Controller`; discard reports that fail for good.
7. **Elastic batch size**: what happens to staleness when the batch shrinks, to the
   accounts when a replica joins in the middle of a step, and
   whether a second sync round of one step reuses a barrier key. Composes
   `PolicyMesh` with `PromptFlow` and `WeightSync`.
8. **Start-up of the WeightSyncThread** while the first commands are handled, and
   the mesh of the rollouts.
9. **End of the rollout side in detail**: per-rank end reporters, the older
   single end message, validation in synchronous mode.
10. **Monitor thread** interleaved with handlers at the granularity of dictionary
    accesses, STOP published replica by replica.
11. **Payload transport**, **reward dispatcher**, **DistKVStore**: rendezvous,
    caches, queues.

Theorems next: what a rebuilt mesh guarantees of weights after a loss, once the
property says which replicas are to be compared; OneIdPerBuild.

## 11. Running it

```
tlc -workers 2 -config MCJobControl.cfg MCJobControl     # one run
tlapm JobControlProofs.tla                               # one proof module
```

`PROJECT.json` "runs" pairs every cfg with its module. No passing run takes
longer than a few minutes.
