------------------------------ MODULE JobControl ------------------------------
(***************************************************************************)
(* One RL job from the first prompt to the controller's exit: the          *)
(* controller of module Controller, the policy workers of                  *)
(* policy/worker/rl_worker.py, the rollout workers of                      *)
(* rollout/worker/rollout_control.py and the controller's monitor thread.  *)
(*                                                                         *)
(* A behaviour starts when the initial replicas are registered, meshed and *)
(* hold the same weights.  Redis streams deliver in order; an HTTP call is *)
(* one step that runs the whole handler.  NCCL transfers are rendezvous:   *)
(* all their participants take one step together.  Replicas may crash; the *)
(* monitor then reaps them.                                                *)
(***************************************************************************)
EXTENDS Controller, Functions

CONSTANTS
  Prompts,       \* prompts in the dataset, all epochs together
  FetchBatch,    \* rollout.batch_size: prompts a worker asks for
  MaxPolicyCrashes,   \* bound: policies that die without unregistering
  MaxRolloutCrashes   \* bound: rollouts that die without unregistering

ASSUME JobAssumption ==
  /\ Prompts \in Nat /\ FetchBatch \in Nat \ {0}
  /\ MaxPolicyCrashes \in Nat /\ MaxRolloutCrashes \in Nat

VARIABLES
  ctl,         \* the controller
  prompts,     \* prompts left in the train dataloader
  pc,          \* policy worker: where its main loop stands
  cur,         \* policy worker: the command it executes
  abort,       \* policy worker: it has executed its last command
  rpc,         \* rollout worker: where its main loop stands
  fetch_end,   \* rollout worker: state.prompt_fetch_end
  queue,       \* rollout worker: prompts in _prompt_queue
  done,        \* rollout worker: prompts generated, not yet posted
  discard,     \* rollout worker: prompts whose loss is to be reported
  report_id    \* rollout worker: id of its current discard report

policyVars == <<pc, cur, abort>>
rolloutVars == <<rpc, fetch_end, queue, done, discard, report_id>>
vars == <<ctl, prompts, pc, cur, abort, rpc, fetch_end, queue, done, discard,
          report_id>>

PolicyPC == {"idle", "training", "acking", "gone", "dead"}
RolloutPC == {"run", "checked_out", "stopping", "gone", "dead"}

TypeOK ==
  /\ ControllerTypeOK(ctl)
  /\ prompts \in Nat
  /\ pc \in [Policies -> PolicyPC]
  /\ cur \in [Policies -> PolicyCommand \cup {None}]
  /\ abort \in [Policies -> BOOLEAN]
  /\ rpc \in [Rollouts -> RolloutPC]
  /\ fetch_end \in [Rollouts -> BOOLEAN]
  /\ queue \in [Rollouts -> Nat]
  /\ done \in [Rollouts -> Nat]
  /\ discard \in [Rollouts -> Nat]
  /\ report_id \in [Rollouts -> Nat]

(* The state after setup, registration and the first rebuild of the mesh.  *)
InitController ==
  recompute_total_steps(
    [policies |-> Policies, status |-> [p \in Policies |-> "READY"],
     current_step |-> 0, total_steps |-> 0,
     remain_samples_num |-> Prompts * NGen, samples_on_the_fly |-> 0,
     rollout_buffer |-> 0, dispatched |-> {}, job_phase |-> "RUNNING",
     draining_total_steps |-> None, acked_step |-> None,
     acked_total_steps |-> None, completion_step |-> None,
     completion_recipients |-> {}, completion_acks |-> {},
     terminal_complete |-> FALSE, rollouts |-> Rollouts, ended |-> {},
     discard_reports |-> {}, policy_stream |-> [p \in Policies |-> <<>>],
     rollout_stream |-> [r \in Rollouts |-> <<>>],
     stop_broadcast_sent |-> FALSE, should_exit |-> FALSE])

Init ==
  /\ ctl = InitController
  /\ prompts = Prompts
  /\ pc = [p \in Policies |-> "idle"]
  /\ cur = [p \in Policies |-> None]
  /\ abort = [p \in Policies |-> FALSE]
  /\ rpc = [r \in Rollouts |-> "run"]
  /\ fetch_end = [r \in Rollouts |-> FALSE]
  /\ queue = [r \in Rollouts |-> 0]
  /\ done = [r \in Rollouts |-> 0]
  /\ discard = [r \in Rollouts |-> 0]
  /\ report_id = [r \in Rollouts |-> 0]

-----------------------------------------------------------------------------
(* Policy worker *)

(* main_loop takes the next command and starts executing it.  A            *)
(* TrainingComplete needs no other replica and is ready to be acknowledged.*)
ExecuteCommand(p) ==
  LET cmd == Head(ctl.policy_stream[p])
  IN /\ pc[p] = "idle"
     /\ ctl.policy_stream[p] # <<>>
     /\ cmd.type # "P2R"
     /\ ctl' = [ctl EXCEPT !.policy_stream[p] = Tail(@)]
     /\ cur' = [cur EXCEPT ![p] = cmd]
     /\ pc' = [pc EXCEPT ![p] = IF cmd.type = "DataFetch" THEN "training" ELSE "acking"]
     /\ UNCHANGED <<prompts, abort, rolloutVars>>

(* The gradient all-reduce of step_training: every replica of the policy   *)
(* mesh takes part, so a dead member blocks it until it is reaped.         *)
StepTraining ==
  /\ ctl.policies # {}
  /\ \A p \in ctl.policies : pc[p] = "training"
  /\ \A p, q \in ctl.policies : cur[p].step = cur[q].step
  /\ pc' = [p \in Policies |-> IF p \in ctl.policies THEN "acking" ELSE pc[p]]
  /\ UNCHANGED <<ctl, prompts, cur, abort, rolloutVars>>

(* Mutant: the worker leaves one step early.                               *)
should_stop_early(cmd) == cmd.step + 1 >= cmd.total

replica_should_stop(cmd) == cmd.step >= cmd.total

(* post_policy_train_ack, the end of both command handlers.                *)
TrainAck(p) ==
  /\ pc[p] = "acking"
  /\ p \in ctl.policies
  /\ ctl' = train_ack(ctl, p, cur[p].step, cur[p].total)
  /\ abort' = [abort EXCEPT ![p] = @ \/ replica_should_stop(cur[p])]
  /\ pc' = [pc EXCEPT ![p] = "idle"]
  /\ cur' = [cur EXCEPT ![p] = None]
  /\ UNCHANGED <<prompts, rolloutVars>>

(* handle_shutdown after the last command: unregister from the controller. *)
UnregisterPolicy(p) ==
  /\ pc[p] = "idle"
  /\ abort[p]
  /\ p \in ctl.policies
  /\ ctl' = _maybe_finalize(unregister_policy(ctl, p), FALSE)
  /\ pc' = [pc EXCEPT ![p] = "gone"]
  /\ UNCHANGED <<prompts, cur, abort, rolloutVars>>

-----------------------------------------------------------------------------
(* Rollout worker *)

Active(r) == rpc[r] \in {"run", "checked_out"} /\ discard[r] = 0

(* request_new_prompts: fetch when the queue is empty.                     *)
RequestNewPrompts(r) ==
  LET granted == prompts_granted(ctl, FetchBatch, prompts)
  IN /\ rpc[r] = "run" /\ discard[r] = 0
     /\ ~fetch_end[r] /\ queue[r] = 0
     /\ ~ctl.should_exit
     /\ ctl' = fetch_prompts(ctl, granted)
     /\ prompts' = prompts - granted
     /\ queue' = [queue EXCEPT ![r] = granted]
     /\ fetch_end' = [fetch_end EXCEPT ![r] = prompt_stream_ended(ctl, FetchBatch, prompts)]
     /\ UNCHANGED <<policyVars, rpc, done, discard, report_id>>

(* one_step_generation: `valid` prompts of the batch yield completions,    *)
(* the others are lost and reported under a fresh id.                      *)
OneStepGeneration(r) ==
  \E valid \in 0 .. queue[r] :
     /\ rpc[r] = "run" /\ discard[r] = 0
     /\ queue[r] > 0
     /\ queue' = [queue EXCEPT ![r] = 0]
     /\ done' = [done EXCEPT ![r] = @ + valid]
     /\ discard' = [discard EXCEPT ![r] = queue[r] - valid]
     /\ report_id' = [report_id EXCEPT ![r] = IF valid < queue[r] THEN @ + 1 ELSE @]
     /\ UNCHANGED <<ctl, prompts, policyVars, rpc, fetch_end>>

(* _report_discarded_samples: a post without payloads.                     *)
ReportDiscardedSamples(r) ==
  /\ rpc[r] \in {"run", "checked_out"}
  /\ discard[r] > 0
  /\ ctl' = settle_discarded_samples(ctl, r, report_id[r], discard[r] * NGen)
  /\ discard' = [discard EXCEPT ![r] = 0]
  /\ UNCHANGED <<prompts, policyVars, rpc, fetch_end, queue, done, report_id>>

(* report_rollouts: the controller keeps any number of the posted samples. *)
ReportRollouts(r) ==
  \E kept \in 0 .. done[r] * NGen :
     /\ rpc[r] = "run" /\ discard[r] = 0
     /\ done[r] > 0
     /\ ctl' = put_rollout_group(ctl, done[r] * NGen, kept)
     /\ done' = [done EXCEPT ![r] = 0]
     /\ UNCHANGED <<prompts, policyVars, rpc, fetch_end, queue, discard, report_id>>

(* send_end_signal, once everything fetched has been generated and posted. *)
SendEndSignal(r) ==
  /\ rpc[r] = "run" /\ discard[r] = 0
  /\ fetch_end[r] /\ queue[r] = 0 /\ done[r] = 0
  /\ ctl' = rollout_end(ctl, r)
  /\ rpc' = [rpc EXCEPT ![r] = "checked_out"]
  /\ UNCHANGED <<prompts, policyVars, fetch_end, queue, done, discard, report_id>>

(* handle_stop: leave the main loop, whatever is still queued.             *)
HandleStop(r) ==
  /\ Active(r)
  /\ ctl.rollout_stream[r] # <<>>
  /\ Head(ctl.rollout_stream[r]).type = "STOP"
  /\ ctl' = [ctl EXCEPT !.rollout_stream[r] = Tail(@)]
  /\ rpc' = [rpc EXCEPT ![r] = "stopping"]
  /\ UNCHANGED <<prompts, policyVars, fetch_end, queue, done, discard, report_id>>

UnregisterRollout(r) ==
  /\ rpc[r] = "stopping"
  /\ r \in ctl.rollouts
  /\ ctl' = _maybe_finalize(unregister_rollout(ctl, r), FALSE)
  /\ rpc' = [rpc EXCEPT ![r] = "gone"]
  /\ UNCHANGED <<prompts, policyVars, fetch_end, queue, done, discard, report_id>>

-----------------------------------------------------------------------------
(* Weight sync: NCCL rendezvous of command handlers *)

(* A policy sends its weights to the first rollout replica.                *)
PolicyToRollout(p, r) ==
  /\ pc[p] = "idle" /\ Active(r)
  /\ ctl.policy_stream[p] # <<>> /\ ctl.rollout_stream[r] # <<>>
  /\ LET send == Head(ctl.policy_stream[p])
         recv == Head(ctl.rollout_stream[r])
     IN /\ send.type = "P2R" /\ recv.type = "P2R"
        /\ send.peer = r /\ recv.peer = p /\ send.step = recv.step
  /\ ctl' = [ctl EXCEPT !.policy_stream[p] = Tail(@), !.rollout_stream[r] = Tail(@)]
  /\ UNCHANGED <<prompts, policyVars, rolloutVars>>

(* The named rollout replicas exchange the new weights.                    *)
RolloutToRollout(r) ==
  LET cmd == Head(ctl.rollout_stream[r])
  IN /\ ctl.rollout_stream[r] # <<>>
     /\ cmd.type = "R2R"
     /\ \A q \in cmd.peers :
           Active(q) /\ ctl.rollout_stream[q] # <<>> /\ Head(ctl.rollout_stream[q]) = cmd
     /\ ctl' = [ctl EXCEPT !.rollout_stream = [q \in Rollouts |->
                  IF q \in cmd.peers THEN Tail(@[q]) ELSE @[q]]]
     /\ UNCHANGED <<prompts, policyVars, rolloutVars>>

-----------------------------------------------------------------------------
(* Monitor thread and crashes *)

MonitorStop ==
  /\ ~ctl.should_exit
  /\ should_broadcast_stop(ctl)
  /\ ctl' = broadcast_stop(ctl)
  /\ UNCHANGED <<prompts, policyVars, rolloutVars>>

MonitorFinalize ==
  /\ ~ctl.should_exit
  /\ ctl.policies = {} /\ ctl.rollouts = {}
  /\ ctl' = _maybe_finalize(ctl, TRUE)
  /\ UNCHANGED <<prompts, policyVars, rolloutVars>>

ReapPolicy(p) ==
  /\ pc[p] = "dead" /\ p \in ctl.policies
  /\ ctl' = unregister_policy(ctl, p)
  /\ UNCHANGED <<prompts, policyVars, rolloutVars>>

ReapRollout(r) ==
  /\ rpc[r] = "dead" /\ r \in ctl.rollouts
  /\ ctl' = unregister_rollout(ctl, r)
  /\ UNCHANGED <<prompts, policyVars, rolloutVars>>

CrashPolicy(p) ==
  /\ Cardinality({q \in Policies : pc[q] = "dead"}) < MaxPolicyCrashes
  /\ pc[p] \notin {"gone", "dead"}
  /\ pc' = [pc EXCEPT ![p] = "dead"]
  /\ UNCHANGED <<ctl, prompts, cur, abort, rolloutVars>>

CrashRollout(r) ==
  /\ Cardinality({q \in Rollouts : rpc[q] = "dead"}) < MaxRolloutCrashes
  /\ rpc[r] \notin {"gone", "dead"}
  /\ rpc' = [rpc EXCEPT ![r] = "dead"]
  /\ UNCHANGED <<ctl, prompts, policyVars, fetch_end, queue, done, discard, report_id>>

(* The job is over: every process has left.                                *)
Exited == ctl.should_exit /\ UNCHANGED vars

PolicyStep(p) ==
  \/ ExecuteCommand(p) \/ TrainAck(p) \/ UnregisterPolicy(p)
  \/ ReapPolicy(p) \/ CrashPolicy(p)
  \/ \E r \in Rollouts : PolicyToRollout(p, r)

RolloutStep(r) ==
  \/ RequestNewPrompts(r) \/ OneStepGeneration(r) \/ ReportDiscardedSamples(r)
  \/ ReportRollouts(r) \/ SendEndSignal(r) \/ RolloutToRollout(r)
  \/ HandleStop(r) \/ UnregisterRollout(r)
  \/ ReapRollout(r) \/ CrashRollout(r)

Next ==
  \/ \E p \in Policies : PolicyStep(p)
  \/ \E r \in Rollouts : RolloutStep(r)
  \/ StepTraining \/ MonitorStop \/ MonitorFinalize \/ Exited

Spec == Init /\ [][Next]_vars

(* Worker main loops and the monitor come back to each of their duties;    *)
(* crashes are never required.  A policy leaves only after the round of    *)
(* its main loop that drains the commands already received.                *)
Fairness ==
  /\ \A p \in Policies :
       /\ WF_vars(ExecuteCommand(p)) /\ WF_vars(TrainAck(p))
       /\ WF_vars(UnregisterPolicy(p)) /\ WF_vars(ReapPolicy(p))
       /\ \A r \in Rollouts : WF_vars(PolicyToRollout(p, r))
  /\ \A r \in Rollouts :
       /\ WF_vars(RequestNewPrompts(r))
       /\ WF_vars(ReportDiscardedSamples(r)) /\ WF_vars(ReportRollouts(r))
       /\ WF_vars(SendEndSignal(r)) /\ WF_vars(RolloutToRollout(r))
       /\ WF_vars(HandleStop(r)) /\ WF_vars(UnregisterRollout(r))
       /\ WF_vars(ReapRollout(r))
  /\ WF_vars(StepTraining) /\ WF_vars(MonitorStop) /\ WF_vars(MonitorFinalize)

(* Generation may stall for ever on the weight-version gate: that prompts  *)
(* are served in the end is an assumption of its own.                      *)
FairSpec == Spec /\ Fairness
PromptsAreServed == \A r \in Rollouts : WF_vars(OneStepGeneration(r))

-----------------------------------------------------------------------------
(* Properties *)

(* Work the controller has handed to policy p and p has not acknowledged.  *)
Work(cmd) == cmd.type \in {"DataFetch", "TrainingComplete"}

Outstanding(p) ==
  (IF cur[p] = None THEN {} ELSE {cur[p]})
    \cup {cmd \in Range(ctl.policy_stream[p]) : Work(cmd)}

(* STOP is safe (docstring of should_broadcast_stop): once the terminal    *)
(* barrier is complete, or STOP has been sent, no policy that is still     *)
(* registered executes a command or has one queued, so none can start      *)
(* another training step or weight-sync collective.                        *)
StopIsSafe ==
  ctl.terminal_complete \/ ctl.stop_broadcast_sent =>
    \A p \in ctl.policies : cur[p] = None /\ ctl.policy_stream[p] = <<>>

(* Registered policies never hold work of different steps, so the gradient *)
(* all-reduce of a step only ever meets replicas training that same step,  *)
(* and a replica the controller believes idle has nothing outstanding.     *)
StepsAgree ==
  \A p \in ctl.policies :
    /\ (ctl.status[p] = "RUNNING") = (Outstanding(p) # {})
    /\ \A cmd \in Outstanding(p) :
         cmd.step = IF cmd.type = "DataFetch" THEN ctl.current_step
                                              ELSE ctl.completion_step

(* The handshake behind both: what a registered policy's status says about *)
(* its stream and its current command, and what the terminal fields say    *)
(* about the statuses.  It is inductive, as JobControlProofs shows.        *)
P2ROnly(s, n) == \A i \in 1 .. n : s[i].type = "P2R"

Current(c, cmd) ==
  IF c.completion_step = None
  THEN /\ cmd.type = "DataFetch" /\ cmd.step = c.current_step /\ cmd.step > 0
       /\ cmd.total = cmd.step => training_horizon(c) = cmd.step
  ELSE cmd.type = "TrainingComplete" /\ cmd.step = c.completion_step

HandshakeOf(status, s, w, c) ==
  /\ status = "REDUCED" => w = None /\ s = <<>>
  /\ status = "READY" => w = None /\ P2ROnly(s, Len(s))
  /\ status = "RUNNING" =>
       \/ w # None /\ s = <<>> /\ Current(c, w)
       \/ w = None /\ s # <<>> /\ P2ROnly(s, Len(s) - 1) /\ Current(c, s[Len(s)])

Lifecycle(c) ==
  /\ c.terminal_complete =>
       \A p \in c.policies : c.status[p] # "RUNNING" /\ c.policy_stream[p] = <<>>
  /\ c.completion_step # None =>
       /\ c.policies \subseteq c.completion_recipients
       /\ \A p \in c.policies :
            c.status[p] = IF p \in c.completion_acks THEN "REDUCED" ELSE "RUNNING"
  /\ c.acked_step # None /\ c.acked_step = c.acked_total_steps => c.terminal_complete
  /\ c.stop_broadcast_sent => c.terminal_complete \/ c.policies = {}
  /\ c.job_phase = "DRAINING" <=> c.draining_total_steps # None

Handshakes(c, w) ==
  \A p \in c.policies : HandshakeOf(c.status[p], c.policy_stream[p], w[p], c)

(* A policy worker executes a command exactly while it holds one.          *)
WorkerBusy ==
  \A p \in Policies :
    /\ pc[p] = "idle" => cur[p] = None
    /\ pc[p] \in {"training", "acking"} => cur[p] # None /\ cur[p].type # "P2R"

Handshake == Lifecycle(ctl) /\ Handshakes(ctl, cur) /\ WorkerBusy

(* samples_on_the_fly counts exactly the samples between prompt fetch and  *)
(* the settling ACK: at a worker, in the buffer or in a dispatched step.   *)
(* No path settles a sample twice or forgets one, and the clamp at zero of *)
(* _settle_samples_on_the_fly never hides an imbalance.                    *)
SamplesConserved ==
  ctl.samples_on_the_fly =
    NGen * SumFunction([r \in Rollouts |-> queue[r] + done[r] + discard[r]])
      + ctl.rollout_buffer
      + SumFunction([d \in ctl.dispatched |-> d.count])

(* The step budget covers the data: the samples the controller still       *)
(* expects are at least the buffered ones and those yet to be fetched or   *)
(* generated, so no sample is trained that the horizon did not count.      *)
BudgetCovers ==
  ctl.remain_samples_num >=
    NGen * (prompts + SumFunction([r \in Rollouts |-> queue[r] + done[r]]))
      + ctl.rollout_buffer

(* The prompt throttles bound the samples in flight: the soft one when it  *)
(* lets nothing through, the hard one otherwise; a fetch that finds them   *)
(* open may overshoot by the one batch it takes.                           *)
ThrottleBound ==
  LET limit == IF FetchOutdated = 0 THEN AllowedOutdated + 1 ELSE MaxInflight
  IN ctl.policies = Policies /\ limit # None =>
       ctl.samples_on_the_fly < limit * required_rollouts(ctl) + FetchBatch * NGen

(* No orphaned collective: when a rollout replica has left on STOP, no     *)
(* queued weight-sync command of any replica still waits for it.           *)
NoOrphanedSync ==
  \A r \in Rollouts : rpc[r] \in {"stopping", "gone"} =>
    /\ \A p \in ctl.policies : \A cmd \in Range(ctl.policy_stream[p]) :
         cmd.type = "P2R" => cmd.peer # r
    /\ \A q \in ctl.rollouts : \A cmd \in Range(ctl.rollout_stream[q]) :
         cmd.type = "R2R" => r \notin cmd.peers

(* The horizon a command advertises is binding.  A policy that executed a  *)
(* command whose step reached the advertised total leaves its main loop;   *)
(* from then on the controller starts neither a further step nor the       *)
(* completion round, although the budget is recomputed on departures and   *)
(* frozen when draining starts: nothing is ever sent to a loop that ended. *)
LastCommandIsLast ==
  [][(\E p \in ctl.policies : abort[p]) =>
       /\ ctl'.current_step = ctl.current_step
       /\ ctl'.completion_step = ctl.completion_step]_vars

(* The trainers see rounds in lockstep: the controller, its workers and    *)
(* their messages implement TrainingRounds.                                *)
Rounds == INSTANCE TrainingRounds WITH
  members <- ctl.policies,
  busy <- {p \in ctl.policies : ctl.status[p] = "RUNNING"},
  step <- ctl.current_step,
  closed <- ctl.completion_step # None,
  terminal <- ctl.terminal_complete,
  stopped <- ctl.stop_broadcast_sent

ImplementsRounds == Rounds!Spec

(* The job ends: unless a rollout is stuck at the version gate for ever,   *)
(* every worker leaves and the controller exits.                           *)
JobEnds == PromptsAreServed => <>ctl.should_exit

SomeLive == (\E p \in Policies : pc[p] # "dead") /\ (\E r \in Rollouts : rpc[r] # "dead")

(* A dead replica is removed from the mesh "so it won't block the ongoing  *)
(* RL workflow" (docs/elastic/overview.rst): as long as some policy and    *)
(* some rollout live, the job still ends.                                  *)
CrashDoesNotBlock == PromptsAreServed /\ []SomeLive => <>ctl.should_exit

(* Once the last step has been dispatched the job ends, even for a rollout *)
(* that is stuck at the weight-version gate and never generates again.     *)
FinishedJobEnds == training_finished(ctl) ~> ctl.should_exit
===============================================================================
