------------------------------ MODULE Controller ------------------------------
(***************************************************************************)
(* The controller of a disaggregated, validation-free RL job as a value    *)
(* and the methods that change it: PolicyStatusManager and                 *)
(* RolloutStatusManager (dispatcher/status.py), the prompt fetch of        *)
(* dispatcher/controller.py and the HTTP handlers and monitor decisions of *)
(* dispatcher/run_web_panel.py.                                            *)
(*                                                                         *)
(* A method m(self, args) is the operator m(c, args): the controller after *)
(* the call.  FastAPI handlers never yield inside these methods, so a call *)
(* is one atomic change.  Rollouts, prompts and commands are counted or    *)
(* named, never built: the buffer is its length, a command its type, step  *)
(* and advertised horizon.                                                 *)
(***************************************************************************)
EXTENDS Integers, Sequences, FiniteSets

CONSTANTS
  Policies,         \* names of the policy replicas
  Rollouts,         \* names of the rollout replicas
  None,             \* Python's None
  Batch,            \* train.train_batch_per_replica
  NGen,             \* rollout.n_generation: samples per prompt
  MaxNumSteps,      \* train.max_num_steps, or None
  SyncInterval,     \* train.sync_weight_interval
  AllowedOutdated,  \* train_policy.allowed_outdated_steps
  FetchOutdated,    \* train_policy.outdated_rollout_fetch_batch_size
  MaxInflight       \* train_policy.max_inflight_steps, or None

ASSUME ReplicaAssumption ==
  /\ Policies # {} /\ IsFiniteSet(Policies)
  /\ Rollouts # {} /\ IsFiniteSet(Rollouts)
  /\ None \notin Int

(* The last two are enforced by the validators of policy/config.           *)
ASSUME ConfigAssumption ==
  /\ Batch \in Nat \ {0} /\ NGen \in Nat \ {0} /\ SyncInterval \in Nat \ {0}
  /\ AllowedOutdated \in Nat /\ FetchOutdated \in Nat
  /\ MaxNumSteps \in (Nat \ {0}) \cup {None}
  /\ MaxInflight \in Nat \cup {None}
  /\ AllowedOutdated + 1 >= SyncInterval
  /\ MaxInflight # None => MaxInflight >= AllowedOutdated + 1

Status == {"READY", "RUNNING", "REDUCED"}
JobPhase == {"RUNNING", "DRAINING"}

(* What the controller publishes on a policy's stream.  "P2R" is half of a *)
(* weight-sync round: `peer` names the rollout replica that receives it.   *)
PolicyCommand ==
  [type : {"DataFetch", "TrainingComplete"}, step : Nat, total : Int]
    \cup [type : {"P2R"}, step : Nat, peer : Rollouts]

ASSUME NoneAssumption == None \notin PolicyCommand

(* What it publishes on a rollout's stream.                                *)
RolloutCommand ==
  [type : {"P2R"}, step : Nat, peer : Policies]
    \cup [type : {"R2R"}, step : Nat, peers : SUBSET Rollouts]
    \cup [type : {"STOP"}]

PolicyStreams == [Policies -> Seq(PolicyCommand)]
RolloutStreams == [Rollouts -> Seq(RolloutCommand)]

(* dispatched_rollouts_by_step, as a set of its entries.                   *)
DispatchRecord == [step : Nat, count : Nat]

(* The fields of the two status managers that outlive a call, the command  *)
(* streams they publish on and the two flags of run_web_panel.py.          *)
Fields ==
  {"policies", "status", "current_step", "total_steps", "remain_samples_num",
   "samples_on_the_fly", "rollout_buffer", "dispatched", "job_phase",
   "draining_total_steps", "acked_step", "acked_total_steps",
   "completion_step", "completion_recipients", "completion_acks",
   "terminal_complete", "rollouts", "ended", "discard_reports",
   "policy_stream", "rollout_stream", "stop_broadcast_sent", "should_exit"}

ControllerTypeOK(c) ==
  /\ DOMAIN c = Fields
  /\ c.policies \in SUBSET Policies
  /\ c.status \in [Policies -> Status]
  /\ c.current_step \in Nat
  /\ c.total_steps \in Int
  /\ c.remain_samples_num \in Int
  /\ c.samples_on_the_fly \in Int
  /\ c.rollout_buffer \in Nat
  /\ c.dispatched \in SUBSET DispatchRecord
  /\ c.job_phase \in JobPhase
  /\ c.draining_total_steps \in Int \cup {None}
  /\ c.acked_step \in Nat \cup {None}
  /\ c.acked_total_steps \in Int \cup {None}
  /\ c.completion_step \in Nat \cup {None}
  /\ c.completion_recipients \in SUBSET Policies
  /\ c.completion_acks \in SUBSET Policies
  /\ c.terminal_complete \in BOOLEAN
  /\ c.rollouts \in SUBSET Rollouts
  /\ c.ended \in SUBSET Rollouts
  /\ c.discard_reports \in SUBSET (Rollouts \X Nat)
  /\ c.policy_stream \in PolicyStreams
  /\ c.rollout_stream \in RolloutStreams
  /\ c.stop_broadcast_sent \in BOOLEAN
  /\ c.should_exit \in BOOLEAN

Smaller(a, b) == IF a <= b THEN a ELSE b

-----------------------------------------------------------------------------
(* Queries *)

n_policy(c) == Cardinality(c.policies)

required_rollouts(c) == Batch * n_policy(c)

training_horizon(c) ==
  IF c.draining_total_steps # None THEN c.draining_total_steps
                                   ELSE c.total_steps

training_finished(c) ==
  \/ c.terminal_complete
  \/ /\ c.current_step >= training_horizon(c)
     /\ training_horizon(c) > 0

rollout_admission_closed(c) ==
  c.terminal_complete \/ c.completion_step # None

(* Mutant: the first ACK settles the step.                                 *)
any_reduced(c) == \E p \in c.policies : c.status[p] = "REDUCED"

all_reduced(c) == \A p \in c.policies : c.status[p] = "REDUCED"

(* Mutant: the trigger does not wait for busy replicas.                    *)
some_ready_or_reduced(c) ==
  \E p \in c.policies : c.status[p] \in {"READY", "REDUCED"}

all_ready_or_reduced(c) ==
  \A p \in c.policies : c.status[p] \in {"READY", "REDUCED"}

(* Mutant: one replica's batch is taken for the global one.                *)
rollouts_enough_for_one_replica(c) == c.rollout_buffer >= Batch

rollouts_enough_for_one_step(c) == c.rollout_buffer >= required_rollouts(c)

all_rollouts_ended(c) == c.rollouts # {} /\ c.rollouts \subseteq c.ended

real_terminal_command_acked(c) ==
  /\ c.acked_step = training_horizon(c)
  /\ c.acked_total_steps = training_horizon(c)

(* Every rollout posts a ranked end and stays a command participant, so    *)
(* the communicator-safe recipients are the registered ones.               *)
get_safe_weight_sync_replicas(c) == c.rollouts

need_weight_sync(step, total) == step % SyncInterval = 0 /\ step # total

should_weight_sync_after_train_ack(c, step) ==
  /\ c.job_phase # "DRAINING"
  /\ need_weight_sync(step, c.total_steps)
  /\ ~all_rollouts_ended(c)
  /\ get_safe_weight_sync_replicas(c) # {}

(* Mutants: STOP on the dispatched, not the acknowledged, last step; STOP  *)
(* when some rollout has ended; STOP without the fallback for a job whose  *)
(* policies have all left.                                                 *)
stop_when_training_finished(c) ==
  /\ ~c.stop_broadcast_sent
  /\ training_finished(c)
  /\ all_rollouts_ended(c)

stop_on_first_end(c) == ~c.stop_broadcast_sent /\ c.ended # {}

stop_only_when_rollouts_ended(c) ==
  /\ ~c.stop_broadcast_sent
  /\ c.terminal_complete /\ all_rollouts_ended(c)

should_broadcast_stop(c) ==
  /\ ~c.stop_broadcast_sent
  /\ \/ c.terminal_complete /\ all_rollouts_ended(c)
     \/ c.policies = {} /\ (training_finished(c) \/ all_rollouts_ended(c))

-----------------------------------------------------------------------------
(* Step budget and accounting *)

recompute_total_steps(c) ==
  IF c.job_phase = "DRAINING" \/ training_finished(c) \/ c.policies = {} THEN c
  ELSE LET steps_by_dataset ==
             c.current_step + c.remain_samples_num \div required_rollouts(c)
       IN [c EXCEPT !.total_steps = IF MaxNumSteps = None THEN steps_by_dataset
                                    ELSE Smaller(steps_by_dataset, MaxNumSteps)]

_settle_samples_on_the_fly(c, count) ==
  [c EXCEPT !.samples_on_the_fly =
     IF count = 0 THEN @ ELSE IF @ > count THEN @ - count ELSE 0]

(* Mutant: samples lost by a worker are never settled.                     *)
discards_not_settled(c, r, report_id, count) == c

settle_discarded_samples(c, r, report_id, count) ==
  IF count = 0 \/ <<r, report_id>> \in c.discard_reports THEN c
  ELSE [_settle_samples_on_the_fly(c, count)
          EXCEPT !.discard_reports = @ \cup {<<r, report_id>>}]

forget_discard_reports(c, r) ==
  [c EXCEPT !.discard_reports = {d \in @ : d[1] # r}]

(* Mutant: the buffer is dropped without settling its samples.             *)
drop_buffered_rollouts(c) == [c EXCEPT !.rollout_buffer = 0]

cleanup_buffered_rollouts(c) ==
  [_settle_samples_on_the_fly(c, c.rollout_buffer) EXCEPT !.rollout_buffer = 0]

(* Mutant: the kept rollouts are taken off the budget with the dropped.    *)
filter_all_rollouts(c, count, kept) ==
  [_settle_samples_on_the_fly(c, count - kept)
     EXCEPT !.remain_samples_num = @ - count]

(* `kept` of the `count` posted rollouts pass the staleness filter.        *)
filter_outdated_rollouts(c, count, kept) ==
  [_settle_samples_on_the_fly(c, count - kept)
     EXCEPT !.remain_samples_num = @ - (count - kept)]

-----------------------------------------------------------------------------
(* Commands *)

publish_to_policies(c, cmd) ==
  [p \in Policies |-> IF p \in c.policies THEN Append(c.policy_stream[p], cmd)
                                          ELSE c.policy_stream[p]]

set_all_status(c, status) ==
  [p \in Policies |-> IF p \in c.policies THEN status ELSE c.status[p]]

try_trigger_data_fetch_and_training(c) ==
  IF /\ c.policies # {}
     /\ ~training_finished(c)
     /\ all_ready_or_reduced(c)
     /\ rollouts_enough_for_one_step(c)
  THEN LET step == c.current_step + 1
       IN [c EXCEPT
             !.remain_samples_num = @ - required_rollouts(c),
             !.current_step = step,
             !.dispatched = {d \in @ : d.step # step}
                              \cup {[step |-> step, count |-> required_rollouts(c)]},
             !.rollout_buffer = @ - required_rollouts(c),
             !.policy_stream = publish_to_policies(c,
                [type |-> "DataFetch", step |-> step, total |-> training_horizon(c)]),
             !.status = set_all_status(c, "RUNNING")]
  ELSE c

trigger_training_complete(c) ==
  IF c.policies = {} \/ c.completion_step # None THEN c
  ELSE LET step == c.current_step + 1
       IN [c EXCEPT
             !.completion_step = step,
             !.completion_recipients = c.policies,
             !.completion_acks = {},
             !.policy_stream = publish_to_policies(c,
                [type |-> "TrainingComplete", step |-> step, total |-> step]),
             !.status = set_all_status(c, "RUNNING")]

(* P2R to the first rollout replica, then R2R over all of them.            *)
trigger_weight_sync(c, step) ==
  LET targets == get_safe_weight_sync_replicas(c)
      src == CHOOSE p \in c.policies : TRUE
      dst == CHOOSE r \in targets : TRUE
      p2r(peer) == [type |-> "P2R", step |-> step, peer |-> peer]
      r2r == [type |-> "R2R", step |-> step, peers |-> targets]
  IN IF targets = {} THEN c
     ELSE [c EXCEPT
             !.policy_stream[src] = Append(@, p2r(dst)),
             !.rollout_stream = [r \in Rollouts |->
                IF r \notin targets THEN @[r]
                ELSE @[r] \o (IF r = dst THEN <<p2r(src)>> ELSE <<>>) \o <<r2r>>]]

-----------------------------------------------------------------------------
(* Draining: closing the rollout input and ending the policy side *)

enter_draining_phase(c) ==
  IF c.job_phase # "RUNNING" THEN c
  ELSE [c EXCEPT !.job_phase = "DRAINING", !.draining_total_steps = c.total_steps]

(* What finish_draining_phase does once the input is closed and every      *)
(* policy is idle: one more full batch, or the terminal command.           *)
drain_or_complete(c) ==
  LET tail == try_trigger_data_fetch_and_training(c)
      clean == cleanup_buffered_rollouts(c)
  IN IF c.current_step < training_horizon(c) /\ tail.current_step > c.current_step
     THEN tail
     ELSE IF real_terminal_command_acked(clean)
          THEN [clean EXCEPT !.terminal_complete = TRUE]
          ELSE trigger_training_complete(clean)

finish_draining_phase(c) ==
  LET d == enter_draining_phase(c)
  IN IF ~all_rollouts_ended(c) THEN c
     ELSE IF rollout_admission_closed(d) THEN cleanup_buffered_rollouts(d)
     ELSE IF all_ready_or_reduced(d) THEN drain_or_complete(d)
     ELSE d

record_real_datafetch_acked(c, step, total) ==
  LET d == [c EXCEPT !.acked_step = step, !.acked_total_steps = total]
  IN IF step = training_horizon(c) /\ total = training_horizon(c)
     THEN cleanup_buffered_rollouts([d EXCEPT !.terminal_complete = TRUE])
     ELSE d

(* Mutant: the first completion ACK ends the job.                          *)
record_first_completion_ack(c, p) ==
  [c EXCEPT !.completion_acks = @ \cup {p},
            !.terminal_complete = TRUE,
            !.status[p] = "REDUCED"]

record_completion_ack(c, p) ==
  LET acks == c.completion_acks \cup {p}
  IN [c EXCEPT !.completion_acks = acks,
               !.terminal_complete = @ \/ (/\ p \notin c.completion_acks
                                           /\ acks = c.completion_recipients),
               !.status[p] = "REDUCED"]

-----------------------------------------------------------------------------
(* Handlers *)

(* The last replica of a step to report settles the step, decides on a     *)
(* weight sync with the phase as it was, and starts the next step.         *)
settle_step(c, step, total) ==
  LET record  == {d \in c.dispatched : d.step = step}
      popped  == [c EXCEPT
                    !.dispatched = @ \ record,
                    !.samples_on_the_fly =
                      IF record = {} THEN @
                      ELSE @ - (CHOOSE d \in record : TRUE).count]
      counted == IF record = {} THEN popped
                 ELSE record_real_datafetch_acked(popped, step, total)
      ready   == [counted EXCEPT !.status = set_all_status(counted, "READY")]
      synced  == IF should_weight_sync_after_train_ack(counted, step)
                 THEN trigger_weight_sync(ready, step) ELSE ready
  IN IF synced.job_phase = "DRAINING"
     THEN finish_draining_phase(synced)
     ELSE try_trigger_data_fetch_and_training(synced)

train_ack(c, p, step, total) ==
  LET reduced == [c EXCEPT !.status[p] = "REDUCED"]
  IN IF step = c.completion_step /\ p \in c.completion_recipients
     THEN record_completion_ack(c, p)
     ELSE IF all_reduced(reduced) THEN settle_step(reduced, step, total)
     ELSE reduced

(* put_rollout_group with `count` rollouts, `kept` of them fresh enough.   *)
(* A dispatch sets every policy RUNNING, so the loop over put_rollout      *)
(* starts at most one step, and starts it iff its last iteration could.    *)
put_rollout_group(c, count, kept) ==
  IF rollout_admission_closed(c) THEN _settle_samples_on_the_fly(c, count)
  ELSE LET f == filter_outdated_rollouts(c, count, kept)
       IN IF kept = 0 THEN f
          ELSE try_trigger_data_fetch_and_training(
                 [f EXCEPT !.rollout_buffer = @ + kept])

rollout_end(c, r) ==
  IF r \notin c.rollouts \/ r \in c.ended THEN c
  ELSE LET e == [c EXCEPT !.ended = @ \cup {r}]
       IN forget_discard_reports(finish_draining_phase(e), r)

_maybe_finalize(c, reaping) ==
  [c EXCEPT !.should_exit =
     @ \/ (/\ c.policies = {} /\ c.rollouts = {}
           /\ reaping \/ training_finished(c))]

unregister_policy(c, p) ==
  LET d == [c EXCEPT !.policies = @ \ {p}]
  IN IF training_finished(d) \/ p \in d.completion_acks THEN d
     ELSE recompute_total_steps(d)

unregister_rollout(c, r) ==
  [c EXCEPT !.rollouts = @ \ {r}, !.ended = @ \ {r}]

broadcast_stop(c) ==
  [c EXCEPT !.rollout_stream = [r \in Rollouts |->
               IF r \in c.rollouts THEN Append(@[r], [type |-> "STOP"]) ELSE @[r]],
            !.stop_broadcast_sent = TRUE]

(* _get_batched_prompt_impl: how many prompts a rollout asking for n gets  *)
(* when the dataset still holds `left`, and whether the stream has ended.  *)
(* The dataloader hands out whole batches of rollout.batch_size prompts,   *)
(* so a request the soft throttle cut to fewer, but not to none, still     *)
(* gets a full batch (n is rollout.batch_size); its end is only noticed    *)
(* by a request that finds it empty.                                       *)
throttled_request(c, n) ==
  IF c.samples_on_the_fly >= (AllowedOutdated + 1) * required_rollouts(c)
  THEN Smaller(n, FetchOutdated) ELSE n

(* Mutant: off by one at the limit.                                        *)
hard_throttled_above(c) ==
  MaxInflight # None /\ c.samples_on_the_fly > MaxInflight * required_rollouts(c)

hard_throttled(c) ==
  MaxInflight # None /\ c.samples_on_the_fly >= MaxInflight * required_rollouts(c)

prompts_granted(c, n, left) ==
  IF c.policies = {} \/ hard_throttled(c) \/ throttled_request(c, n) = 0 THEN 0
  ELSE Smaller(n, left)

prompt_stream_ended(c, n, left) ==
  \/ c.policies = {}
  \/ /\ ~hard_throttled(c)
     /\ training_finished(c) \/ (throttled_request(c, n) > 0 /\ left = 0)

fetch_prompts(c, count) ==
  [c EXCEPT !.samples_on_the_fly = @ + count * NGen]
===============================================================================
