------------------------------ MODULE PromptFlow ------------------------------
(***************************************************************************)
(* Weight versions along the path of a sample: the controller tags each    *)
(* prompt with the version it should be generated with, a rollout worker   *)
(* gates its batch on that tag, generation stamps the version it really    *)
(* used, the controller filters what has become too old, and the rest is   *)
(* trained.  dispatcher/controller.py, dispatcher/status.py and            *)
(* rollout/worker/rollout_control.py.                                      *)
(*                                                                         *)
(* A slice of the job of module JobControl: the policies are one group     *)
(* that trains a global batch at a time, and a weight sync is one step of  *)
(* all rollouts.  The soft throttle hands out nothing when it is engaged   *)
(* (outdated_rollout_fetch_batch_size = 0), the hard throttle is off.      *)
(***************************************************************************)
EXTENDS Integers, Sequences, FiniteSets, Functions

CONSTANTS
  Rollouts,
  RolloutsPerBatch,  \* train_batch_per_replica * number of policy replicas
  NGen,              \* rollout.n_generation: samples per prompt
  OnPolicy,          \* train_policy.on_policy
  AllowedOutdated,   \* train_policy.allowed_outdated_steps
  SyncInterval,      \* train.sync_weight_interval
  FetchBatch,        \* rollout.batch_size: prompts a worker asks for
  Prompts,           \* prompts in the dataset
  MaxLost,           \* bound: prompts that generation may lose
  MaxDepartures      \* bound: rollout replicas that die while idle

(* The third line is enforced by the validators of policy/config.          *)
ASSUME FlowAssumption ==
  /\ RolloutsPerBatch \in Nat \ {0} /\ NGen \in Nat \ {0}
  /\ FetchBatch \in Nat \ {0} /\ SyncInterval \in Nat \ {0}
  /\ AllowedOutdated + 1 >= SyncInterval /\ (OnPolicy => AllowedOutdated = 0)
  /\ OnPolicy \in BOOLEAN /\ AllowedOutdated \in Nat
  /\ Prompts \in Nat /\ MaxLost \in Nat /\ MaxDepartures \in Nat
  /\ IsFiniteSet(Rollouts)

VARIABLES
  current_step,        \* PolicyStatusManager.current_step
  samples_on_the_fly,  \* PolicyStatusManager.samples_on_the_fly
  rollout_buffer,      \* versions of the buffered rollouts
  batch,               \* versions of the rollouts of the step in training
  prompt_num,          \* Controller.weight_version_to_prompt_num
  prompts,             \* prompts left in the dataloader
  syncs,               \* weight syncs published and not yet executed
  members,             \* registered rollout replicas
  live,                \* worker: current_weight_version
  queue,               \* worker: tags of the batch in _prompt_queue
  done,                \* worker: generations not yet posted
  lost,                \* samples lost by generation
  stale                \* samples dropped at the gate or by the filter

flowVars == <<current_step, samples_on_the_fly, rollout_buffer, batch>>
vars == <<current_step, samples_on_the_fly, rollout_buffer, batch, prompt_num,
          prompts, syncs, members, live, queue, done, lost, stale>>

Generation == [version : Nat, count : Nat]

TypeOK ==
  /\ current_step \in Nat /\ samples_on_the_fly \in Nat
  /\ rollout_buffer \in Seq(Nat) /\ batch \in Seq(Nat)
  /\ prompt_num \in [0 .. Prompts -> Nat]
  /\ prompts \in Nat /\ syncs \in Seq(Nat)
  /\ members \in SUBSET Rollouts
  /\ live \in [Rollouts -> Nat]
  /\ queue \in [Rollouts -> Seq(Nat)]
  /\ done \in [Rollouts -> Seq(Generation)]
  /\ lost \in Nat /\ stale \in Nat

Init ==
  /\ current_step = 0 /\ samples_on_the_fly = 0
  /\ rollout_buffer = <<>> /\ batch = <<>>
  /\ prompt_num = [v \in 0 .. Prompts |-> 0]
  /\ prompts = Prompts
  /\ syncs = <<>>
  /\ members = Rollouts
  /\ live = [r \in Rollouts |-> 0]
  /\ queue = [r \in Rollouts |-> <<>>]
  /\ done = [r \in Rollouts |-> <<>>]
  /\ lost = 0 /\ stale = 0

-----------------------------------------------------------------------------
(* Controller: training *)

total_steps == (Prompts * NGen) \div RolloutsPerBatch
training_finished == total_steps > 0 /\ current_step >= total_steps

(* Prompts needed for one policy step.                                     *)
global_batch_size == (RolloutsPerBatch + NGen - 1) \div NGen

(* The training fields once the buffer is `buf` and, if `idle`, no step is *)
(* running: a full buffer starts the next step with its oldest rollouts.   *)
try_trigger_data_fetch_and_training(buf, idle) ==
  IF idle /\ ~training_finished /\ Len(buf) >= RolloutsPerBatch
  THEN /\ current_step' = current_step + 1
       /\ batch' = SubSeq(buf, 1, RolloutsPerBatch)
       /\ rollout_buffer' = SubSeq(buf, RolloutsPerBatch + 1, Len(buf))
  ELSE /\ current_step' = current_step
       /\ batch' = IF idle THEN <<>> ELSE batch
       /\ rollout_buffer' = buf

(* The last ACK of the step: settle it, publish the new weights, go on.    *)
TrainAck ==
  /\ batch # <<>>
  /\ samples_on_the_fly' = samples_on_the_fly - Len(batch)
  /\ syncs' = IF current_step % SyncInterval = 0 /\ current_step # total_steps
              THEN Append(syncs, current_step) ELSE syncs
  /\ try_trigger_data_fetch_and_training(rollout_buffer, TRUE)
  /\ UNCHANGED <<prompt_num, prompts, members, live, queue, done, lost, stale>>

-----------------------------------------------------------------------------
(* Controller: tagging the prompts it hands out *)

(* No replica has left so far: both replica_scaling_logs are empty.        *)
versions_controlled == members = Rollouts

soft_throttle_engaged ==
  samples_on_the_fly >= (AllowedOutdated + 1) * RolloutsPerBatch

weight_version_for_current_batch ==
  current_step + Len(rollout_buffer) \div RolloutsPerBatch

(* Mutant: a version is closed one prompt early.                           *)
version_full_early(num, v) == num[v] >= global_batch_size - 1

version_full(num, v) == num[v] >= global_batch_size

(* w is the first version from v on that still lacks prompts.              *)
next_open(num, v, w) ==
  /\ v <= w /\ ~version_full(num, w)
  /\ \A u \in v .. w - 1 : version_full(num, u)

(* The count once the first i prompts of a batch have got their tags.      *)
counted(tags, i) ==
  [v \in 0 .. Prompts |-> prompt_num[v] + Cardinality({j \in 1 .. i : tags[j] = v})]

(* The tags of a batch: each prompt gets the first version still open, and *)
(* is counted before the next one is tagged.                               *)
tagging(tags) ==
  \A i \in DOMAIN tags :
    next_open(counted(tags, i - 1),
              IF i = 1 THEN weight_version_for_current_batch ELSE tags[i - 1],
              tags[i])

(* Mutant: prompts are counted, not the samples they will yield.           *)
prompts_in_flight(n) == n

samples_in_flight(n) == n * NGen

(* request_new_prompts and get_batched_prompt: once a replica has left,    *)
(* prompts are tagged 0 and not counted.                                   *)
RequestNewPrompts(r) ==
  LET n == IF FetchBatch <= prompts THEN FetchBatch ELSE prompts
  IN /\ r \in members
     /\ queue[r] = <<>>
     /\ ~soft_throttle_engaged
     /\ n > 0
     /\ \E tags \in [1 .. n -> 0 .. Prompts] :
          IF versions_controlled
          THEN /\ tagging(tags)
               /\ queue' = [queue EXCEPT ![r] = tags]
               /\ prompt_num' = counted(tags, n)
          ELSE /\ tags = [i \in 1 .. n |-> 0]
               /\ queue' = [queue EXCEPT ![r] = tags]
               /\ prompt_num' = prompt_num
     /\ prompts' = prompts - n
     /\ samples_on_the_fly' = samples_on_the_fly + samples_in_flight(n)
     /\ UNCHANGED <<current_step, rollout_buffer, batch, syncs, members, live,
                    done, lost, stale>>

-----------------------------------------------------------------------------
(* Rollout worker *)

(* Mutant: the gate is one version too narrow.                             *)
serve_below(requested, version) ==
  IF OnPolicy THEN requested = version ELSE requested < version + AllowedOutdated

(* prompt_version_decision: SERVE, DROP, and otherwise WAIT.               *)
serve(requested, version) ==
  IF OnPolicy THEN requested = version ELSE requested <= version + AllowedOutdated
drop(requested, version) == OnPolicy /\ requested < version

(* _batch_requested_weight_version: the batch's one tag; a mixed batch is  *)
(* a RuntimeError, and the worker makes no further step with it.           *)
requests(r, version) == queue[r] # <<>> /\ Range(queue[r]) = {version}

(* Mutant: the forecast tag stays on the payload.                          *)
stamp_requested(r) == Head(queue[r])

(* _call_rollout_generation: what the payloads are stamped with.           *)
actual_version(r) == live[r]

(* The main loop serves the batch: all of it but `k` prompts is generated, *)
(* those are reported as discarded.                                        *)
OneStepGeneration(r) ==
  \E k \in 0 .. Len(queue[r]) :
    /\ r \in members
    /\ \E v \in Range(queue[r]) : requests(r, v) /\ serve(v, live[r])
    /\ lost + k * NGen <= MaxLost * NGen
    /\ queue' = [queue EXCEPT ![r] = <<>>]
    /\ done' = IF k = Len(queue[r]) THEN done
               ELSE [done EXCEPT ![r] = Append(@,
                       [version |-> actual_version(r),
                        count |-> (Len(queue[r]) - k) * NGen])]
    /\ lost' = lost + k * NGen
    /\ samples_on_the_fly' = samples_on_the_fly - k * NGen
    /\ UNCHANGED <<current_step, rollout_buffer, batch, prompt_num, prompts,
                   syncs, members, live, stale>>

(* Strict on-policy: a batch for an older version is dropped and reported. *)
DropStaleBatch(r) ==
  /\ r \in members
  /\ \E v \in Range(queue[r]) : requests(r, v) /\ drop(v, live[r])
  /\ queue' = [queue EXCEPT ![r] = <<>>]
  /\ stale' = stale + Len(queue[r]) * NGen
  /\ samples_on_the_fly' = samples_on_the_fly - Len(queue[r]) * NGen
  /\ UNCHANGED <<current_step, rollout_buffer, batch, prompt_num, prompts,
                 syncs, members, live, done, lost>>

(* The step whose weights will be trained when the idx-th rollout of a     *)
(* post, counted from 0, is used.                                          *)
estimated_step(idx) ==
  current_step + (idx + Len(rollout_buffer)) \div RolloutsPerBatch

(* Mutant: the estimate is taken for the next step, not the weights.       *)
fresh_for_next_step(idx, v) == estimated_step(idx) - (v + 1) <= AllowedOutdated

(* filter_outdated_rollouts keeps the idx-th rollout, stamped v.           *)
fresh(idx, v) == estimated_step(idx) - v <= AllowedOutdated

(* report_rollouts posts one generation; put_rollout_group filters it,     *)
(* buffers the rest and starts a step if it can.  The estimate grows along *)
(* the post, so what is kept are its first rollouts.                       *)
ReportRollouts(r) ==
  LET g == Head(done[r])
  IN /\ r \in members
     /\ done[r] # <<>>
     /\ \E kept \in 0 .. g.count :
          /\ \A idx \in 0 .. g.count - 1 : (idx < kept) = fresh(idx, g.version)
          /\ samples_on_the_fly' = samples_on_the_fly - (g.count - kept)
          /\ stale' = stale + (g.count - kept)
          /\ try_trigger_data_fetch_and_training(
               rollout_buffer \o [i \in 1 .. kept |-> g.version], batch = <<>>)
     /\ done' = [done EXCEPT ![r] = Tail(@)]
     /\ UNCHANGED <<prompt_num, prompts, syncs, members, live, queue, lost>>

(* P2R and R2R of one sync round: every member adopts the new version.     *)
WeightSync ==
  /\ syncs # <<>>
  /\ live' = [r \in Rollouts |-> IF r \in members THEN Head(syncs) ELSE live[r]]
  /\ syncs' = Tail(syncs)
  /\ UNCHANGED <<flowVars, prompt_num, prompts, members, queue, done, lost, stale>>

(* A replica that holds no work dies and is reaped.                        *)
Depart(r) ==
  /\ Cardinality(Rollouts \ members) < MaxDepartures
  /\ r \in members /\ members # {r}
  /\ queue[r] = <<>> /\ done[r] = <<>>
  /\ members' = members \ {r}
  /\ UNCHANGED <<flowVars, prompt_num, prompts, syncs, live, queue, done, lost, stale>>

(* Nothing is left to do: module JobControl shuts the job down.            *)
Finished ==
  /\ batch = <<>> /\ syncs = <<>>
  /\ training_finished \/ (prompts = 0 /\ \A r \in members : queue[r] = <<>>)
  /\ \A r \in members : done[r] = <<>>
  /\ UNCHANGED vars

Next ==
  \/ TrainAck \/ WeightSync \/ Finished
  \/ \E r \in Rollouts :
       \/ RequestNewPrompts(r) \/ OneStepGeneration(r) \/ DropStaleBatch(r)
       \/ ReportRollouts(r) \/ Depart(r)

Spec == Init /\ [][Next]_vars

(* Worker loops and the command path make progress; departures need not.   *)
FairSpec ==
  /\ Spec
  /\ WF_vars(TrainAck) /\ WF_vars(WeightSync)
  /\ \A r \in Rollouts :
       /\ WF_vars(RequestNewPrompts(r)) /\ WF_vars(OneStepGeneration(r))
       /\ WF_vars(DropStaleBatch(r)) /\ WF_vars(ReportRollouts(r))

-----------------------------------------------------------------------------
(* Properties *)

(* allowed_outdated_steps is a bound on what is trained, although the      *)
(* filter decides at arrival from an estimate: no rollout of the step in   *)
(* training was generated more than that many versions before the weights  *)
(* the step starts from.                                                   *)
StalenessBound ==
  \A i \in DOMAIN batch : (current_step - 1) - batch[i] <= AllowedOutdated

(* The assertion of filter_outdated_rollouts cannot fail: no generation    *)
(* waiting to be posted carries a version the trainer has not reached.     *)
VersionNotAhead ==
  \A r \in Rollouts : \A i \in DOMAIN done[r] : done[r][i].version <= current_step

(* A fetched batch asks for one weight version, so that                    *)
(* _batch_requested_weight_version does not raise.                         *)
OneVersionPerBatch ==
  \A r \in members : Cardinality(Range(queue[r])) <= 1

(* The comment on the tag: it "could ensure that each step of policy will  *)
(* get enough and accurate prompts" (dispatcher/controller.py).  As many   *)
(* steps are trained as the samples that were not lost or outdated allow.  *)
EnoughPrompts ==
  <>[](current_step >= (Prompts * NGen - lost - stale) \div RolloutsPerBatch)

(* The version quota tolerates loss up to the staleness allowance: unless  *)
(* more than allowed_outdated_steps global batches of samples are lost or  *)
(* outdated, the gate never closes for good and the rest is trained.       *)
TolerantGate ==
  [](lost + stale <= AllowedOutdated * RolloutsPerBatch) => EnoughPrompts
===============================================================================
