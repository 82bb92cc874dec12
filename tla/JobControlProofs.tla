--------------------------- MODULE JobControlProofs ---------------------------
(***************************************************************************)
(* Theorems about module JobControl, for any number of replicas, prompts   *)
(* and crashes.                                                            *)
(*                                                                         *)
(* Types: every method of module Controller maps a well-typed controller   *)
(* to a well-typed controller, and so every reachable state is well typed. *)
(*                                                                         *)
(* The handshake between controller and policy workers is an invariant.    *)
(* Two facts a reader of the shutdown code relies on follow from it: STOP  *)
(* is safe, and registered policies never hold work of different steps.    *)
(* The argument goes method by method: each one maps a controller whose    *)
(* fields agree with the workers' commands w to one that agrees with the   *)
(* commands after the call.                                                *)
(***************************************************************************)
EXTENDS JobControl, FiniteSetTheorems, TLAPS

-----------------------------------------------------------------------------
(* The controller's methods *)

(* The number of registered policies, and with it the size of a global     *)
(* batch, is a natural number, positive while some policy is registered.   *)
LEMMA RequiredType ==
  ASSUME NEW c, ControllerTypeOK(c)
  PROVE  /\ required_rollouts(c) \in Nat
         /\ c.policies # {} => required_rollouts(c) > 0
<1>1. IsFiniteSet(c.policies)
  BY ReplicaAssumption, FS_Subset DEF ControllerTypeOK
<1>2. n_policy(c) \in Nat /\ (c.policies # {} => n_policy(c) > 0)
  BY <1>1, FS_CardinalityType, FS_EmptySet DEF n_policy
<1>3. \A n \in Nat : Batch * n \in Nat /\ (n > 0 => Batch * n > 0)
  BY ConfigAssumption
<1>. QED BY <1>2, <1>3 DEF required_rollouts

(* The horizon is an integer, whether it is frozen or not.                 *)
LEMMA HorizonType ==
  ASSUME NEW c, ControllerTypeOK(c)
  PROVE  training_horizon(c) \in Int
BY DEF ControllerTypeOK, training_horizon

(* Settling samples, buffered ones included, keeps the controller typed.   *)
LEMMA SettleType ==
  ASSUME NEW c, ControllerTypeOK(c), NEW count \in Nat
  PROVE  ControllerTypeOK(_settle_samples_on_the_fly(c, count))
BY DEF ControllerTypeOK, Fields, _settle_samples_on_the_fly

(* cleanup_buffered_rollouts empties the buffer and settles its samples.   *)
LEMMA CleanupType ==
  ASSUME NEW c, ControllerTypeOK(c)
  PROVE  ControllerTypeOK(cleanup_buffered_rollouts(c))
BY DEF ControllerTypeOK, Fields, _settle_samples_on_the_fly, cleanup_buffered_rollouts

(* Recomputing the step budget divides by a positive batch.                *)
LEMMA RecomputeType ==
  ASSUME NEW c, ControllerTypeOK(c)
  PROVE  ControllerTypeOK(recompute_total_steps(c))
<1>1. CASE c.job_phase = "DRAINING" \/ training_finished(c) \/ c.policies = {}
  BY <1>1 DEF recompute_total_steps
<1>2. CASE ~(c.job_phase = "DRAINING" \/ training_finished(c) \/ c.policies = {})
  <2>. DEFINE q == c.remain_samples_num \div required_rollouts(c)
              t == IF MaxNumSteps = None THEN c.current_step + q
                   ELSE Smaller(c.current_step + q, MaxNumSteps)
  <2>1. q \in Int
    BY <1>2, RequiredType DEF ControllerTypeOK
  <2>2. t \in Int
    BY <2>1, ConfigAssumption DEF ControllerTypeOK, Smaller
  <2>3. recompute_total_steps(c) = [c EXCEPT !.total_steps = t]
    BY <1>2 DEF recompute_total_steps
  <2>. HIDE DEF t
  <2>. QED BY <2>2, <2>3 DEF ControllerTypeOK, Fields
<1>. QED BY <1>1, <1>2

(* Publishing appends a command of the right type to registered streams.   *)
LEMMA PublishType ==
  ASSUME NEW c, ControllerTypeOK(c), NEW cmd \in PolicyCommand
  PROVE  publish_to_policies(c, cmd) \in PolicyStreams
BY DEF ControllerTypeOK, PolicyStreams, publish_to_policies

(* set_status for all policies keeps the controller's types.               *)
LEMMA StatusType ==
  ASSUME NEW c, ControllerTypeOK(c), NEW s \in Status
  PROVE  set_all_status(c, s) \in [Policies -> Status]
BY DEF ControllerTypeOK, set_all_status

(* Dispatching a step takes a full batch out of the buffer, never more     *)
(* than it holds.                                                          *)
LEMMA TriggerType ==
  ASSUME NEW c, ControllerTypeOK(c)
  PROVE  ControllerTypeOK(try_trigger_data_fetch_and_training(c))
<1>. DEFINE step == c.current_step + 1
            cmd == [type |-> "DataFetch", step |-> step, total |-> training_horizon(c)]
            rec == [step |-> step, count |-> required_rollouts(c)]
            disp == {d \in c.dispatched : d.step # step} \cup {rec}
            stream == publish_to_policies(c, cmd)
            status == set_all_status(c, "RUNNING")
            n == required_rollouts(c)
<1>1. CASE ~(/\ c.policies # {} /\ ~training_finished(c)
             /\ all_ready_or_reduced(c) /\ rollouts_enough_for_one_step(c))
  BY <1>1 DEF try_trigger_data_fetch_and_training
<1>2. CASE /\ c.policies # {} /\ ~training_finished(c)
           /\ all_ready_or_reduced(c) /\ rollouts_enough_for_one_step(c)
  <2>1. step \in Nat /\ n \in Nat /\ c.rollout_buffer - n \in Nat
    BY <1>2, RequiredType DEF ControllerTypeOK, rollouts_enough_for_one_step
  <2>2. cmd \in PolicyCommand
    BY <2>1, HorizonType DEF PolicyCommand
  <2>3. stream \in PolicyStreams /\ status \in [Policies -> Status]
    BY <2>2, PublishType, StatusType DEF Status
  <2>4. disp \in SUBSET DispatchRecord
    BY <2>1 DEF ControllerTypeOK, DispatchRecord
  <2>5. try_trigger_data_fetch_and_training(c) =
          [c EXCEPT !.remain_samples_num = @ - n, !.current_step = step,
                    !.dispatched = disp, !.rollout_buffer = @ - n,
                    !.policy_stream = stream, !.status = status]
    BY <1>2 DEF try_trigger_data_fetch_and_training
  <2>. HIDE DEF stream, status, disp, n, step
  <2>. QED BY <2>1, <2>3, <2>4, <2>5 DEF ControllerTypeOK, Fields
<1>. QED BY <1>1, <1>2

(* trigger_training_complete keeps the controller's types.                 *)
LEMMA CompleteType ==
  ASSUME NEW c, ControllerTypeOK(c)
  PROVE  ControllerTypeOK(trigger_training_complete(c))
<1>. DEFINE step == c.current_step + 1
            cmd == [type |-> "TrainingComplete", step |-> step, total |-> step]
            stream == publish_to_policies(c, cmd)
            status == set_all_status(c, "RUNNING")
<1>1. CASE c.policies = {} \/ c.completion_step # None
  BY <1>1 DEF trigger_training_complete
<1>2. CASE ~(c.policies = {} \/ c.completion_step # None)
  <2>1. step \in Nat
    BY DEF ControllerTypeOK
  <2>2. stream \in PolicyStreams /\ status \in [Policies -> Status]
    BY <2>1, PublishType, StatusType DEF Status, PolicyCommand
  <2>3. trigger_training_complete(c) =
          [c EXCEPT !.completion_step = step, !.completion_recipients = c.policies,
                    !.completion_acks = {}, !.policy_stream = stream, !.status = status]
    BY <1>2 DEF trigger_training_complete
  <2>. HIDE DEF stream, status, step
  <2>. QED BY <2>1, <2>2, <2>3 DEF ControllerTypeOK, Fields
<1>. QED BY <1>1, <1>2

(* A weight sync appends a send to one policy and a receive or broadcast   *)
(* to the rollouts.                                                        *)
LEMMA SyncType ==
  ASSUME NEW c, ControllerTypeOK(c), c.policies # {}, NEW step \in Nat
  PROVE  ControllerTypeOK(trigger_weight_sync(c, step))
<1>. DEFINE targets == c.rollouts
            src == CHOOSE p \in c.policies : TRUE
            dst == CHOOSE r \in targets : TRUE
            p2r(peer) == [type |-> "P2R", step |-> step, peer |-> peer]
            r2r == [type |-> "R2R", step |-> step, peers |-> targets]
            ps == [c.policy_stream EXCEPT ![src] = Append(@, p2r(dst))]
            rs == [r \in Rollouts |->
                     IF r \notin targets THEN c.rollout_stream[r]
                     ELSE c.rollout_stream[r]
                            \o (IF r = dst THEN <<p2r(src)>> ELSE <<>>) \o <<r2r>>]
<1>1. CASE targets = {}
  BY <1>1 DEF trigger_weight_sync, get_safe_weight_sync_replicas
<1>2. CASE targets # {}
  <2>1. src \in Policies /\ dst \in Rollouts
    BY <1>2 DEF ControllerTypeOK
  <2>2. p2r(dst) \in PolicyCommand /\ p2r(src) \in RolloutCommand
    BY <2>1 DEF PolicyCommand, RolloutCommand
  <2>3. r2r \in RolloutCommand
    BY DEF ControllerTypeOK, RolloutCommand
  <2>4. ps \in PolicyStreams
    BY <2>1, <2>2 DEF ControllerTypeOK, PolicyStreams
  <2>5. rs \in RolloutStreams
    <3>. SUFFICES ASSUME NEW r \in Rollouts PROVE rs[r] \in Seq(RolloutCommand)
      BY DEF RolloutStreams
    <3>1. c.rollout_stream[r] \in Seq(RolloutCommand)
      BY DEF ControllerTypeOK, RolloutStreams
    <3>2. (IF r = dst THEN <<p2r(src)>> ELSE <<>>) \in Seq(RolloutCommand)
      BY <2>2
    <3>3. <<r2r>> \in Seq(RolloutCommand)
      BY <2>3
    <3>. HIDE DEF p2r, r2r, src, dst
    <3>. QED BY <3>1, <3>2, <3>3
  <2>6. trigger_weight_sync(c, step) = [c EXCEPT !.policy_stream = ps, !.rollout_stream = rs]
    BY <1>2 DEF trigger_weight_sync, get_safe_weight_sync_replicas
  <2>. HIDE DEF ps, rs
  <2>. QED BY <2>4, <2>5, <2>6 DEF ControllerTypeOK, Fields
<1>. QED BY <1>1, <1>2

-----------------------------------------------------------------------------
(* Draining *)

(* Entering and finishing the draining phase keep the types.               *)
LEMMA DrainingType ==
  ASSUME NEW c, ControllerTypeOK(c)
  PROVE  /\ ControllerTypeOK(enter_draining_phase(c))
         /\ ControllerTypeOK(drain_or_complete(c))
         /\ ControllerTypeOK(finish_draining_phase(c))
<1>1. \A d : ControllerTypeOK(d) => ControllerTypeOK(enter_draining_phase(d))
  BY DEF ControllerTypeOK, Fields, enter_draining_phase, JobPhase
<1>2. \A d : ControllerTypeOK(d) => ControllerTypeOK([d EXCEPT !.terminal_complete = TRUE])
  BY DEF ControllerTypeOK, Fields
<1>3. \A d : ControllerTypeOK(d) => ControllerTypeOK(drain_or_complete(d))
  BY <1>2, TriggerType, CleanupType, CompleteType DEF drain_or_complete
<1>. QED BY <1>1, <1>3, CleanupType DEF finish_draining_phase

(* Recording the ACK of the last real command keeps the types.             *)
LEMMA RecordAckType ==
  ASSUME NEW c, ControllerTypeOK(c), NEW step \in Nat, NEW total \in Int
  PROVE  ControllerTypeOK(record_real_datafetch_acked(c, step, total))
<1>. DEFINE d == [c EXCEPT !.acked_step = step, !.acked_total_steps = total]
<1>1. ControllerTypeOK(d) /\ ControllerTypeOK([d EXCEPT !.terminal_complete = TRUE])
  BY DEF ControllerTypeOK, Fields
<1>. QED BY <1>1, CleanupType DEF record_real_datafetch_acked

(* Recording the ACK of the terminal command keeps the types.              *)
LEMMA CompletionAckType ==
  ASSUME NEW c, ControllerTypeOK(c), NEW p \in Policies
  PROVE  ControllerTypeOK(record_completion_ack(c, p))
<1>1. [c.status EXCEPT ![p] = "REDUCED"] \in [Policies -> Status]
  BY DEF ControllerTypeOK, Status
<1>2. (c.terminal_complete \/ (p \notin c.completion_acks
         /\ c.completion_acks \cup {p} = c.completion_recipients)) \in BOOLEAN
  OBVIOUS
<1>. QED BY <1>1, <1>2 DEF ControllerTypeOK, Fields, record_completion_ack

-----------------------------------------------------------------------------
(* Handlers *)

(* Settling a completed step keeps the controller's types.                 *)
LEMMA SettleStepType ==
  ASSUME NEW c, ControllerTypeOK(c), c.policies # {},
         NEW step \in Nat, NEW total \in Int
  PROVE  ControllerTypeOK(settle_step(c, step, total))
<1>. DEFINE record == {d \in c.dispatched : d.step = step}
            popped == [c EXCEPT
                         !.dispatched = @ \ record,
                         !.samples_on_the_fly =
                           IF record = {} THEN @
                           ELSE @ - (CHOOSE d \in record : TRUE).count]
            counted == IF record = {} THEN popped
                       ELSE record_real_datafetch_acked(popped, step, total)
            ready == [counted EXCEPT !.status = set_all_status(counted, "READY")]
            synced == IF should_weight_sync_after_train_ack(counted, step)
                      THEN trigger_weight_sync(ready, step) ELSE ready
<1>1. ControllerTypeOK(popped) /\ popped.policies = c.policies
  <2>1. record # {} => (CHOOSE d \in record : TRUE).count \in Nat
    <3>1. record \subseteq DispatchRecord
      BY DEF ControllerTypeOK
    <3>. HIDE DEF record
    <3>. QED BY <3>1 DEF DispatchRecord
  <2>2. c.dispatched \ record \in SUBSET DispatchRecord
    BY DEF ControllerTypeOK
  <2>. HIDE DEF record
  <2>. QED BY <2>1, <2>2 DEF ControllerTypeOK, Fields
<1>. HIDE DEF popped
<1>2. ControllerTypeOK(counted) /\ counted.policies = c.policies
  <2>1. ControllerTypeOK(record_real_datafetch_acked(popped, step, total))
    BY <1>1, RecordAckType
  <2>2. record_real_datafetch_acked(popped, step, total).policies = popped.policies
    BY <1>1 DEF record_real_datafetch_acked, cleanup_buffered_rollouts,
                _settle_samples_on_the_fly, ControllerTypeOK, Fields
  <2>. QED BY <1>1, <2>1, <2>2
<1>. HIDE DEF counted
<1>3. ControllerTypeOK(ready) /\ ready.policies = c.policies
  <2>1. set_all_status(counted, "READY") \in [Policies -> Status]
    BY <1>2, StatusType DEF Status
  <2>. QED BY <1>2, <2>1 DEF ControllerTypeOK, Fields
<1>. HIDE DEF ready
<1>4. ControllerTypeOK(synced)
  BY <1>3, SyncType
<1>5. settle_step(c, step, total) =
        IF synced.job_phase = "DRAINING" THEN finish_draining_phase(synced)
        ELSE try_trigger_data_fetch_and_training(synced)
  BY DEF settle_step, popped, counted, ready
<1>. HIDE DEF synced
<1>. QED BY <1>4, <1>5, DrainingType, TriggerType

(* The train_ack handler keeps the controller's types.                     *)
LEMMA TrainAckType ==
  ASSUME NEW c, ControllerTypeOK(c), NEW p \in c.policies,
         NEW step \in Nat, NEW total \in Int
  PROVE  ControllerTypeOK(train_ack(c, p, step, total))
<1>. DEFINE reduced == [c EXCEPT !.status[p] = "REDUCED"]
<1>1. p \in Policies
  BY DEF ControllerTypeOK
<1>2. ControllerTypeOK(reduced) /\ reduced.policies # {}
  <2>1. [c.status EXCEPT ![p] = "REDUCED"] \in [Policies -> Status]
    BY <1>1 DEF ControllerTypeOK, Status
  <2>. QED BY <2>1 DEF ControllerTypeOK, Fields
<1>. HIDE DEF reduced
<1>3. ControllerTypeOK(settle_step(reduced, step, total))
  BY <1>2, SettleStepType
<1>4. ControllerTypeOK(record_completion_ack(c, p))
  BY <1>1, CompletionAckType
<1>. QED BY <1>2, <1>3, <1>4 DEF train_ack, reduced

(* Results, discard reports and end signals of rollouts.                   *)
LEMMA PutType ==
  ASSUME NEW c, ControllerTypeOK(c), NEW count \in Nat, NEW kept \in 0 .. count
  PROVE  ControllerTypeOK(put_rollout_group(c, count, kept))
<1>. DEFINE f == filter_outdated_rollouts(c, count, kept)
<1>1. count - kept \in Nat
  OBVIOUS
<1>2. ControllerTypeOK(f)
  BY <1>1 DEF filter_outdated_rollouts, _settle_samples_on_the_fly,
              ControllerTypeOK, Fields
<1>. HIDE DEF f
<1>3. ControllerTypeOK([f EXCEPT !.rollout_buffer = @ + kept])
  BY <1>2 DEF ControllerTypeOK, Fields
<1>. QED BY <1>2, <1>3, SettleType, TriggerType DEF put_rollout_group, f

(* A discard report keeps the controller's types.                          *)
LEMMA DiscardType ==
  ASSUME NEW c, ControllerTypeOK(c), NEW r \in Rollouts,
         NEW id \in Nat, NEW count \in Nat
  PROVE  /\ ControllerTypeOK(settle_discarded_samples(c, r, id, count))
         /\ ControllerTypeOK(forget_discard_reports(c, r))
<1>1. ControllerTypeOK(_settle_samples_on_the_fly(c, count))
  BY SettleType
<1>2. \A d : ControllerTypeOK(d) =>
        ControllerTypeOK([d EXCEPT !.discard_reports = @ \cup {<<r, id>>}])
  BY DEF ControllerTypeOK, Fields
<1>3. ControllerTypeOK(forget_discard_reports(c, r))
  BY DEF forget_discard_reports, ControllerTypeOK, Fields
<1>. QED BY <1>1, <1>2, <1>3 DEF settle_discarded_samples

(* A rollout's end signal keeps the controller's types.                    *)
LEMMA EndType ==
  ASSUME NEW c, ControllerTypeOK(c), NEW r \in Rollouts
  PROVE  ControllerTypeOK(rollout_end(c, r))
<1>1. ControllerTypeOK([c EXCEPT !.ended = @ \cup {r}])
  BY DEF ControllerTypeOK, Fields
<1>2. \A d : ControllerTypeOK(d) => ControllerTypeOK(forget_discard_reports(d, r))
  BY DEF forget_discard_reports, ControllerTypeOK, Fields
<1>. QED BY <1>1, <1>2, DrainingType DEF rollout_end

(* Departures, the monitor's decisions and prompt fetches.                 *)
LEMMA LeaveType ==
  ASSUME NEW c, ControllerTypeOK(c), NEW p \in Policies, NEW r \in Rollouts
  PROVE  /\ ControllerTypeOK(unregister_policy(c, p))
         /\ ControllerTypeOK(unregister_rollout(c, r))
<1>1. ControllerTypeOK([c EXCEPT !.policies = @ \ {p}])
  BY DEF ControllerTypeOK, Fields
<1>2. ControllerTypeOK(unregister_rollout(c, r))
  BY DEF unregister_rollout, ControllerTypeOK, Fields
<1>. QED BY <1>1, <1>2, RecomputeType DEF unregister_policy

(* _maybe_finalize keeps the controller's types.                           *)
LEMMA FinalizeType ==
  ASSUME NEW c, ControllerTypeOK(c), NEW reaping \in BOOLEAN
  PROVE  ControllerTypeOK(_maybe_finalize(c, reaping))
<1>1. (c.should_exit \/ (/\ c.policies = {} /\ c.rollouts = {}
                         /\ reaping \/ training_finished(c))) \in BOOLEAN
  OBVIOUS
<1>. QED BY <1>1 DEF _maybe_finalize, ControllerTypeOK, Fields

(* Publishing STOP keeps the controller's types.                           *)
LEMMA StopType ==
  ASSUME NEW c, ControllerTypeOK(c)
  PROVE  ControllerTypeOK(broadcast_stop(c))
<1>. DEFINE rs == [r \in Rollouts |->
                     IF r \in c.rollouts
                     THEN Append(c.rollout_stream[r], [type |-> "STOP"])
                     ELSE c.rollout_stream[r]]
<1>1. rs \in RolloutStreams
  BY DEF ControllerTypeOK, RolloutStreams, RolloutCommand
<1>2. broadcast_stop(c) = [c EXCEPT !.rollout_stream = rs, !.stop_broadcast_sent = TRUE]
  BY DEF broadcast_stop
<1>. HIDE DEF rs
<1>. QED BY <1>1, <1>2 DEF ControllerTypeOK, Fields

(* Handing out prompts keeps the controller's types.                       *)
LEMMA FetchType ==
  ASSUME NEW c, ControllerTypeOK(c), NEW n \in Nat, NEW left \in Nat
  PROVE  /\ prompts_granted(c, n, left) \in 0 .. left
         /\ prompt_stream_ended(c, n, left) \in BOOLEAN
         /\ \A count \in Nat : ControllerTypeOK(fetch_prompts(c, count))
<1>1. \A count \in Nat : count * NGen \in Nat
  BY ConfigAssumption
<1>2. \A count \in Nat : ControllerTypeOK(fetch_prompts(c, count))
  BY <1>1 DEF fetch_prompts, ControllerTypeOK, Fields
<1>3. prompts_granted(c, n, left) \in 0 .. left
  BY DEF prompts_granted, Smaller
<1>4. prompt_stream_ended(c, n, left) \in BOOLEAN
  BY DEF prompt_stream_ended
<1>. QED BY <1>2, <1>3, <1>4
-----------------------------------------------------------------------------
(* Type correctness *)

(* The controller after setup is well typed.                               *)
LEMMA InitControllerType == ControllerTypeOK(InitController)
<1>. DEFINE c == [policies |-> Policies, status |-> [p \in Policies |-> "READY"],
     current_step |-> 0, total_steps |-> 0,
     remain_samples_num |-> Prompts * NGen, samples_on_the_fly |-> 0,
     rollout_buffer |-> 0, dispatched |-> {}, job_phase |-> "RUNNING",
     draining_total_steps |-> None, acked_step |-> None,
     acked_total_steps |-> None, completion_step |-> None,
     completion_recipients |-> {}, completion_acks |-> {},
     terminal_complete |-> FALSE, rollouts |-> Rollouts, ended |-> {},
     discard_reports |-> {}, policy_stream |-> [p \in Policies |-> <<>>],
     rollout_stream |-> [r \in Rollouts |-> <<>>],
     stop_broadcast_sent |-> FALSE, should_exit |-> FALSE]
<1>1. Prompts * NGen \in Int
  BY JobAssumption, ConfigAssumption
<1>2. [p \in Policies |-> <<>>] \in PolicyStreams /\ [r \in Rollouts |-> <<>>] \in RolloutStreams
  BY DEF PolicyStreams, RolloutStreams
<1>3. ControllerTypeOK(c)
  BY <1>1, <1>2 DEF ControllerTypeOK, Fields, Status, JobPhase
<1>. QED BY <1>3, RecomputeType DEF InitController

(* Taking commands off the streams keeps the controller typed.             *)
LEMMA ConsumeType ==
  ASSUME NEW c, ControllerTypeOK(c),
         NEW ps \in PolicyStreams, NEW rs \in RolloutStreams
  PROVE  /\ ControllerTypeOK([c EXCEPT !.policy_stream = ps])
         /\ ControllerTypeOK([c EXCEPT !.rollout_stream = rs])
         /\ ControllerTypeOK([c EXCEPT !.policy_stream = ps, !.rollout_stream = rs])
BY DEF ControllerTypeOK, Fields

(* The command a policy works on is well typed as soon as there is one.    *)
LEMMA CommandType ==
  ASSUME TypeOK, NEW p \in Policies, cur[p] # None
  PROVE  /\ cur[p] \in PolicyCommand /\ cur[p].step \in Nat
         /\ cur[p].type # "P2R" => cur[p].total \in Int
BY DEF TypeOK, PolicyCommand

(* Taking the head off one stream leaves streams.                          *)
LEMMA TailType ==
  ASSUME TypeOK
  PROVE  /\ \A p \in Policies : ctl.policy_stream[p] # <<>> =>
              /\ Head(ctl.policy_stream[p]) \in PolicyCommand
              /\ [ctl.policy_stream EXCEPT ![p] = Tail(@)] \in PolicyStreams
         /\ \A r \in Rollouts : ctl.rollout_stream[r] # <<>> =>
              /\ Head(ctl.rollout_stream[r]) \in RolloutCommand
              /\ [ctl.rollout_stream EXCEPT ![r] = Tail(@)] \in RolloutStreams
         /\ ctl.policy_stream \in PolicyStreams /\ ctl.rollout_stream \in RolloutStreams
BY DEF TypeOK, ControllerTypeOK, PolicyStreams, RolloutStreams

(* Every step of a policy worker, its reaping and its crash included.      *)
LEMMA TypeStepPolicy ==
  ASSUME TypeOK, WorkerBusy, NEW p \in Policies, PolicyStep(p)
  PROVE  TypeOK' /\ WorkerBusy'
<1>1. CASE ExecuteCommand(p)
  <2>. DEFINE cmd == Head(ctl.policy_stream[p])
              ps == [ctl.policy_stream EXCEPT ![p] = Tail(@)]
  <2>1. cmd \in PolicyCommand /\ ps \in PolicyStreams /\ cmd # None
    BY <1>1, TailType, NoneAssumption DEF ExecuteCommand
  <2>2. ctl' = [ctl EXCEPT !.policy_stream = ps]
    BY <1>1 DEF ExecuteCommand
  <2>. HIDE DEF ps
  <2>3. ControllerTypeOK(ctl')
    BY <2>1, <2>2, TailType, ConsumeType DEF TypeOK
  <2>. HIDE DEF cmd
  <2>. QED BY <1>1, <2>1, <2>3
           DEF ExecuteCommand, TypeOK, WorkerBusy, PolicyPC, rolloutVars, cmd
<1>2. CASE TrainAck(p)
  <2>1. cur[p] # None /\ cur[p].type # "P2R"
    BY <1>2 DEF TrainAck, WorkerBusy
  <2>2. ControllerTypeOK(ctl')
    BY <1>2, <2>1, CommandType, TrainAckType DEF TrainAck, TypeOK
  <2>3. abort' \in [Policies -> BOOLEAN]
    BY <1>2 DEF TrainAck, TypeOK
  <2>. QED BY <1>2, <2>2, <2>3 DEF TrainAck, TypeOK, WorkerBusy, PolicyPC, rolloutVars
<1>3. CASE UnregisterPolicy(p)
  <2>1. ControllerTypeOK(ctl')
    BY <1>3, LeaveType, FinalizeType, ReplicaAssumption DEF UnregisterPolicy, TypeOK
  <2>. QED BY <1>3, <2>1 DEF UnregisterPolicy, TypeOK, WorkerBusy, PolicyPC, rolloutVars
<1>4. CASE ReapPolicy(p)
  <2>1. ControllerTypeOK(ctl')
    BY <1>4, LeaveType, ReplicaAssumption DEF ReapPolicy, TypeOK
  <2>. QED BY <1>4, <2>1 DEF ReapPolicy, TypeOK, WorkerBusy, policyVars, rolloutVars
<1>5. CASE CrashPolicy(p)
  BY <1>5 DEF CrashPolicy, TypeOK, WorkerBusy, PolicyPC, rolloutVars
<1>6. ASSUME NEW r \in Rollouts, PolicyToRollout(p, r) PROVE TypeOK' /\ WorkerBusy'
  <2>. DEFINE ps == [ctl.policy_stream EXCEPT ![p] = Tail(@)]
              rs == [ctl.rollout_stream EXCEPT ![r] = Tail(@)]
  <2>1. ps \in PolicyStreams /\ rs \in RolloutStreams
    BY <1>6, TailType DEF PolicyToRollout
  <2>2. ctl' = [ctl EXCEPT !.policy_stream = ps, !.rollout_stream = rs]
    BY <1>6 DEF PolicyToRollout, TypeOK, ControllerTypeOK, Fields
  <2>. HIDE DEF ps, rs
  <2>3. ControllerTypeOK(ctl')
    BY <2>1, <2>2, ConsumeType DEF TypeOK
  <2>. QED BY <1>6, <2>3 DEF PolicyToRollout, TypeOK, WorkerBusy, policyVars, rolloutVars
<1>. QED BY <1>1, <1>2, <1>3, <1>4, <1>5, <1>6 DEF PolicyStep

(* Every step of a rollout worker, its reaping and its crash included.     *)
LEMMA TypeStepRollout ==
  ASSUME TypeOK, WorkerBusy, NEW r \in Rollouts, RolloutStep(r)
  PROVE  TypeOK' /\ WorkerBusy'
<1>0. UNCHANGED policyVars
  BY DEF RolloutStep, RequestNewPrompts, OneStepGeneration, ReportDiscardedSamples,
         ReportRollouts, SendEndSignal, RolloutToRollout, HandleStop,
         UnregisterRollout, ReapRollout, CrashRollout, policyVars, rolloutVars
<1>. SUFFICES ControllerTypeOK(ctl') /\ prompts' \in Nat
                /\ rpc' \in [Rollouts -> RolloutPC]
                /\ fetch_end' \in [Rollouts -> BOOLEAN] /\ queue' \in [Rollouts -> Nat]
                /\ done' \in [Rollouts -> Nat] /\ discard' \in [Rollouts -> Nat]
                /\ report_id' \in [Rollouts -> Nat]
  BY <1>0 DEF TypeOK, WorkerBusy, policyVars
<1>a. \A n \in Nat : n * NGen \in Nat
  BY ConfigAssumption
<1>1. CASE RequestNewPrompts(r)
  <2>. DEFINE granted == prompts_granted(ctl, FetchBatch, prompts)
              end == prompt_stream_ended(ctl, FetchBatch, prompts)
  <2>1. FetchBatch \in Nat /\ prompts \in Nat
    BY JobAssumption DEF TypeOK
  <2>2. granted \in 0 .. prompts
    BY <2>1, FetchType DEF TypeOK
  <2>3. end \in BOOLEAN
    BY <2>1, FetchType DEF TypeOK
  <2>. HIDE DEF granted, end
  <2>4. /\ ControllerTypeOK(fetch_prompts(ctl, granted))
        /\ prompts - granted \in Nat /\ granted \in Nat
    BY <2>1, <2>2, FetchType DEF TypeOK
  <2>. QED BY <1>1, <2>3, <2>4 DEF RequestNewPrompts, TypeOK, granted, end
<1>2. CASE OneStepGeneration(r)
  BY <1>2 DEF OneStepGeneration, TypeOK
<1>3. CASE ReportDiscardedSamples(r)
  <2>1. ControllerTypeOK(ctl')
    BY <1>3, <1>a, DiscardType DEF ReportDiscardedSamples, TypeOK
  <2>. QED BY <1>3, <2>1 DEF ReportDiscardedSamples, TypeOK
<1>4. CASE ReportRollouts(r)
  <2>1. ControllerTypeOK(ctl')
    BY <1>4, <1>a, PutType DEF ReportRollouts, TypeOK
  <2>. QED BY <1>4, <2>1 DEF ReportRollouts, TypeOK
<1>5. CASE SendEndSignal(r)
  <2>1. ControllerTypeOK(ctl')
    BY <1>5, EndType DEF SendEndSignal, TypeOK
  <2>. QED BY <1>5, <2>1 DEF SendEndSignal, TypeOK, RolloutPC
<1>6. CASE RolloutToRollout(r)
  <2>. DEFINE cmd == Head(ctl.rollout_stream[r])
              rs == [q \in Rollouts |-> IF q \in cmd.peers THEN Tail(ctl.rollout_stream[q])
                                                           ELSE ctl.rollout_stream[q]]
  <2>1. \A q \in Rollouts : q \in cmd.peers => ctl.rollout_stream[q] # <<>>
    BY <1>6 DEF RolloutToRollout
  <2>2. ctl.rollout_stream \in RolloutStreams
    BY TailType
  <2>. HIDE DEF cmd
  <2>3. rs \in RolloutStreams
    BY <2>1, <2>2 DEF RolloutStreams
  <2>4. ctl' = [ctl EXCEPT !.rollout_stream = rs]
    BY <1>6 DEF RolloutToRollout, cmd
  <2>. HIDE DEF rs
  <2>5. ControllerTypeOK(ctl')
    BY <2>3, <2>4, TailType, ConsumeType DEF TypeOK
  <2>. QED BY <1>6, <2>5 DEF RolloutToRollout, TypeOK, rolloutVars
<1>7. CASE HandleStop(r)
  <2>. DEFINE rs == [ctl.rollout_stream EXCEPT ![r] = Tail(@)]
  <2>1. rs \in RolloutStreams /\ ctl' = [ctl EXCEPT !.rollout_stream = rs]
    BY <1>7, TailType DEF HandleStop
  <2>. HIDE DEF rs
  <2>2. ControllerTypeOK(ctl')
    BY <2>1, TailType, ConsumeType DEF TypeOK
  <2>. QED BY <1>7, <2>2 DEF HandleStop, TypeOK, RolloutPC
<1>8. CASE UnregisterRollout(r)
  <2>1. ControllerTypeOK(ctl')
    BY <1>8, LeaveType, FinalizeType, ReplicaAssumption DEF UnregisterRollout, TypeOK
  <2>. QED BY <1>8, <2>1 DEF UnregisterRollout, TypeOK, RolloutPC
<1>9. CASE ReapRollout(r)
  <2>1. ControllerTypeOK(ctl')
    BY <1>9, LeaveType, ReplicaAssumption DEF ReapRollout, TypeOK
  <2>. QED BY <1>9, <2>1 DEF ReapRollout, TypeOK, rolloutVars
<1>10. CASE CrashRollout(r)
  BY <1>10 DEF CrashRollout, TypeOK, RolloutPC
<1>. QED BY <1>1, <1>2, <1>3, <1>4, <1>5, <1>6, <1>7, <1>8, <1>9, <1>10 DEF RolloutStep

(* The remaining steps: the joint training step and the monitor.           *)
LEMMA TypeStepOther ==
  ASSUME TypeOK, WorkerBusy,
         StepTraining \/ MonitorStop \/ MonitorFinalize \/ Exited \/ UNCHANGED vars
  PROVE  TypeOK' /\ WorkerBusy'
<1>1. CASE StepTraining
  BY <1>1 DEF StepTraining, TypeOK, WorkerBusy, PolicyPC, rolloutVars, ControllerTypeOK
<1>2. CASE MonitorStop
  <2>1. ControllerTypeOK(ctl')
    BY <1>2, StopType DEF MonitorStop, TypeOK
  <2>. QED BY <1>2, <2>1 DEF MonitorStop, TypeOK, WorkerBusy, policyVars, rolloutVars
<1>3. CASE MonitorFinalize
  <2>1. ControllerTypeOK(ctl')
    BY <1>3, FinalizeType DEF MonitorFinalize, TypeOK
  <2>. QED BY <1>3, <2>1 DEF MonitorFinalize, TypeOK, WorkerBusy, policyVars, rolloutVars
<1>4. CASE Exited \/ UNCHANGED vars
  BY <1>4 DEF Exited, vars, TypeOK, WorkerBusy
<1>. QED BY <1>1, <1>2, <1>3, <1>4

(* The job starts well typed, no worker busy without a command.            *)
LEMMA TypeInit == ASSUME Init PROVE TypeOK /\ WorkerBusy
BY InitControllerType, JobAssumption
   DEF Init, TypeOK, WorkerBusy, PolicyPC, RolloutPC

(* Every step of the job keeps the types.                                  *)
LEMMA TypeStep == ASSUME TypeOK, WorkerBusy, [Next]_vars PROVE TypeOK' /\ WorkerBusy'
BY TypeStepPolicy, TypeStepRollout, TypeStepOther DEF Next

(* Type correctness of the whole job: every method and handler keeps the   *)
(* controller and the workers in their types, whatever the interleaving    *)
(* and the crashes; in particular the rollout buffer never goes below zero *)
(* and a worker that trains or acknowledges holds a command to do it for.  *)
THEOREM TypeCorrect == Spec => []TypeOK
<1>1. Init => TypeOK /\ WorkerBusy
  BY TypeInit
<1>2. TypeOK /\ WorkerBusy /\ [Next]_vars => TypeOK' /\ WorkerBusy'
  BY TypeStep
<1>. QED BY <1>1, <1>2, PTL DEF Spec

-----------------------------------------------------------------------------
(* The handshake *)

Works == [Policies -> PolicyCommand \cup {None}]

Agreed(c, w) == ControllerTypeOK(c) /\ Lifecycle(c) /\ Handshakes(c, w)

(* The fields Agreed speaks of are the same in c and d.                    *)
SameBarrier(c, d) ==
  /\ d.policies = c.policies /\ d.status = c.status
  /\ d.policy_stream = c.policy_stream
  /\ d.current_step = c.current_step
  /\ training_horizon(d) = training_horizon(c)
  /\ d.completion_step = c.completion_step
  /\ d.completion_recipients = c.completion_recipients
  /\ d.completion_acks = c.completion_acks
  /\ d.terminal_complete = c.terminal_complete
  /\ d.acked_step = c.acked_step /\ d.acked_total_steps = c.acked_total_steps
  /\ d.stop_broadcast_sent = c.stop_broadcast_sent
  /\ d.job_phase = "DRAINING" <=> d.draining_total_steps # None

(* A change elsewhere keeps the agreement.                                 *)
LEMMA Frame ==
  ASSUME NEW c, NEW d, NEW w, Agreed(c, w), ControllerTypeOK(d), SameBarrier(c, d)
  PROVE  Agreed(d, w)
<1>1. \A cmd : Current(d, cmd) = Current(c, cmd)
  BY DEF SameBarrier, Current
<1>2. Handshakes(d, w)
  BY <1>1 DEF SameBarrier, Agreed, Handshakes, HandshakeOf
<1>3. Lifecycle(d)
  BY DEF SameBarrier, Agreed, Lifecycle
<1>. QED BY <1>2, <1>3 DEF Agreed

(* Accounting of samples and the end of a rollout are such changes.        *)
LEMMA AccountingFrame ==
  ASSUME NEW c, NEW w, Agreed(c, w), NEW n \in Nat
  PROVE  /\ Agreed(_settle_samples_on_the_fly(c, n), w)
         /\ Agreed(cleanup_buffered_rollouts(c), w)
         /\ SameBarrier(c, cleanup_buffered_rollouts(c))
<1>1. SameBarrier(c, _settle_samples_on_the_fly(c, n))
  BY DEF SameBarrier, _settle_samples_on_the_fly, Agreed, ControllerTypeOK, Fields,
         training_horizon, Lifecycle
<1>2. SameBarrier(c, cleanup_buffered_rollouts(c))
  BY DEF SameBarrier, _settle_samples_on_the_fly, cleanup_buffered_rollouts, Agreed,
         ControllerTypeOK, Fields, training_horizon, Lifecycle
<1>3. ControllerTypeOK(_settle_samples_on_the_fly(c, n))
  BY SettleType DEF Agreed
<1>4. ControllerTypeOK(cleanup_buffered_rollouts(c))
  BY CleanupType DEF Agreed
<1>. QED BY <1>1, <1>2, <1>3, <1>4, Frame

(* Publishing to registered policies appends to their streams only.        *)
LEMMA PublishShape ==
  ASSUME NEW c, ControllerTypeOK(c), NEW cmd \in PolicyCommand, NEW p \in c.policies,
         P2ROnly(c.policy_stream[p], Len(c.policy_stream[p]))
  PROVE  LET s == publish_to_policies(c, cmd)[p]
         IN s # <<>> /\ P2ROnly(s, Len(s) - 1) /\ s[Len(s)] = cmd
<1>. DEFINE t == c.policy_stream[p]
            s == publish_to_policies(c, cmd)[p]
<1>1. t \in Seq(PolicyCommand) /\ s = Append(t, cmd)
  BY DEF ControllerTypeOK, PolicyStreams, publish_to_policies
<1>. HIDE DEF t, s
<1>2. Len(s) = Len(t) + 1 /\ s[Len(s)] = cmd /\ s # <<>>
  BY <1>1
<1>3. \A i \in 1 .. Len(t) : s[i] = t[i]
  BY <1>1
<1>4. Len(t) \in Nat
  BY <1>1
<1>5. P2ROnly(s, Len(s) - 1)
  BY <1>2, <1>3, <1>4 DEF P2ROnly, t
<1>. QED BY <1>2, <1>5 DEF s

(* An idle replica has nothing but weight sends queued.                    *)
LEMMA IdleShape ==
  ASSUME NEW c, NEW w, Agreed(c, w), NEW p \in c.policies,
         c.status[p] \in {"READY", "REDUCED"}
  PROVE  w[p] = None /\ P2ROnly(c.policy_stream[p], Len(c.policy_stream[p]))
BY DEF Agreed, Handshakes, HandshakeOf, P2ROnly

(* Dispatching a step.                                                     *)
LEMMA TriggerAgreed ==
  ASSUME NEW c, NEW w, Agreed(c, w), c.completion_step = None
  PROVE  Agreed(try_trigger_data_fetch_and_training(c), w)
<1>. DEFINE t == try_trigger_data_fetch_and_training(c)
            step == c.current_step + 1
            cmd == [type |-> "DataFetch", step |-> step, total |-> training_horizon(c)]
<1>1. CASE ~(/\ c.policies # {} /\ ~training_finished(c)
             /\ all_ready_or_reduced(c) /\ rollouts_enough_for_one_step(c))
  BY <1>1 DEF try_trigger_data_fetch_and_training
<1>2. CASE /\ c.policies # {} /\ ~training_finished(c)
           /\ all_ready_or_reduced(c) /\ rollouts_enough_for_one_step(c)
  <2>1. ControllerTypeOK(t)
    BY TriggerType DEF Agreed
  <2>2. /\ t.policies = c.policies /\ t.status = set_all_status(c, "RUNNING")
        /\ t.policy_stream = publish_to_policies(c, cmd) /\ t.current_step = step
        /\ t.draining_total_steps = c.draining_total_steps
        /\ t.total_steps = c.total_steps /\ t.job_phase = c.job_phase
        /\ t.completion_step = None /\ t.terminal_complete = c.terminal_complete
        /\ t.acked_step = c.acked_step /\ t.acked_total_steps = c.acked_total_steps
        /\ t.stop_broadcast_sent = c.stop_broadcast_sent
    BY <1>2 DEF try_trigger_data_fetch_and_training, Agreed, ControllerTypeOK, Fields
  <2>3. ~c.terminal_complete /\ step \in Nat /\ step > 0
    BY <1>2 DEF training_finished, Agreed, ControllerTypeOK
  <2>4. cmd \in PolicyCommand
    BY <2>3, HorizonType DEF PolicyCommand, Agreed
  <2>. HIDE DEF t
  <2>5. Lifecycle(t)
    BY <2>2, <2>3 DEF Lifecycle, Agreed
  <2>6. Current(t, cmd)
    BY <2>2, <2>3 DEF Current, training_horizon
  <2>7. ASSUME NEW p \in c.policies
        PROVE  HandshakeOf(t.status[p], t.policy_stream[p], w[p], t)
    <3>1. w[p] = None /\ P2ROnly(c.policy_stream[p], Len(c.policy_stream[p]))
      BY <1>2, IdleShape DEF all_ready_or_reduced
    <3>2. t.policy_stream[p] # <<>>
            /\ P2ROnly(t.policy_stream[p], Len(t.policy_stream[p]) - 1)
            /\ t.policy_stream[p][Len(t.policy_stream[p])] = cmd
      BY <2>2, <2>4, <3>1, PublishShape DEF Agreed
    <3>3. t.status[p] = "RUNNING"
      BY <2>2 DEF set_all_status, Agreed, ControllerTypeOK
    <3>. HIDE DEF cmd
    <3>. QED BY <2>6, <3>1, <3>2, <3>3 DEF HandshakeOf
  <2>. QED BY <2>1, <2>2, <2>5, <2>7 DEF Agreed, Handshakes, t
<1>. QED BY <1>1, <1>2

(* The completion round.                                                   *)
LEMMA CompleteAgreed ==
  ASSUME NEW c, NEW w, Agreed(c, w), all_ready_or_reduced(c), ~c.terminal_complete
  PROVE  Agreed(trigger_training_complete(c), w)
<1>. DEFINE t == trigger_training_complete(c)
            step == c.current_step + 1
            cmd == [type |-> "TrainingComplete", step |-> step, total |-> step]
<1>1. CASE c.policies = {} \/ c.completion_step # None
  BY <1>1 DEF trigger_training_complete
<1>2. CASE ~(c.policies = {} \/ c.completion_step # None)
  <2>1. ControllerTypeOK(t)
    BY CompleteType DEF Agreed
  <2>2. /\ t.policies = c.policies /\ t.status = set_all_status(c, "RUNNING")
        /\ t.policy_stream = publish_to_policies(c, cmd)
        /\ t.completion_step = step /\ t.completion_recipients = c.policies
        /\ t.completion_acks = {} /\ t.terminal_complete = c.terminal_complete
        /\ t.acked_step = c.acked_step /\ t.acked_total_steps = c.acked_total_steps
        /\ t.draining_total_steps = c.draining_total_steps /\ t.job_phase = c.job_phase
        /\ t.stop_broadcast_sent = c.stop_broadcast_sent
    BY <1>2 DEF trigger_training_complete, Agreed, ControllerTypeOK, Fields
  <2>3. step \in Nat /\ step # None
    BY ReplicaAssumption DEF Agreed, ControllerTypeOK
  <2>4. cmd \in PolicyCommand
    BY <2>3 DEF PolicyCommand
  <2>. HIDE DEF t
  <2>5. \A p \in c.policies : t.status[p] = "RUNNING"
    BY <2>2 DEF set_all_status, Agreed, ControllerTypeOK
  <2>6. Lifecycle(t)
    BY <2>2, <2>5 DEF Lifecycle, Agreed
  <2>7. Current(t, cmd)
    BY <2>2, <2>3 DEF Current
  <2>8. ASSUME NEW p \in c.policies
        PROVE  HandshakeOf(t.status[p], t.policy_stream[p], w[p], t)
    <3>1. w[p] = None /\ P2ROnly(c.policy_stream[p], Len(c.policy_stream[p]))
      BY IdleShape DEF all_ready_or_reduced
    <3>2. t.policy_stream[p] # <<>>
            /\ P2ROnly(t.policy_stream[p], Len(t.policy_stream[p]) - 1)
            /\ t.policy_stream[p][Len(t.policy_stream[p])] = cmd
      BY <2>2, <2>4, <3>1, PublishShape DEF Agreed
    <3>. HIDE DEF cmd
    <3>. QED BY <2>5, <2>7, <3>1, <3>2 DEF HandshakeOf
  <2>. QED BY <2>1, <2>2, <2>6, <2>8 DEF Agreed, Handshakes, t
<1>. QED BY <1>1, <1>2

-----------------------------------------------------------------------------
(* Draining *)

(* One more full batch or the completion round.                            *)
LEMMA DrainAgreed ==
  ASSUME NEW c, NEW w, Agreed(c, w), all_ready_or_reduced(c),
         ~rollout_admission_closed(c)
  PROVE  Agreed(drain_or_complete(c), w)
<1>. DEFINE clean == cleanup_buffered_rollouts(c)
<1>1. ~c.terminal_complete /\ c.completion_step = None
  BY DEF rollout_admission_closed
<1>2. Agreed(clean, w)
  BY AccountingFrame
<1>3. ~clean.terminal_complete /\ all_ready_or_reduced(clean)
  BY <1>1 DEF cleanup_buffered_rollouts, _settle_samples_on_the_fly, Agreed,
              ControllerTypeOK, Fields, all_ready_or_reduced
<1>. HIDE DEF clean
<1>4. ~real_terminal_command_acked(clean)
  <2>1. training_horizon(clean) # None
    BY <1>2, HorizonType, ReplicaAssumption DEF Agreed
  <2>. QED BY <1>2, <1>3, <2>1 DEF Agreed, Lifecycle, real_terminal_command_acked
<1>5. Agreed(trigger_training_complete(clean), w)
  BY <1>2, <1>3, CompleteAgreed
<1>6. Agreed(try_trigger_data_fetch_and_training(c), w)
  BY <1>1, TriggerAgreed
<1>. QED BY <1>4, <1>5, <1>6 DEF drain_or_complete, clean

(* Freezing the horizon does not move it.                                  *)
LEMMA EnterAgreed ==
  ASSUME NEW c, NEW w, Agreed(c, w)
  PROVE  Agreed(enter_draining_phase(c), w)
<1>. DEFINE d == enter_draining_phase(c)
<1>1. ControllerTypeOK(d)
  BY DrainingType DEF Agreed
<1>2. c.job_phase = "DRAINING" <=> c.draining_total_steps # None
  BY DEF Agreed, Lifecycle
<1>3. c.job_phase \in JobPhase /\ c.total_steps # None
  BY ReplicaAssumption DEF Agreed, ControllerTypeOK
<1>4. SameBarrier(c, d)
  BY <1>2, <1>3 DEF SameBarrier, enter_draining_phase, Agreed, ControllerTypeOK, Fields,
              training_horizon, JobPhase
<1>. QED BY <1>1, <1>4, Frame

(* Finishing the draining phase keeps the handshake.                       *)
LEMMA FinishAgreed ==
  ASSUME NEW c, NEW w, Agreed(c, w)
  PROVE  Agreed(finish_draining_phase(c), w)
<1>. DEFINE d == enter_draining_phase(c)
<1>1. Agreed(d, w)
  BY EnterAgreed
<1>2. Agreed(cleanup_buffered_rollouts(d), w)
  BY <1>1, AccountingFrame
<1>3. ~rollout_admission_closed(d) /\ all_ready_or_reduced(d) =>
        Agreed(drain_or_complete(d), w)
  BY <1>1, DrainAgreed
<1>. HIDE DEF d
<1>. QED BY <1>1, <1>2, <1>3 DEF finish_draining_phase, d

-----------------------------------------------------------------------------
(* Acknowledgements *)

(* What the controller knows when policy p acknowledges its command.       *)
LEMMA Acknowledging ==
  ASSUME NEW c, NEW w, Agreed(c, w), NEW p \in c.policies, w[p] # None
  PROVE  /\ c.status[p] = "RUNNING" /\ c.policy_stream[p] = <<>>
         /\ Current(c, w[p]) /\ ~c.terminal_complete
<1>1. c.status[p] \in Status
  BY DEF Agreed, ControllerTypeOK
<1>2. c.status[p] = "RUNNING"
  BY <1>1 DEF Status, Agreed, Handshakes, HandshakeOf
<1>. QED BY <1>2 DEF Agreed, Handshakes, HandshakeOf, Lifecycle

(* The ACK of a completion round.  The last one makes the job terminal:    *)
(* then every registered policy has sent its own and is idle.              *)
LEMMA CompletionAckAgreed ==
  ASSUME NEW c, NEW w \in Works, Agreed(c, w), NEW p \in c.policies, w[p] # None,
         c.completion_step # None
  PROVE  Agreed(record_completion_ack(c, p), [w EXCEPT ![p] = None])
<1>. DEFINE d == record_completion_ack(c, p)
            v == [w EXCEPT ![p] = None]
            acks == c.completion_acks \cup {p}
<1>1. /\ c.status[p] = "RUNNING" /\ c.policy_stream[p] = <<>> /\ ~c.terminal_complete
      /\ p \in Policies
  <2>1. c.status[p] = "RUNNING" /\ c.policy_stream[p] = <<>> /\ ~c.terminal_complete
    BY Acknowledging
  <2>2. p \in Policies
    BY DEF Agreed, ControllerTypeOK
  <2>. QED BY <2>1, <2>2
<1>2. ControllerTypeOK(d)
  BY <1>1, CompletionAckType DEF Agreed
<1>3. /\ d.policies = c.policies /\ d.status = [c.status EXCEPT ![p] = "REDUCED"]
      /\ d.policy_stream = c.policy_stream /\ d.completion_step = c.completion_step
      /\ d.completion_recipients = c.completion_recipients /\ d.completion_acks = acks
      /\ d.acked_step = c.acked_step /\ d.acked_total_steps = c.acked_total_steps
      /\ d.draining_total_steps = c.draining_total_steps /\ d.job_phase = c.job_phase
      /\ d.stop_broadcast_sent = c.stop_broadcast_sent
  BY DEF record_completion_ack, Agreed, ControllerTypeOK, Fields
<1>4. d.terminal_complete => acks = c.completion_recipients
  BY <1>1 DEF record_completion_ack, Agreed, ControllerTypeOK, Fields
<1>. HIDE DEF d
<1>5. \A q \in c.policies :
        d.status[q] = IF q \in acks THEN "REDUCED" ELSE "RUNNING"
  BY <1>1, <1>3 DEF Agreed, ControllerTypeOK, Lifecycle
<1>6. \A q \in c.policies : HandshakeOf(d.status[q], d.policy_stream[q], v[q], d)
  <2>1. \A cmd : Current(d, cmd) = Current(c, cmd)
    BY <1>3 DEF Current
  <2>2. \A q \in c.policies : q \in Policies
    BY DEF Agreed, ControllerTypeOK
  <2>. QED BY <1>1, <1>3, <2>1, <2>2
           DEF Agreed, ControllerTypeOK, Handshakes, HandshakeOf, Works
<1>7. d.terminal_complete =>
        \A q \in c.policies : d.status[q] # "RUNNING" /\ d.policy_stream[q] = <<>>
  BY <1>3, <1>4, <1>5, <1>6 DEF Agreed, Lifecycle, HandshakeOf
<1>8. Lifecycle(d)
  BY <1>1, <1>3, <1>5, <1>7 DEF Agreed, Lifecycle
<1>. QED BY <1>2, <1>3, <1>6, <1>8 DEF Agreed, Handshakes, d

(* The ACK of a training step, before the controller settles it.           *)
LEMMA ReducedAgreed ==
  ASSUME NEW c, NEW w \in Works, Agreed(c, w), NEW p \in c.policies, w[p] # None,
         c.completion_step = None
  PROVE  Agreed([c EXCEPT !.status[p] = "REDUCED"], [w EXCEPT ![p] = None])
<1>. DEFINE d == [c EXCEPT !.status[p] = "REDUCED"]
            v == [w EXCEPT ![p] = None]
<1>1. /\ c.status[p] = "RUNNING" /\ c.policy_stream[p] = <<>> /\ ~c.terminal_complete
      /\ p \in Policies
  <2>1. c.status[p] = "RUNNING" /\ c.policy_stream[p] = <<>> /\ ~c.terminal_complete
    BY Acknowledging
  <2>2. p \in Policies
    BY DEF Agreed, ControllerTypeOK
  <2>. QED BY <2>1, <2>2
<1>2. [c.status EXCEPT ![p] = "REDUCED"] \in [Policies -> Status]
  BY <1>1 DEF Agreed, ControllerTypeOK, Status
<1>3. /\ DOMAIN d = Fields /\ d.status = [c.status EXCEPT ![p] = "REDUCED"]
      /\ \A f \in Fields : f # "status" => d[f] = c[f]
  BY DEF Agreed, ControllerTypeOK, Fields
<1>4. ControllerTypeOK(d)
  BY <1>2 DEF Agreed, ControllerTypeOK, Fields
<1>5. Lifecycle(d)
  BY <1>1 DEF Agreed, Lifecycle, ControllerTypeOK, Fields
<1>6. \A cmd : Current(d, cmd) = Current(c, cmd)
  BY DEF Current, training_horizon, Agreed, ControllerTypeOK, Fields
<1>7. \A q \in d.policies : HandshakeOf(d.status[q], d.policy_stream[q], v[q], d)
  <2>1. d.policies = c.policies /\ d.policy_stream = c.policy_stream
          /\ d.status = [c.status EXCEPT ![p] = "REDUCED"]
    BY <1>3 DEF Fields
  <2>. HIDE DEF d
  <2>2. c.policies \subseteq Policies
    BY DEF Agreed, ControllerTypeOK
  <2>. QED BY <1>1, <1>6, <2>1, <2>2
           DEF Agreed, ControllerTypeOK, Handshakes, HandshakeOf, Works
<1>. QED BY <1>4, <1>5, <1>7 DEF Agreed, Handshakes

(* Recording the ACK of a settled step: the job becomes terminal exactly   *)
(* when the step was the last one and was announced as such.               *)
LEMMA RecordAgreed ==
  ASSUME NEW c, NEW w, Agreed(c, w), all_reduced(c),
         c.completion_step = None, ~c.terminal_complete,
         NEW step \in Nat, NEW total \in Int,
         total = step => training_horizon(c) = step
  PROVE  LET d == record_real_datafetch_acked(c, step, total)
         IN /\ Agreed(d, w) /\ d.policies = c.policies /\ all_reduced(d)
            /\ d.completion_step = None
            /\ d.terminal_complete => step = training_horizon(d)
<1>. DEFINE a == [c EXCEPT !.acked_step = step, !.acked_total_steps = total]
            t == [a EXCEPT !.terminal_complete = TRUE]
<1>1. \A q \in c.policies : c.policy_stream[q] = <<>>
  BY DEF Agreed, Handshakes, HandshakeOf, all_reduced
<1>2. ControllerTypeOK(a) /\ ControllerTypeOK(t)
  BY DEF Agreed, ControllerTypeOK, Fields
<1>3. /\ \A cmd : Current(a, cmd) = Current(c, cmd)
      /\ \A cmd : Current(t, cmd) = Current(c, cmd)
  BY DEF Current, training_horizon, Agreed, ControllerTypeOK, Fields
<1>4. Handshakes(a, w) /\ Handshakes(t, w)
  <2>1. /\ a.policies = c.policies /\ a.status = c.status
        /\ a.policy_stream = c.policy_stream
        /\ t.policies = c.policies /\ t.status = c.status
        /\ t.policy_stream = c.policy_stream
    BY DEF Agreed, ControllerTypeOK, Fields
  <2>. HIDE DEF a, t
  <2>. QED BY <1>3, <2>1 DEF Agreed, Handshakes, HandshakeOf
<1>5. CASE step = training_horizon(c) /\ total = training_horizon(c)
  <2>1. Lifecycle(t)
    BY <1>1 DEF Lifecycle, all_reduced, Agreed, ControllerTypeOK, Fields
  <2>2. /\ t.policies = c.policies /\ all_reduced(t) /\ t.completion_step = None
        /\ training_horizon(t) = training_horizon(c)
    BY DEF all_reduced, training_horizon, Agreed, ControllerTypeOK, Fields
  <2>3. Agreed(t, w)
    BY <1>2, <1>4, <2>1 DEF Agreed
  <2>. HIDE DEF t
  <2>4. /\ Agreed(cleanup_buffered_rollouts(t), w)
        /\ SameBarrier(t, cleanup_buffered_rollouts(t))
    BY <2>3, AccountingFrame
  <2>5. record_real_datafetch_acked(c, step, total) = cleanup_buffered_rollouts(t)
    BY <1>5 DEF record_real_datafetch_acked, t
  <2>. QED BY <1>5, <2>2, <2>4, <2>5 DEF SameBarrier, all_reduced
<1>6. CASE ~(step = training_horizon(c) /\ total = training_horizon(c))
  <2>1. step # total
    BY <1>6
  <2>2. Lifecycle(a)
    BY <2>1 DEF Lifecycle, Agreed, ControllerTypeOK, Fields
  <2>3. /\ a.policies = c.policies /\ all_reduced(a) /\ a.completion_step = None
        /\ ~a.terminal_complete
    BY DEF all_reduced, Agreed, ControllerTypeOK, Fields
  <2>4. record_real_datafetch_acked(c, step, total) = a
    BY <1>6 DEF record_real_datafetch_acked
  <2>. QED BY <1>2, <1>4, <2>2, <2>3, <2>4 DEF Agreed
<1>. QED BY <1>5, <1>6

(* A weight sync is sent to an idle policy of a job that goes on.          *)
LEMMA SyncAgreed ==
  ASSUME NEW c, NEW w, Agreed(c, w), c.policies # {}, ~c.terminal_complete,
         \A q \in c.policies : c.status[q] = "READY", NEW step \in Nat
  PROVE  LET d == trigger_weight_sync(c, step)
         IN Agreed(d, w) /\ d.completion_step = c.completion_step
<1>. DEFINE d == trigger_weight_sync(c, step)
            src == CHOOSE p \in c.policies : TRUE
            dst == CHOOSE r \in c.rollouts : TRUE
            cmd == [type |-> "P2R", step |-> step, peer |-> dst]
<1>1. CASE c.rollouts = {}
  BY <1>1 DEF trigger_weight_sync, get_safe_weight_sync_replicas
<1>2. CASE c.rollouts # {}
  <2>1. src \in c.policies /\ dst \in Rollouts
    BY <1>2 DEF Agreed, ControllerTypeOK
  <2>2. cmd \in PolicyCommand
    BY <2>1 DEF PolicyCommand
  <2>3. ControllerTypeOK(d)
    BY SyncType DEF Agreed
  <2>4. d.policy_stream = [c.policy_stream EXCEPT ![src] = Append(@, cmd)]
    BY <1>2 DEF trigger_weight_sync, get_safe_weight_sync_replicas, Agreed,
                ControllerTypeOK, Fields
  <2>5. /\ d.policies = c.policies /\ d.status = c.status
        /\ d.current_step = c.current_step /\ d.total_steps = c.total_steps
        /\ d.completion_step = c.completion_step
        /\ d.completion_recipients = c.completion_recipients
        /\ d.completion_acks = c.completion_acks
        /\ d.terminal_complete = c.terminal_complete
        /\ d.acked_step = c.acked_step /\ d.acked_total_steps = c.acked_total_steps
        /\ d.draining_total_steps = c.draining_total_steps /\ d.job_phase = c.job_phase
        /\ d.stop_broadcast_sent = c.stop_broadcast_sent
    BY <1>2 DEF trigger_weight_sync, get_safe_weight_sync_replicas, Agreed,
                ControllerTypeOK, Fields
  <2>. HIDE DEF d, src, cmd
  <2>6. Lifecycle(d)
    BY <2>5 DEF Agreed, Lifecycle
  <2>7. ASSUME NEW q \in c.policies
        PROVE  w[q] = None /\ P2ROnly(d.policy_stream[q], Len(d.policy_stream[q]))
    <3>1. w[q] = None /\ P2ROnly(c.policy_stream[q], Len(c.policy_stream[q]))
      BY IdleShape
    <3>2. c.policy_stream[q] \in Seq(PolicyCommand) /\ q \in Policies
      BY DEF Agreed, ControllerTypeOK, PolicyStreams
    <3>3. cmd.type = "P2R"
      BY DEF cmd
    <3>4. CASE q = src
      <4>. DEFINE t == c.policy_stream[q]
      <4>1. d.policy_stream[q] = Append(t, cmd)
        BY <2>4, <3>2, <3>4 DEF Agreed, ControllerTypeOK, PolicyStreams
      <4>. HIDE DEF t
      <4>2. Append(t, cmd) \in Seq(PolicyCommand) /\ Len(Append(t, cmd)) = Len(t) + 1
              /\ Len(t) \in Nat
        BY <2>2, <3>2 DEF t
      <4>3. \A i \in 1 .. Len(t) + 1 :
              Append(t, cmd)[i] = IF i = Len(t) + 1 THEN cmd ELSE t[i]
        BY <2>2, <3>2 DEF t
      <4>. QED BY <3>1, <3>3, <4>1, <4>2, <4>3 DEF P2ROnly, t
    <3>5. CASE q # src
      BY <2>4, <3>1, <3>2, <3>5 DEF Agreed, ControllerTypeOK, PolicyStreams
    <3>. QED BY <3>4, <3>5
  <2>8. Handshakes(d, w)
    BY <2>5, <2>7 DEF Handshakes, HandshakeOf
  <2>. QED BY <2>3, <2>5, <2>6, <2>8 DEF Agreed, d
<1>. QED BY <1>1, <1>2

(* The last ACK of a step: settle it, sync weights, go on.                 *)
LEMMA SettleStepAgreed ==
  ASSUME NEW c, NEW w, Agreed(c, w), all_reduced(c), c.policies # {},
         c.completion_step = None, ~c.terminal_complete,
         NEW step \in Nat, NEW total \in Int,
         total = step => training_horizon(c) = step
  PROVE  Agreed(settle_step(c, step, total), w)
<1>. DEFINE record == {d \in c.dispatched : d.step = step}
            popped == [c EXCEPT
                         !.dispatched = @ \ record,
                         !.samples_on_the_fly =
                           IF record = {} THEN @
                           ELSE @ - (CHOOSE d \in record : TRUE).count]
            counted == IF record = {} THEN popped
                       ELSE record_real_datafetch_acked(popped, step, total)
            ready == [counted EXCEPT !.status = set_all_status(counted, "READY")]
            synced == IF should_weight_sync_after_train_ack(counted, step)
                      THEN trigger_weight_sync(ready, step) ELSE ready
<1>1. Agreed(popped, w) /\ SameBarrier(c, popped)
  <2>1. ControllerTypeOK(popped)
    <3>1. record # {} => (CHOOSE d \in record : TRUE).count \in Nat
      <4>1. record \subseteq DispatchRecord
        BY DEF Agreed, ControllerTypeOK
      <4>. HIDE DEF record
      <4>. QED BY <4>1 DEF DispatchRecord
    <3>2. c.dispatched \ record \in SUBSET DispatchRecord
      BY DEF Agreed, ControllerTypeOK
    <3>. HIDE DEF record
    <3>. QED BY <3>1, <3>2 DEF Agreed, ControllerTypeOK, Fields
  <2>2. SameBarrier(c, popped)
    BY DEF SameBarrier, Agreed, ControllerTypeOK, Fields, training_horizon, Lifecycle
  <2>. QED BY <2>1, <2>2, Frame
<1>2. /\ popped.policies = c.policies /\ all_reduced(popped)
      /\ popped.completion_step = None /\ ~popped.terminal_complete
      /\ total = step => training_horizon(popped) = step
  BY <1>1 DEF SameBarrier, all_reduced
<1>. HIDE DEF popped
<1>3. /\ Agreed(counted, w) /\ counted.policies = c.policies /\ all_reduced(counted)
      /\ counted.completion_step = None
      /\ counted.terminal_complete => step = training_horizon(counted)
  BY <1>1, <1>2, RecordAgreed
<1>. HIDE DEF counted
<1>4. /\ Agreed(ready, w) /\ ready.policies = c.policies
      /\ ready.completion_step = None /\ ready.terminal_complete = counted.terminal_complete
      /\ \A q \in c.policies : ready.status[q] = "READY"
  <2>1. set_all_status(counted, "READY") \in [Policies -> Status]
    BY <1>3, StatusType DEF Status, Agreed
  <2>2. /\ ready.policies = c.policies /\ ready.policy_stream = counted.policy_stream
        /\ ready.status = set_all_status(counted, "READY")
        /\ ready.completion_step = None
        /\ ready.terminal_complete = counted.terminal_complete
        /\ ready.acked_step = counted.acked_step
        /\ ready.acked_total_steps = counted.acked_total_steps
        /\ ready.draining_total_steps = counted.draining_total_steps
        /\ ready.job_phase = counted.job_phase
        /\ ready.stop_broadcast_sent = counted.stop_broadcast_sent
    BY <1>3 DEF Agreed, ControllerTypeOK, Fields
  <2>3. ControllerTypeOK(ready)
    BY <1>3, <2>1 DEF Agreed, ControllerTypeOK, Fields
  <2>4. \A q \in c.policies : w[q] = None /\ counted.policy_stream[q] = <<>>
    BY <1>3 DEF Agreed, Handshakes, HandshakeOf, all_reduced
  <2>. HIDE DEF ready
  <2>5. \A q \in c.policies : ready.status[q] = "READY"
    BY <1>3, <2>2 DEF set_all_status, Agreed, ControllerTypeOK
  <2>6. Lifecycle(ready)
    BY <1>3, <2>2, <2>4, <2>5 DEF Agreed, Lifecycle
  <2>7. Handshakes(ready, w)
    BY <2>2, <2>4, <2>5 DEF Handshakes, HandshakeOf, P2ROnly
  <2>. QED BY <2>2, <2>3, <2>5, <2>6, <2>7 DEF Agreed
<1>. HIDE DEF ready
<1>5. should_weight_sync_after_train_ack(counted, step) => ~counted.terminal_complete
  <2>1. counted.job_phase # "DRAINING" => training_horizon(counted) = counted.total_steps
    BY <1>3 DEF Agreed, Lifecycle, training_horizon
  <2>. QED BY <1>3, <2>1 DEF should_weight_sync_after_train_ack, need_weight_sync
<1>6. Agreed(synced, w) /\ synced.completion_step = None
  <2>1. CASE should_weight_sync_after_train_ack(counted, step)
    BY <1>4, <1>5, <2>1, SyncAgreed
  <2>2. CASE ~should_weight_sync_after_train_ack(counted, step)
    BY <1>4, <2>2
  <2>. QED BY <2>1, <2>2
<1>7. settle_step(c, step, total) =
        IF synced.job_phase = "DRAINING" THEN finish_draining_phase(synced)
        ELSE try_trigger_data_fetch_and_training(synced)
  BY DEF settle_step, popped, counted, ready
<1>. HIDE DEF synced
<1>. QED BY <1>6, <1>7, FinishAgreed, TriggerAgreed

(* The whole handler of an ACK.                                            *)
LEMMA TrainAckAgreed ==
  ASSUME NEW c, NEW w \in Works, Agreed(c, w), NEW p \in c.policies, w[p] # None,
         w[p].step \in Nat, w[p].total \in Int
  PROVE  Agreed(train_ack(c, p, w[p].step, w[p].total), [w EXCEPT ![p] = None])
<1>. DEFINE reduced == [c EXCEPT !.status[p] = "REDUCED"]
            v == [w EXCEPT ![p] = None]
            step == w[p].step
            total == w[p].total
<1>1. Current(c, w[p]) /\ ~c.terminal_complete
  BY Acknowledging
<1>2. CASE c.completion_step # None
  <2>1. step = c.completion_step /\ p \in c.completion_recipients
    BY <1>1, <1>2 DEF Current, Agreed, Lifecycle
  <2>. QED BY <1>2, <2>1, CompletionAckAgreed DEF train_ack
<1>3. CASE c.completion_step = None
  <2>1. step # c.completion_step
    BY <1>3, ReplicaAssumption
  <2>2. Agreed(reduced, v)
    BY <1>3, ReducedAgreed
  <2>3. /\ reduced.policies = c.policies /\ reduced.completion_step = None
        /\ ~reduced.terminal_complete
        /\ training_horizon(reduced) = training_horizon(c)
    BY <1>1, <1>3 DEF Agreed, ControllerTypeOK, Fields, training_horizon
  <2>4. total = step => training_horizon(reduced) = step
    BY <1>1, <1>3, <2>3 DEF Current
  <2>. HIDE DEF reduced, v
  <2>5. all_reduced(reduced) => Agreed(settle_step(reduced, step, total), v)
    BY <2>2, <2>3, <2>4, SettleStepAgreed
  <2>. QED BY <2>1, <2>2, <2>5 DEF train_ack, reduced, v
<1>. QED BY <1>2, <1>3

-----------------------------------------------------------------------------
(* Rollout handlers, departures and the monitor *)

(* Buffering posted rollouts keeps the handshake.                          *)
LEMMA PutAgreed ==
  ASSUME NEW c, NEW w, Agreed(c, w), NEW count \in Nat, NEW kept \in 0 .. count
  PROVE  Agreed(put_rollout_group(c, count, kept), w)
<1>. DEFINE f == filter_outdated_rollouts(c, count, kept)
            g == [f EXCEPT !.rollout_buffer = @ + kept]
<1>1. count - kept \in Nat
  OBVIOUS
<1>2. ControllerTypeOK(f)
  BY <1>1 DEF filter_outdated_rollouts, _settle_samples_on_the_fly, Agreed,
              ControllerTypeOK, Fields
<1>3. SameBarrier(c, f)
  BY <1>1 DEF SameBarrier, filter_outdated_rollouts, _settle_samples_on_the_fly, Agreed,
         ControllerTypeOK, Fields, training_horizon, Lifecycle
<1>4. Agreed(f, w)
  BY <1>2, <1>3, Frame
<1>. HIDE DEF f
<1>5. ControllerTypeOK(g)
  BY <1>2 DEF ControllerTypeOK, Fields
<1>6. SameBarrier(f, g)
  BY <1>4 DEF SameBarrier, Agreed, ControllerTypeOK, Fields, training_horizon, Lifecycle
<1>7. Agreed(g, w) /\ g.completion_step = c.completion_step
  BY <1>3, <1>4, <1>5, <1>6, Frame DEF SameBarrier
<1>8. Agreed(_settle_samples_on_the_fly(c, count), w)
  BY AccountingFrame
<1>. HIDE DEF g
<1>9. ~rollout_admission_closed(c) => Agreed(try_trigger_data_fetch_and_training(g), w)
  BY <1>7, TriggerAgreed DEF rollout_admission_closed
<1>. QED BY <1>4, <1>8, <1>9 DEF put_rollout_group, f, g

(* A discard report keeps the handshake.                                   *)
LEMMA DiscardAgreed ==
  ASSUME NEW c, NEW w, Agreed(c, w), NEW r \in Rollouts, NEW id \in Nat, NEW count \in Nat
  PROVE  /\ Agreed(settle_discarded_samples(c, r, id, count), w)
         /\ Agreed(forget_discard_reports(c, r), w)
<1>1. Agreed(_settle_samples_on_the_fly(c, count), w)
  BY AccountingFrame
<1>2. ASSUME NEW d, Agreed(d, w), NEW reports \in SUBSET (Rollouts \X Nat)
      PROVE  Agreed([d EXCEPT !.discard_reports = reports], w)
  <2>1. ControllerTypeOK([d EXCEPT !.discard_reports = reports])
    BY <1>2 DEF Agreed, ControllerTypeOK, Fields
  <2>2. SameBarrier(d, [d EXCEPT !.discard_reports = reports])
    BY <1>2 DEF SameBarrier, Agreed, ControllerTypeOK, Fields, training_horizon, Lifecycle
  <2>. QED BY <1>2, <2>1, <2>2, Frame
<1>3. Agreed(forget_discard_reports(c, r), w)
  <2>. DEFINE reports == {d \in c.discard_reports : d[1] # r}
  <2>1. reports \in SUBSET (Rollouts \X Nat)
    BY DEF Agreed, ControllerTypeOK
  <2>2. forget_discard_reports(c, r) = [c EXCEPT !.discard_reports = reports]
    BY DEF forget_discard_reports
  <2>. HIDE DEF reports
  <2>. QED BY <1>2, <2>1, <2>2
<1>4. Agreed(settle_discarded_samples(c, r, id, count), w)
  <2>. DEFINE s == _settle_samples_on_the_fly(c, count)
              reports == s.discard_reports \cup {<<r, id>>}
  <2>1. reports \in SUBSET (Rollouts \X Nat)
    BY <1>1 DEF Agreed, ControllerTypeOK
  <2>2. CASE count = 0 \/ <<r, id>> \in c.discard_reports
    BY <2>2 DEF settle_discarded_samples
  <2>3. CASE ~(count = 0 \/ <<r, id>> \in c.discard_reports)
    <3>1. settle_discarded_samples(c, r, id, count) = [s EXCEPT !.discard_reports = reports]
      BY <2>3 DEF settle_discarded_samples
    <3>. HIDE DEF reports, s
    <3>. QED BY <1>1, <1>2, <2>1, <3>1 DEF s
  <2>. QED BY <2>2, <2>3
<1>. QED BY <1>3, <1>4

(* A rollout's end signal keeps the handshake.                             *)
LEMMA EndAgreed ==
  ASSUME NEW c, NEW w, Agreed(c, w), NEW r \in Rollouts
  PROVE  Agreed(rollout_end(c, r), w)
<1>. DEFINE e == [c EXCEPT !.ended = @ \cup {r}]
<1>1. ControllerTypeOK(e)
  BY DEF Agreed, ControllerTypeOK, Fields
<1>2. SameBarrier(c, e)
  BY DEF SameBarrier, Agreed, ControllerTypeOK, Fields, training_horizon, Lifecycle
<1>. HIDE DEF e
<1>3. Agreed(finish_draining_phase(e), w)
  BY <1>1, <1>2, Frame, FinishAgreed
<1>4. Agreed(forget_discard_reports(finish_draining_phase(e), r), w)
  BY <1>3, DiscardAgreed
<1>. QED BY <1>4 DEF rollout_end, e

(* A departing policy may change the budget, but not a horizon some worker *)
(* has been told to stop at: then training is finished already.            *)
LEMMA LeaveAgreed ==
  ASSUME NEW c, NEW w, Agreed(c, w), NEW p \in Policies
  PROVE  Agreed(unregister_policy(c, p), w)
<1>. DEFINE d == [c EXCEPT !.policies = @ \ {p}]
            e == recompute_total_steps(d)
<1>1. ControllerTypeOK(d)
  BY DEF Agreed, ControllerTypeOK, Fields
<1>2. Lifecycle(d)
  BY DEF Agreed, Lifecycle, ControllerTypeOK, Fields
<1>3. Handshakes(d, w)
  <2>1. \A cmd : Current(d, cmd) = Current(c, cmd)
    BY DEF Current, training_horizon, Agreed, ControllerTypeOK, Fields
  <2>2. d.policies \subseteq c.policies /\ d.status = c.status
          /\ d.policy_stream = c.policy_stream
    BY DEF Agreed, ControllerTypeOK, Fields
  <2>. HIDE DEF d
  <2>. QED BY <2>1, <2>2 DEF Agreed, Handshakes, HandshakeOf
<1>. HIDE DEF d
<1>4. Agreed(d, w)
  BY <1>1, <1>2, <1>3 DEF Agreed
<1>5. Agreed(e, w)
  <2>1. CASE d.job_phase = "DRAINING" \/ training_finished(d) \/ d.policies = {}
    BY <1>4, <2>1 DEF recompute_total_steps
  <2>2. CASE ~(d.job_phase = "DRAINING" \/ training_finished(d) \/ d.policies = {})
    <3>1. ControllerTypeOK(e)
      BY <1>1, RecomputeType
    <3>2. /\ e.policies = d.policies /\ e.status = d.status
          /\ e.policy_stream = d.policy_stream /\ e.current_step = d.current_step
          /\ e.completion_step = d.completion_step
          /\ e.completion_recipients = d.completion_recipients
          /\ e.completion_acks = d.completion_acks
          /\ e.terminal_complete = d.terminal_complete
          /\ e.acked_step = d.acked_step /\ e.acked_total_steps = d.acked_total_steps
          /\ e.draining_total_steps = d.draining_total_steps /\ e.job_phase = d.job_phase
          /\ e.stop_broadcast_sent = d.stop_broadcast_sent
      BY <1>1, <2>2 DEF recompute_total_steps, ControllerTypeOK, Fields
    <3>3. \A cmd : Current(d, cmd) => Current(e, cmd)
      <4>1. d.current_step \in Nat /\ training_horizon(d) \in Int
        BY <1>1, HorizonType DEF ControllerTypeOK
      <4>. HIDE DEF e
      <4>. QED BY <2>2, <3>2, <4>1 DEF Current, training_finished
    <3>. HIDE DEF e
    <3>4. Lifecycle(e)
      BY <1>2, <3>2 DEF Lifecycle
    <3>5. Handshakes(e, w)
      BY <1>3, <3>2, <3>3 DEF Handshakes, HandshakeOf
    <3>. QED BY <3>1, <3>4, <3>5 DEF Agreed
  <2>. QED BY <2>1, <2>2
<1>. QED BY <1>4, <1>5 DEF unregister_policy, d

(* Unregistering a rollout keeps the handshake.                            *)
LEMMA LeaveRolloutAgreed ==
  ASSUME NEW c, NEW w, Agreed(c, w), NEW r \in Rollouts
  PROVE  Agreed(unregister_rollout(c, r), w)
<1>1. ControllerTypeOK(unregister_rollout(c, r))
  BY DEF Agreed, unregister_rollout, ControllerTypeOK, Fields
<1>2. SameBarrier(c, unregister_rollout(c, r))
  BY DEF SameBarrier, unregister_rollout, Agreed, ControllerTypeOK, Fields,
         training_horizon, Lifecycle
<1>. QED BY <1>1, <1>2, Frame

(* _maybe_finalize keeps the handshake.                                    *)
LEMMA FinalizeAgreed ==
  ASSUME NEW c, NEW w, Agreed(c, w), NEW reaping \in BOOLEAN
  PROVE  Agreed(_maybe_finalize(c, reaping), w)
<1>1. ControllerTypeOK(_maybe_finalize(c, reaping))
  BY FinalizeType DEF Agreed
<1>2. SameBarrier(c, _maybe_finalize(c, reaping))
  BY DEF SameBarrier, _maybe_finalize, Agreed, ControllerTypeOK, Fields,
         training_horizon, Lifecycle
<1>. QED BY <1>1, <1>2, Frame

(* Publishing STOP keeps the handshake.                                    *)
LEMMA StopAgreed ==
  ASSUME NEW c, NEW w, Agreed(c, w), should_broadcast_stop(c)
  PROVE  Agreed(broadcast_stop(c), w)
<1>. DEFINE d == broadcast_stop(c)
<1>1. ControllerTypeOK(d)
  BY StopType DEF Agreed
<1>2. c.terminal_complete \/ c.policies = {}
  BY DEF should_broadcast_stop
<1>3. /\ d.policies = c.policies /\ d.status = c.status
      /\ d.policy_stream = c.policy_stream /\ d.current_step = c.current_step
      /\ training_horizon(d) = training_horizon(c)
      /\ d.completion_step = c.completion_step
      /\ d.completion_recipients = c.completion_recipients
      /\ d.completion_acks = c.completion_acks
      /\ d.terminal_complete = c.terminal_complete
      /\ d.acked_step = c.acked_step /\ d.acked_total_steps = c.acked_total_steps
      /\ d.draining_total_steps = c.draining_total_steps /\ d.job_phase = c.job_phase
  BY DEF broadcast_stop, Agreed, ControllerTypeOK, Fields, training_horizon
<1>. HIDE DEF d
<1>4. Lifecycle(d)
  BY <1>2, <1>3 DEF Agreed, Lifecycle
<1>5. \A cmd : Current(d, cmd) = Current(c, cmd)
  BY <1>3 DEF Current
<1>6. Handshakes(d, w)
  BY <1>3, <1>5 DEF Agreed, Handshakes, HandshakeOf
<1>. QED BY <1>1, <1>4, <1>6 DEF Agreed, d

-----------------------------------------------------------------------------
(* Steps of the job *)

(* Taking a command off a policy's stream: to execute it, or as the        *)
(* sending half of a weight sync.                                          *)
LEMMA ExecuteAgreed ==
  ASSUME TypeOK, WorkerBusy, Agreed(ctl, cur), NEW p \in Policies, ExecuteCommand(p)
  PROVE  Lifecycle(ctl') /\ Handshakes(ctl', cur')
<1>. DEFINE s == ctl.policy_stream[p]
            ps == [ctl.policy_stream EXCEPT ![p] = Tail(@)]
<1>1. cur[p] = None /\ s # <<>> /\ s[1].type # "P2R" /\ s \in Seq(PolicyCommand)
  BY DEF ExecuteCommand, WorkerBusy, TypeOK, ControllerTypeOK, PolicyStreams
<1>2. ctl' = [ctl EXCEPT !.policy_stream = ps] /\ cur' = [cur EXCEPT ![p] = s[1]]
  BY DEF ExecuteCommand
<1>3. p \in ctl.policies => Len(s) = 1 /\ Current(ctl, s[1])
  <2>. SUFFICES ASSUME p \in ctl.policies PROVE Len(s) = 1 /\ Current(ctl, s[1])
    OBVIOUS
  <2>. HIDE DEF s
  <2>1. Len(s) \in Nat /\ Len(s) >= 1
    BY <1>1
  <2>2. HandshakeOf(ctl.status[p], s, cur[p], ctl)
    BY DEF Agreed, Handshakes, s
  <2>3. ctl.status[p] \in Status
    BY DEF TypeOK, ControllerTypeOK
  <2>4. P2ROnly(s, Len(s) - 1) /\ Current(ctl, s[Len(s)])
    BY <1>1, <2>1, <2>2, <2>3 DEF HandshakeOf, Status, P2ROnly
  <2>5. Len(s) = 1
    <3>1. \A n \in Nat : n >= 1 /\ n # 1 => 1 \in 1 .. n - 1
      OBVIOUS
    <3>2. 1 \notin 1 .. Len(s) - 1
      BY <1>1, <2>4 DEF P2ROnly
    <3>. QED BY <2>1, <3>1, <3>2
  <2>. QED BY <2>4, <2>5
<1>4. p \in ctl.policies => ps[p] = <<>> /\ ctl.status[p] = "RUNNING"
  <2>1. ps[p] = Tail(s)
    BY DEF TypeOK, ControllerTypeOK, PolicyStreams
  <2>2. p \in ctl.policies => ctl.status[p] = "RUNNING"
    <3>1. ctl.status[p] \in Status
      BY DEF TypeOK, ControllerTypeOK
    <3>2. Len(s) \in Nat /\ Len(s) >= 1
      BY <1>1
    <3>. QED BY <1>1, <3>1, <3>2 DEF Agreed, Handshakes, HandshakeOf, P2ROnly, Status
  <2>. HIDE DEF s, ps
  <2>. QED BY <1>1, <1>3, <2>1, <2>2
<1>5. \A q \in Policies : q # p => ps[q] = ctl.policy_stream[q] /\ cur'[q] = cur[q]
  BY <1>2 DEF TypeOK, ControllerTypeOK, PolicyStreams
<1>6. cur'[p] = s[1] /\ s[1] # None
  BY <1>1, <1>2, NoneAssumption DEF TypeOK
<1>7. \A cmd : Current(ctl', cmd) = Current(ctl, cmd)
  BY <1>2 DEF Current, training_horizon, TypeOK, ControllerTypeOK, Fields
<1>8. ctl'.policies = ctl.policies /\ ctl'.status = ctl.status /\ ctl'.policy_stream = ps
  BY <1>2 DEF TypeOK, ControllerTypeOK, Fields
<1>. HIDE DEF s, ps
<1>9. Handshakes(ctl', cur')
  <2>. SUFFICES ASSUME NEW q \in ctl.policies
                PROVE  HandshakeOf(ctl.status[q], ps[q], cur'[q], ctl')
    BY <1>8 DEF Handshakes
  <2>0. q \in Policies
    BY DEF TypeOK, ControllerTypeOK
  <2>1. CASE q = p
    BY <1>3, <1>4, <1>6, <1>7, <2>1 DEF HandshakeOf
  <2>2. CASE q # p
    BY <1>5, <1>7, <2>0, <2>2 DEF Agreed, Handshakes, HandshakeOf
  <2>. QED BY <2>1, <2>2
<1>10. Lifecycle(ctl')
  <2>1. ctl.policies \subseteq Policies
    BY DEF TypeOK, ControllerTypeOK
  <2>2. ctl.terminal_complete => p \notin ctl.policies
    BY <1>1 DEF Agreed, Lifecycle, s
  <2>3. ctl.terminal_complete => \A q \in ctl.policies : ps[q] = <<>>
    BY <1>5, <2>1, <2>2 DEF Agreed, Lifecycle
  <2>. QED BY <1>2, <1>8, <2>3 DEF Agreed, Lifecycle, TypeOK, ControllerTypeOK, Fields
<1>. QED BY <1>9, <1>10

(* A P2R transfer takes the command off both streams and keeps it.         *)
LEMMA SendAgreed ==
  ASSUME TypeOK, WorkerBusy, Agreed(ctl, cur), NEW p \in Policies, NEW r \in Rollouts,
         PolicyToRollout(p, r)
  PROVE  Lifecycle(ctl') /\ Handshakes(ctl', cur')
<1>. DEFINE s == ctl.policy_stream[p]
            ps == [ctl.policy_stream EXCEPT ![p] = Tail(@)]
            rs == [ctl.rollout_stream EXCEPT ![r] = Tail(@)]
<1>1. /\ cur[p] = None /\ s # <<>> /\ s[1].type = "P2R" /\ s \in Seq(PolicyCommand)
      /\ cur' = cur
  BY DEF PolicyToRollout, WorkerBusy, TypeOK, ControllerTypeOK, PolicyStreams, policyVars
<1>2. ctl' = [ctl EXCEPT !.policy_stream = ps, !.rollout_stream = rs]
  BY DEF PolicyToRollout, TypeOK, ControllerTypeOK, Fields
<1>3. /\ ctl'.policies = ctl.policies /\ ctl'.status = ctl.status /\ ctl'.policy_stream = ps
      /\ \A cmd : Current(ctl', cmd) = Current(ctl, cmd)
  BY <1>2 DEF Current, training_horizon, TypeOK, ControllerTypeOK, Fields
<1>4. ps[p] = Tail(s) /\ \A q \in Policies : q # p => ps[q] = ctl.policy_stream[q]
  BY DEF TypeOK, ControllerTypeOK, PolicyStreams
<1>5. p \in ctl.policies => HandshakeOf(ctl.status[p], Tail(s), None, ctl)
  <2>. SUFFICES ASSUME p \in ctl.policies PROVE HandshakeOf(ctl.status[p], Tail(s), None, ctl)
    OBVIOUS
  <2>1. HandshakeOf(ctl.status[p], s, None, ctl)
    BY <1>1 DEF Agreed, Handshakes
  <2>. HIDE DEF s
  <2>2. Len(s) \in Nat /\ Len(s) >= 1 /\ Tail(s) \in Seq(PolicyCommand)
          /\ Len(Tail(s)) = Len(s) - 1
    BY <1>1
  <2>3. \A i \in 1 .. Len(s) - 1 : Tail(s)[i] = s[i + 1]
    BY <1>1
  <2>4. ctl.status[p] # "REDUCED"
    BY <1>1, <2>1 DEF HandshakeOf
  <2>5. CASE ctl.status[p] = "READY"
    <3>1. P2ROnly(Tail(s), Len(Tail(s)))
      BY <2>1, <2>2, <2>3, <2>5 DEF HandshakeOf, P2ROnly
    <3>. QED BY <2>5, <3>1 DEF HandshakeOf
  <2>6. CASE ctl.status[p] = "RUNNING"
    <3>1. P2ROnly(s, Len(s) - 1) /\ Current(ctl, s[Len(s)])
      BY <2>1, <2>6 DEF HandshakeOf
    <3>2. Len(s) # 1
      BY <1>1, <3>1 DEF Current
    <3>3. Tail(s) # <<>> /\ Tail(s)[Len(Tail(s))] = s[Len(s)]
      <4>1. Len(s) - 1 \in 1 .. Len(s) - 1 /\ (Len(s) - 1) + 1 = Len(s)
        BY <2>2, <3>2
      <4>2. Tail(s)[Len(s) - 1] = s[Len(s)]
        BY <2>3, <4>1
      <4>. QED BY <2>2, <4>1, <4>2
    <3>4. P2ROnly(Tail(s), Len(Tail(s)) - 1)
      BY <2>2, <2>3, <3>1 DEF P2ROnly
    <3>. QED BY <2>6, <3>1, <3>3, <3>4 DEF HandshakeOf
  <2>7. ctl.status[p] \in Status
    BY DEF TypeOK, ControllerTypeOK
  <2>. QED BY <2>4, <2>5, <2>6, <2>7 DEF Status
<1>. HIDE DEF s, ps
<1>6. Handshakes(ctl', cur')
  <2>. SUFFICES ASSUME NEW q \in ctl.policies
                PROVE  HandshakeOf(ctl.status[q], ps[q], cur[q], ctl')
    BY <1>1, <1>3 DEF Handshakes
  <2>0. q \in Policies
    BY DEF TypeOK, ControllerTypeOK
  <2>1. CASE q = p
    BY <1>1, <1>3, <1>4, <1>5, <2>1 DEF HandshakeOf
  <2>2. CASE q # p
    BY <1>3, <1>4, <2>0, <2>2 DEF Agreed, Handshakes, HandshakeOf
  <2>. QED BY <2>1, <2>2
<1>7. Lifecycle(ctl')
  <2>1. ctl.policies \subseteq Policies
    BY DEF TypeOK, ControllerTypeOK
  <2>2. ctl.terminal_complete => p \notin ctl.policies
    BY <1>1 DEF Agreed, Lifecycle, s
  <2>3. ctl.terminal_complete => \A q \in ctl.policies : ps[q] = <<>>
    BY <1>4, <2>1, <2>2 DEF Agreed, Lifecycle
  <2>. QED BY <1>2, <1>3, <2>3 DEF Agreed, Lifecycle, TypeOK, ControllerTypeOK, Fields
<1>. QED BY <1>6, <1>7

(* Every other step of a policy worker.                                    *)
LEMMA PolicyStepAgreed ==
  ASSUME TypeOK, WorkerBusy, Agreed(ctl, cur), NEW p \in Policies, PolicyStep(p)
  PROVE  Lifecycle(ctl') /\ Handshakes(ctl', cur')
<1>1. CASE ExecuteCommand(p)
  BY <1>1, ExecuteAgreed
<1>2. CASE TrainAck(p)
  <2>1. cur[p] # None /\ cur[p].type # "P2R" /\ p \in ctl.policies
    BY <1>2 DEF TrainAck, WorkerBusy
  <2>2. cur[p].step \in Nat /\ cur[p].total \in Int /\ cur \in Works
    BY <2>1, CommandType DEF TypeOK, Works
  <2>3. Agreed(train_ack(ctl, p, cur[p].step, cur[p].total), [cur EXCEPT ![p] = None])
    BY <2>1, <2>2, TrainAckAgreed
  <2>. QED BY <1>2, <2>3 DEF TrainAck, Agreed
<1>3. CASE UnregisterPolicy(p)
  <2>1. Agreed(_maybe_finalize(unregister_policy(ctl, p), FALSE), cur)
    BY LeaveAgreed, FinalizeAgreed
  <2>. QED BY <1>3, <2>1 DEF UnregisterPolicy, Agreed
<1>4. CASE ReapPolicy(p)
  BY <1>4, LeaveAgreed DEF ReapPolicy, Agreed, policyVars
<1>5. CASE CrashPolicy(p)
  BY <1>5 DEF CrashPolicy, Agreed
<1>6. ASSUME NEW r \in Rollouts, PolicyToRollout(p, r)
      PROVE  Lifecycle(ctl') /\ Handshakes(ctl', cur')
  BY <1>6, SendAgreed
<1>. QED BY <1>1, <1>2, <1>3, <1>4, <1>5, <1>6 DEF PolicyStep

(* Taking commands off rollout streams.                                    *)
LEMMA RolloutStreamAgreed ==
  ASSUME NEW c, NEW w, Agreed(c, w), NEW rs \in RolloutStreams
  PROVE  Agreed([c EXCEPT !.rollout_stream = rs], w)
<1>1. ControllerTypeOK([c EXCEPT !.rollout_stream = rs])
  BY DEF Agreed, ControllerTypeOK, Fields
<1>2. SameBarrier(c, [c EXCEPT !.rollout_stream = rs])
  BY DEF SameBarrier, Agreed, ControllerTypeOK, Fields, training_horizon, Lifecycle
<1>. QED BY <1>1, <1>2, Frame

(* The steps of a rollout worker keep the handshake.                       *)
LEMMA RolloutStepAgreed ==
  ASSUME TypeOK, Agreed(ctl, cur), NEW r \in Rollouts, RolloutStep(r)
  PROVE  Lifecycle(ctl') /\ Handshakes(ctl', cur')
<1>0. cur' = cur
  BY DEF RolloutStep, RequestNewPrompts, OneStepGeneration, ReportDiscardedSamples,
         ReportRollouts, SendEndSignal, RolloutToRollout, HandleStop,
         UnregisterRollout, ReapRollout, CrashRollout, policyVars, rolloutVars
<1>. SUFFICES Agreed(ctl', cur)
  BY <1>0 DEF Agreed
<1>a. \A n \in Nat : n * NGen \in Nat
  BY ConfigAssumption
<1>1. CASE RequestNewPrompts(r)
  <2>. DEFINE granted == prompts_granted(ctl, FetchBatch, prompts)
              d == fetch_prompts(ctl, granted)
  <2>1. FetchBatch \in Nat /\ prompts \in Nat
    BY JobAssumption DEF TypeOK
  <2>2. granted \in 0 .. prompts
    BY <2>1, FetchType DEF TypeOK
  <2>. HIDE DEF granted
  <2>3. granted \in Nat
    BY <2>1, <2>2
  <2>4. ControllerTypeOK(d)
    BY <2>1, <2>3, FetchType DEF TypeOK
  <2>5. SameBarrier(ctl, d)
    BY DEF SameBarrier, fetch_prompts, Agreed, ControllerTypeOK, Fields,
           training_horizon, Lifecycle
  <2>. QED BY <1>1, <2>4, <2>5, Frame DEF RequestNewPrompts, granted
<1>2. CASE OneStepGeneration(r)
  BY <1>2 DEF OneStepGeneration
<1>3. CASE ReportDiscardedSamples(r)
  BY <1>3, <1>a, DiscardAgreed DEF ReportDiscardedSamples, TypeOK
<1>4. CASE ReportRollouts(r)
  BY <1>4, <1>a, PutAgreed DEF ReportRollouts, TypeOK
<1>5. CASE SendEndSignal(r)
  BY <1>5, EndAgreed DEF SendEndSignal
<1>6. CASE RolloutToRollout(r)
  <2>. DEFINE cmd == Head(ctl.rollout_stream[r])
              rs == [q \in Rollouts |-> IF q \in cmd.peers THEN Tail(ctl.rollout_stream[q])
                                                           ELSE ctl.rollout_stream[q]]
  <2>1. \A q \in Rollouts : q \in cmd.peers => ctl.rollout_stream[q] # <<>>
    BY <1>6 DEF RolloutToRollout
  <2>2. ctl.rollout_stream \in RolloutStreams
    BY TailType
  <2>. HIDE DEF cmd
  <2>3. rs \in RolloutStreams
    BY <2>1, <2>2 DEF RolloutStreams
  <2>4. ctl' = [ctl EXCEPT !.rollout_stream = rs]
    BY <1>6 DEF RolloutToRollout, cmd
  <2>. HIDE DEF rs
  <2>. QED BY <2>3, <2>4, RolloutStreamAgreed
<1>7. CASE HandleStop(r)
  <2>. DEFINE rs == [ctl.rollout_stream EXCEPT ![r] = Tail(@)]
  <2>1. rs \in RolloutStreams /\ ctl' = [ctl EXCEPT !.rollout_stream = rs]
    BY <1>7, TailType DEF HandleStop
  <2>. HIDE DEF rs
  <2>. QED BY <2>1, RolloutStreamAgreed
<1>8. CASE UnregisterRollout(r)
  BY <1>8, LeaveRolloutAgreed, FinalizeAgreed DEF UnregisterRollout
<1>9. CASE ReapRollout(r)
  BY <1>9, LeaveRolloutAgreed DEF ReapRollout
<1>10. CASE CrashRollout(r)
  BY <1>10 DEF CrashRollout
<1>. QED BY <1>1, <1>2, <1>3, <1>4, <1>5, <1>6, <1>7, <1>8, <1>9, <1>10 DEF RolloutStep

(* Training, the monitor and stuttering keep the handshake.                *)
LEMMA OtherStepAgreed ==
  ASSUME TypeOK, Agreed(ctl, cur),
         StepTraining \/ MonitorStop \/ MonitorFinalize \/ Exited \/ UNCHANGED vars
  PROVE  Lifecycle(ctl') /\ Handshakes(ctl', cur')
<1>0. cur' = cur
  BY DEF StepTraining, MonitorStop, MonitorFinalize, Exited, vars, policyVars
<1>1. CASE MonitorStop
  BY <1>0, <1>1, StopAgreed DEF MonitorStop, Agreed
<1>2. CASE MonitorFinalize
  BY <1>0, <1>2, FinalizeAgreed DEF MonitorFinalize, Agreed
<1>3. CASE ctl' = ctl
  BY <1>0, <1>3 DEF Agreed
<1>. QED BY <1>1, <1>2, <1>3 DEF StepTraining, Exited, vars

(* The job starts with nothing published and nothing outstanding.          *)
LEMMA HandshakeInit == ASSUME Init PROVE Lifecycle(ctl) /\ Handshakes(ctl, cur)
<1>1. ControllerTypeOK(ctl)
  BY InitControllerType DEF Init
<1>2. /\ ctl.status = [p \in Policies |-> "READY"]
      /\ ctl.policy_stream = [p \in Policies |-> <<>>] /\ ctl.policies = Policies
      /\ ~ctl.terminal_complete /\ ctl.completion_step = None /\ ctl.acked_step = None
      /\ ~ctl.stop_broadcast_sent /\ ctl.job_phase = "RUNNING"
      /\ ctl.draining_total_steps = None
  BY DEF Init, InitController, recompute_total_steps
<1>3. cur = [p \in Policies |-> None]
  BY DEF Init
<1>4. Lifecycle(ctl)
  BY <1>2 DEF Lifecycle
<1>5. Handshakes(ctl, cur)
  BY <1>2, <1>3 DEF Handshakes, HandshakeOf, P2ROnly
<1>. QED BY <1>4, <1>5

(* Every step of the job keeps the handshake.                              *)
LEMMA HandshakeStep ==
  ASSUME TypeOK, Handshake, [Next]_vars
  PROVE  Handshake'
<1>1. Agreed(ctl, cur) /\ WorkerBusy
  BY DEF Handshake, TypeOK, Agreed
<1>2. WorkerBusy'
  BY <1>1, TypeStep
<1>3. Lifecycle(ctl') /\ Handshakes(ctl', cur')
  BY <1>1, PolicyStepAgreed, RolloutStepAgreed, OtherStepAgreed DEF Next
<1>. QED BY <1>2, <1>3 DEF Handshake

-----------------------------------------------------------------------------
(* Theorems *)

(* The handshake holds throughout every job: a policy's status determines  *)
(* what it executes and what is queued for it, through crashes, departures *)
(* and recomputed budgets.                                                 *)
THEOREM HandshakeCorrect == Spec => []Handshake
<1>1. Init => TypeOK /\ Handshake
  BY TypeInit, HandshakeInit DEF Handshake
<1>2. TypeOK /\ Handshake /\ [Next]_vars => TypeOK' /\ Handshake'
  BY TypeStep, HandshakeStep DEF Handshake
<1>. QED BY <1>1, <1>2, PTL DEF Spec

(* STOP is safe (should_broadcast_stop): when the job is terminal or STOP  *)
(* has been sent, no registered policy executes or awaits a command.       *)
THEOREM StopSafety == Spec => []StopIsSafe
<1>1. TypeOK /\ Handshake => StopIsSafe
  <2>. SUFFICES ASSUME TypeOK, Handshake, ctl.terminal_complete \/ ctl.stop_broadcast_sent,
                       NEW p \in ctl.policies
                PROVE  cur[p] = None /\ ctl.policy_stream[p] = <<>>
    BY DEF StopIsSafe
  <2>1. ctl.terminal_complete
    BY DEF Handshake, Lifecycle
  <2>2. ctl.status[p] # "RUNNING" /\ ctl.policy_stream[p] = <<>>
    BY <2>1 DEF Handshake, Lifecycle
  <2>3. ctl.status[p] \in Status
    BY DEF TypeOK, ControllerTypeOK
  <2>. QED BY <2>2, <2>3 DEF Handshake, Handshakes, HandshakeOf, Status
<1>. QED BY <1>1, TypeCorrect, HandshakeCorrect, PTL

(* Registered policies never hold work of different steps, and the         *)
(* controller's view of who is busy is exact.                              *)
THEOREM StepAgreement == Spec => []StepsAgree
<1>1. TypeOK /\ Handshake => StepsAgree
  <2>. SUFFICES ASSUME TypeOK, Handshake, NEW p \in ctl.policies
                PROVE  /\ (ctl.status[p] = "RUNNING") = (Outstanding(p) # {})
                       /\ \A cmd \in Outstanding(p) :
                            cmd.step = IF cmd.type = "DataFetch" THEN ctl.current_step
                                                                 ELSE ctl.completion_step
    BY DEF StepsAgree
  <2>. DEFINE s == ctl.policy_stream[p]
  <2>1. /\ HandshakeOf(ctl.status[p], s, cur[p], ctl) /\ ctl.status[p] \in Status
        /\ s \in Seq(PolicyCommand)
    BY DEF Handshake, Handshakes, TypeOK, ControllerTypeOK, PolicyStreams
  <2>. HIDE DEF s
  <2>2. \A cmd : cmd \in Range(s) <=> \E i \in 1 .. Len(s) : cmd = s[i]
    BY <2>1 DEF Range
  <2>3. \A cmd : Current(ctl, cmd) =>
          /\ Work(cmd)
          /\ cmd.step = IF cmd.type = "DataFetch" THEN ctl.current_step
                                                  ELSE ctl.completion_step
    BY DEF Current, Work
  <2>4. \A cmd : cmd.type = "P2R" => ~Work(cmd)
    BY DEF Work
  <2>5. Outstanding(p) = (IF cur[p] = None THEN {} ELSE {cur[p]})
                           \cup {cmd \in Range(s) : Work(cmd)}
    BY DEF Outstanding, s
  <2>6. CASE ctl.status[p] # "RUNNING"
    <3>1. cur[p] = None /\ P2ROnly(s, Len(s))
      BY <2>1, <2>6 DEF HandshakeOf, Status, P2ROnly
    <3>2. Outstanding(p) = {}
      BY <2>2, <2>4, <2>5, <3>1 DEF P2ROnly
    <3>. QED BY <2>6, <3>2
  <2>7. CASE ctl.status[p] = "RUNNING" /\ cur[p] # None
    <3>1. s = <<>> /\ Current(ctl, cur[p])
      BY <2>1, <2>7 DEF HandshakeOf
    <3>2. Outstanding(p) = {cur[p]}
      BY <2>2, <2>5, <2>7, <3>1
    <3>. QED BY <2>3, <2>7, <3>1, <3>2
  <2>8. CASE ctl.status[p] = "RUNNING" /\ cur[p] = None
    <3>1. s # <<>> /\ P2ROnly(s, Len(s) - 1) /\ Current(ctl, s[Len(s)])
      BY <2>1, <2>8 DEF HandshakeOf
    <3>2. Len(s) \in Nat /\ Len(s) \in 1 .. Len(s)
      BY <2>1, <3>1
    <3>3. \A i \in 1 .. Len(s) : i # Len(s) => i \in 1 .. Len(s) - 1
      BY <3>2
    <3>4. \A i \in 1 .. Len(s) : Work(s[i]) => s[i] = s[Len(s)]
      BY <2>4, <3>1, <3>3 DEF P2ROnly
    <3>5. Outstanding(p) = {s[Len(s)]}
      BY <2>2, <2>3, <2>5, <2>8, <3>1, <3>2, <3>4
    <3>. QED BY <2>3, <2>8, <3>1, <3>5
  <2>. QED BY <2>6, <2>7, <2>8
<1>. QED BY <1>1, TypeCorrect, HandshakeCorrect, PTL
===============================================================================
