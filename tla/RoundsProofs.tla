------------------------------ MODULE RoundsProofs ------------------------------
(***************************************************************************)
(* The job implements TrainingRounds, it never trains past its horizon, a  *)
(* horizon it has advertised is binding, and no weight sync waits for a    *)
(* rollout that has left.                                                  *)
(*                                                                         *)
(* All rest on one view of the controller: a call either starts nothing    *)
(* (Quiet) or hands one round to every member at once (Begins), and only   *)
(* the last acknowledgement of a round does so in the same call.           *)
(***************************************************************************)
EXTENDS AccountingProofs

Busy(c) == {p \in c.policies : c.status[p] = "RUNNING"}

(* The call starts no round.                                               *)
Quiet(c, d) ==
  /\ SameBarrier(c, d)
  /\ d.dispatched = c.dispatched
  /\ d.remain_samples_num <= c.remain_samples_num

(* What a started round leaves alone, and its members.                     *)
Hands(c, d) ==
  /\ Busy(c) = {} /\ c.policies # {}
  /\ c.completion_step = None /\ ~c.terminal_complete
  /\ d.policies = c.policies /\ Busy(d) = c.policies
  /\ d.terminal_complete = c.terminal_complete
  /\ d.stop_broadcast_sent = c.stop_broadcast_sent
  /\ training_horizon(d) = training_horizon(c)

(* A training round: its record is filed, its samples are off the budget,  *)
(* and every member's last command advertises the horizon.                 *)
HandsTraining(c, d) ==
  /\ Hands(c, d)
  /\ ~training_finished(c)
  /\ d.current_step = c.current_step + 1
  /\ d.completion_step = None /\ d.completion_acks = c.completion_acks
  /\ \E x \in d.dispatched : x.step = d.current_step
  /\ d.remain_samples_num <= c.remain_samples_num - required_rollouts(c)
  /\ \A p \in c.policies : d.policy_stream[p][Len(d.policy_stream[p])].total = training_horizon(c)

HandsClosing(c, d) ==
  /\ Hands(c, d)
  /\ d.current_step = c.current_step
  /\ d.completion_step = c.current_step + 1
  /\ d.remain_samples_num <= c.remain_samples_num

Begins(c, d) == HandsTraining(c, d) \/ HandsClosing(c, d)

Opens(c, d) == Quiet(c, d) \/ Begins(c, d)

-----------------------------------------------------------------------------
(* The methods of the controller *)

(* A quiet call before changes nothing about what a later one starts.      *)
LEMMA QuietFirst ==
  ASSUME NEW b, NEW c, NEW d, ControllerTypeOK(b), ControllerTypeOK(c), ControllerTypeOK(d),
         Quiet(b, c), Opens(c, d)
  PROVE  Opens(b, d)
<1>1. /\ b.remain_samples_num \in Int /\ c.remain_samples_num \in Int
      /\ d.remain_samples_num \in Int /\ required_rollouts(c) \in Int
      /\ c.remain_samples_num <= b.remain_samples_num
  BY RequiredType DEF ControllerTypeOK, Quiet
<1>2. /\ Busy(c) = Busy(b) /\ required_rollouts(c) = required_rollouts(b)
      /\ training_finished(c) = training_finished(b)
      /\ training_horizon(c) = training_horizon(b)
  BY DEF Quiet, SameBarrier, Busy, required_rollouts, n_policy, training_finished
<1>3. CASE Quiet(c, d)
  <2>1. SameBarrier(b, d)
    BY <1>3 DEF Quiet, SameBarrier
  <2>. QED BY <1>1, <1>3, <2>1 DEF Quiet, Opens
<1>4. CASE Begins(c, d)
  <2>1. Hands(b, d)
    BY <1>2, <1>4 DEF Begins, HandsTraining, HandsClosing, Hands, Quiet, SameBarrier
  <2>2. HandsTraining(c, d) => HandsTraining(b, d)
    <3>1. /\ c.policies = b.policies /\ c.current_step = b.current_step
          /\ c.completion_acks = b.completion_acks
      BY DEF Quiet, SameBarrier
    <3>2. c.remain_samples_num - required_rollouts(c) <= b.remain_samples_num - required_rollouts(c)
      BY <1>1
    <3>3. d.remain_samples_num <= c.remain_samples_num - required_rollouts(c) =>
            d.remain_samples_num <= b.remain_samples_num - required_rollouts(c)
      BY <1>1, <3>2
    <3>. QED BY <1>2, <2>1, <3>1, <3>3 DEF HandsTraining
  <2>3. HandsClosing(c, d) => HandsClosing(b, d)
    BY <1>1, <2>1 DEF HandsClosing, Quiet, SameBarrier
  <2>. QED BY <1>4, <2>2, <2>3 DEF Begins, Opens
<1>. QED BY <1>3, <1>4 DEF Opens

(* A call that changes nothing is quiet.                                   *)
LEMMA QuietSelf ==
  ASSUME NEW c, NEW w, Agreed(c, w)
  PROVE  Quiet(c, c)
BY DEF Quiet, SameBarrier, Agreed, Lifecycle, ControllerTypeOK

(* The trigger starts a training round or nothing.                         *)
LEMMA TriggerOpens ==
  ASSUME NEW c, NEW w, Agreed(c, w), c.completion_step = None
  PROVE  Opens(c, try_trigger_data_fetch_and_training(c))
<1>. DEFINE t == try_trigger_data_fetch_and_training(c)
            step == c.current_step + 1
            cmd == [type |-> "DataFetch", step |-> step, total |-> training_horizon(c)]
            new == [step |-> step, count |-> required_rollouts(c)]
<1>1. CASE ~(/\ c.policies # {} /\ ~training_finished(c)
             /\ all_ready_or_reduced(c) /\ rollouts_enough_for_one_step(c))
  BY <1>1, QuietSelf DEF try_trigger_data_fetch_and_training, Opens
<1>2. CASE /\ c.policies # {} /\ ~training_finished(c)
           /\ all_ready_or_reduced(c) /\ rollouts_enough_for_one_step(c)
  <2>1. /\ t.policies = c.policies /\ t.status = set_all_status(c, "RUNNING")
        /\ t.policy_stream = publish_to_policies(c, cmd) /\ t.current_step = step
        /\ t.dispatched = {d \in c.dispatched : d.step # step} \cup {new}
        /\ t.remain_samples_num = c.remain_samples_num - required_rollouts(c)
        /\ t.draining_total_steps = c.draining_total_steps
        /\ t.total_steps = c.total_steps
        /\ t.completion_step = c.completion_step /\ t.terminal_complete = c.terminal_complete
        /\ t.completion_acks = c.completion_acks
        /\ t.stop_broadcast_sent = c.stop_broadcast_sent
    BY <1>2 DEF try_trigger_data_fetch_and_training, Agreed, ControllerTypeOK, Fields
  <2>2. c.remain_samples_num \in Int /\ required_rollouts(c) \in Nat /\ step \in Nat
        /\ c.status \in [Policies -> Status] /\ c.policies \subseteq Policies
    BY RequiredType DEF Agreed, ControllerTypeOK
  <2>3. cmd \in PolicyCommand /\ cmd.total = training_horizon(c)
    BY <2>2, HorizonType DEF PolicyCommand, Agreed
  <2>4. Busy(c) = {} /\ ~c.terminal_complete
    BY <1>2 DEF Busy, all_ready_or_reduced, training_finished
  <2>. HIDE DEF t
  <2>5. Busy(t) = c.policies
    BY <2>1, <2>2 DEF Busy, set_all_status
  <2>6. Hands(c, t)
    BY <1>2, <2>1, <2>4, <2>5 DEF Hands, training_horizon
  <2>7. \E x \in t.dispatched : x.step = t.current_step
    <3>1. new.step = step
      OBVIOUS
    <3>. QED BY <2>1, <3>1
  <2>8. ASSUME NEW p \in c.policies
        PROVE  t.policy_stream[p][Len(t.policy_stream[p])].total = training_horizon(c)
    <3>1. P2ROnly(c.policy_stream[p], Len(c.policy_stream[p]))
      BY <1>2, IdleShape DEF all_ready_or_reduced
    <3>2. t.policy_stream[p][Len(t.policy_stream[p])] = cmd
      BY <2>1, <2>3, <3>1, PublishShape DEF Agreed
    <3>. QED BY <2>3, <3>2
  <2>9. t.remain_samples_num <= c.remain_samples_num - required_rollouts(c)
    BY <2>1, <2>2
  <2>. QED BY <1>2, <2>1, <2>6, <2>7, <2>8, <2>9 DEF Opens, Begins, HandsTraining, t
<1>. QED BY <1>1, <1>2

(* The completion round.                                                   *)
LEMMA CompleteOpens ==
  ASSUME NEW c, NEW w, Agreed(c, w), all_ready_or_reduced(c), ~c.terminal_complete
  PROVE  Opens(c, trigger_training_complete(c))
<1>. DEFINE t == trigger_training_complete(c)
            step == c.current_step + 1
<1>1. CASE c.policies = {} \/ c.completion_step # None
  BY <1>1, QuietSelf DEF trigger_training_complete, Opens
<1>2. CASE ~(c.policies = {} \/ c.completion_step # None)
  <2>1. /\ t.policies = c.policies /\ t.status = set_all_status(c, "RUNNING")
        /\ t.completion_step = step /\ t.current_step = c.current_step
        /\ t.remain_samples_num = c.remain_samples_num
        /\ t.draining_total_steps = c.draining_total_steps
        /\ t.total_steps = c.total_steps /\ t.terminal_complete = c.terminal_complete
        /\ t.stop_broadcast_sent = c.stop_broadcast_sent
    BY <1>2 DEF trigger_training_complete, Agreed, ControllerTypeOK, Fields
  <2>2. /\ c.remain_samples_num \in Int /\ c.policies \subseteq Policies
        /\ c.status \in [Policies -> Status]
    BY DEF Agreed, ControllerTypeOK
  <2>. HIDE DEF t
  <2>3. Busy(t) = c.policies /\ Busy(c) = {}
    BY <2>1, <2>2 DEF Busy, set_all_status, all_ready_or_reduced
  <2>4. Hands(c, t)
    BY <1>2, <2>1, <2>3 DEF Hands, training_horizon
  <2>. QED BY <2>1, <2>2, <2>4 DEF Opens, Begins, HandsClosing, t
<1>. QED BY <1>1, <1>2

(* Bookkeeping starts nothing.                                             *)
LEMMA QuietBooks ==
  ASSUME NEW c, NEW w, Agreed(c, w), NEW n \in Nat
  PROVE  /\ Quiet(c, _settle_samples_on_the_fly(c, n))
         /\ Quiet(c, cleanup_buffered_rollouts(c))
         /\ Quiet(c, enter_draining_phase(c))
         /\ \A r : Quiet(c, forget_discard_reports(c, r))
         /\ \A r, id : Quiet(c, settle_discarded_samples(c, r, id, n))
<1>0. /\ c.job_phase = "DRAINING" <=> c.draining_total_steps # None
      /\ c.job_phase \in JobPhase /\ c.total_steps # None /\ c.remain_samples_num \in Int
  BY ReplicaAssumption DEF Agreed, Lifecycle, ControllerTypeOK
<1>1. Quiet(c, _settle_samples_on_the_fly(c, n))
  BY <1>0 DEF Quiet, SameBarrier, _settle_samples_on_the_fly, Agreed, ControllerTypeOK, Fields,
         training_horizon
<1>2. Quiet(c, cleanup_buffered_rollouts(c))
  BY <1>0 DEF Quiet, SameBarrier, _settle_samples_on_the_fly, cleanup_buffered_rollouts, Agreed,
         ControllerTypeOK, Fields, training_horizon
<1>3. Quiet(c, enter_draining_phase(c))
  BY <1>0 DEF Quiet, SameBarrier, enter_draining_phase, Agreed, ControllerTypeOK, Fields,
         training_horizon, JobPhase
<1>4. ASSUME NEW r PROVE Quiet(c, forget_discard_reports(c, r))
  BY <1>0 DEF Quiet, SameBarrier, forget_discard_reports, Agreed, ControllerTypeOK, Fields,
         training_horizon
<1>5. ASSUME NEW r, NEW id PROVE Quiet(c, settle_discarded_samples(c, r, id, n))
  BY <1>0 DEF Quiet, SameBarrier, settle_discarded_samples, _settle_samples_on_the_fly, Agreed,
         ControllerTypeOK, Fields, training_horizon
<1>. QED BY <1>1, <1>2, <1>3, <1>4, <1>5

(* Draining: the last full batch, the completion round, or nothing.        *)
LEMMA FinishOpens ==
  ASSUME NEW c, NEW w, Agreed(c, w)
  PROVE  Opens(c, finish_draining_phase(c))
<1>. DEFINE d == enter_draining_phase(c)
            clean == cleanup_buffered_rollouts(d)
<1>1. Quiet(c, d) /\ Agreed(d, w)
  BY QuietBooks, EnterAgreed
<1>. HIDE DEF d
<1>2. Quiet(d, clean) /\ Agreed(clean, w)
  BY <1>1, QuietBooks, AccountingFrame
<1>. HIDE DEF clean
<1>3. ASSUME ~rollout_admission_closed(d), all_ready_or_reduced(d)
      PROVE  Opens(d, drain_or_complete(d))
  <2>1. ~d.terminal_complete /\ d.completion_step = None
    BY <1>3 DEF rollout_admission_closed
  <2>2. ~clean.terminal_complete /\ all_ready_or_reduced(clean)
    BY <1>2, <1>3, <2>1 DEF Quiet, SameBarrier, all_ready_or_reduced
  <2>3. ~real_terminal_command_acked(clean)
    <3>1. training_horizon(clean) # None
      BY <1>2, HorizonType, ReplicaAssumption DEF Agreed
    <3>. QED BY <1>2, <2>2, <3>1 DEF Agreed, Lifecycle, real_terminal_command_acked
  <2>4. Opens(d, trigger_training_complete(clean))
    <3>1. Opens(clean, trigger_training_complete(clean))
      BY <1>2, <2>2, CompleteOpens
    <3>2. ControllerTypeOK(trigger_training_complete(clean))
      BY <1>2, CompleteType DEF Agreed
    <3>. QED BY <1>1, <1>2, <3>1, <3>2, QuietFirst DEF Agreed
  <2>5. Opens(d, try_trigger_data_fetch_and_training(d))
    BY <1>1, <2>1, TriggerOpens
  <2>. QED BY <2>3, <2>4, <2>5 DEF drain_or_complete, clean
<1>4. Opens(d, clean) /\ Opens(d, d) /\ Opens(c, c)
  BY <1>1, <1>2, QuietSelf DEF Opens
<1>5. ControllerTypeOK(c) /\ ControllerTypeOK(d) /\ ControllerTypeOK(clean)
      /\ ControllerTypeOK(finish_draining_phase(c))
  BY <1>1, <1>2, FinishAgreed DEF Agreed
<1>6. finish_draining_phase(c) = c \/ Opens(d, finish_draining_phase(c))
  BY <1>3, <1>4 DEF finish_draining_phase, d, clean
<1>. QED BY <1>1, <1>4, <1>5, <1>6, QuietFirst

(* Posted rollouts may complete the batch of a round.                      *)
LEMMA PutOpens ==
  ASSUME NEW c, NEW w, Agreed(c, w), NEW count \in Nat, NEW kept \in 0 .. count
  PROVE  Opens(c, put_rollout_group(c, count, kept))
<1>. DEFINE f == filter_outdated_rollouts(c, count, kept)
            g == [f EXCEPT !.rollout_buffer = @ + kept]
<1>1. count - kept \in Nat /\ kept \in Nat
  OBVIOUS
<1>2. /\ c.job_phase = "DRAINING" <=> c.draining_total_steps # None
      /\ c.remain_samples_num \in Int
  BY DEF Agreed, Lifecycle, ControllerTypeOK
<1>3. ControllerTypeOK(f) /\ Quiet(c, f)
  BY <1>1, <1>2 DEF Quiet, SameBarrier, filter_outdated_rollouts, _settle_samples_on_the_fly,
         Agreed, ControllerTypeOK, Fields, training_horizon
<1>. HIDE DEF f
<1>4. ControllerTypeOK(g) /\ Quiet(c, g)
  BY <1>1, <1>3 DEF Quiet, SameBarrier, ControllerTypeOK, Fields, training_horizon
<1>. HIDE DEF g
<1>5. ~rollout_admission_closed(c) => Opens(c, try_trigger_data_fetch_and_training(g))
  <2>1. Agreed(g, w)
    BY <1>4, Frame DEF Quiet
  <2>2. ~rollout_admission_closed(c) => g.completion_step = None
    BY <1>4 DEF rollout_admission_closed, Quiet, SameBarrier
  <2>3. ControllerTypeOK(try_trigger_data_fetch_and_training(g))
    BY <1>4, TriggerType
  <2>. QED BY <1>4, <2>1, <2>2, <2>3, TriggerOpens, QuietFirst DEF Agreed
<1>6. Opens(c, _settle_samples_on_the_fly(c, count)) /\ Opens(c, f)
  BY <1>3, QuietBooks DEF Opens
<1>. QED BY <1>5, <1>6 DEF put_rollout_group, f, g

(* The end of a rollout may start the completion round.                    *)
LEMMA EndOpens ==
  ASSUME NEW c, NEW w, Agreed(c, w), NEW r \in Rollouts
  PROVE  Opens(c, rollout_end(c, r))
<1>. DEFINE e == [c EXCEPT !.ended = @ \cup {r}]
            f == finish_draining_phase(e)
            h == forget_discard_reports(f, r)
<1>1. ControllerTypeOK(e)
  BY DEF Agreed, ControllerTypeOK, Fields
<1>2. Quiet(c, e)
  BY DEF Quiet, SameBarrier, Agreed, ControllerTypeOK, Fields, training_horizon, Lifecycle
<1>3. Agreed(e, w)
  BY <1>1, <1>2, Frame DEF Quiet
<1>. HIDE DEF e
<1>4. Agreed(f, w) /\ Opens(c, f)
  <2>1. Agreed(f, w) /\ Opens(e, f)
    BY <1>3, FinishAgreed, FinishOpens
  <2>. HIDE DEF f
  <2>. QED BY <1>1, <1>2, <2>1, QuietFirst DEF Agreed
<1>. HIDE DEF f
<1>5. /\ h.policies = f.policies /\ h.status = f.status /\ h.current_step = f.current_step
      /\ h.completion_step = f.completion_step /\ h.completion_acks = f.completion_acks
      /\ h.terminal_complete = f.terminal_complete
      /\ h.stop_broadcast_sent = f.stop_broadcast_sent /\ h.dispatched = f.dispatched
      /\ h.remain_samples_num = f.remain_samples_num /\ h.policy_stream = f.policy_stream
      /\ training_horizon(h) = training_horizon(f)
      /\ SameBarrier(f, h)
  BY <1>4 DEF forget_discard_reports, Agreed, ControllerTypeOK, Fields, training_horizon,
              SameBarrier, Lifecycle
<1>. HIDE DEF h
<1>6. Opens(c, h)
  <2>1. Quiet(c, f) => Quiet(c, h)
    BY <1>5 DEF Quiet, SameBarrier
  <2>2. Hands(c, f) => Hands(c, h)
    BY <1>5 DEF Hands, Busy
  <2>. QED BY <1>4, <1>5, <2>1, <2>2 DEF Opens, Begins, HandsTraining, HandsClosing
<1>7. Opens(c, c)
  BY QuietSelf DEF Opens
<1>. QED BY <1>6, <1>7 DEF rollout_end, e, f, h

-----------------------------------------------------------------------------
(* Acknowledgements *)

(* The round is over: nobody is busy, and the series may have ended.       *)
Rests(c, d) ==
  /\ d.policies = c.policies /\ Busy(d) = {}
  /\ d.current_step = c.current_step /\ d.completion_step = c.completion_step
  /\ d.completion_acks = c.completion_acks
  /\ d.stop_broadcast_sent = c.stop_broadcast_sent
  /\ training_horizon(d) = training_horizon(c)
  /\ d.remain_samples_num <= c.remain_samples_num

(* The last ACK of a step ends its round, and may start the next one; the  *)
(* ACK of the final step ends the series.                                  *)
LEMMA SettleStepRests ==
  ASSUME NEW c, NEW w, Agreed(c, w), all_reduced(c), c.policies # {},
         c.completion_step = None, ~c.terminal_complete,
         NEW step \in Nat, NEW total \in Int,
         total = step => training_horizon(c) = step
  PROVE  LET d == settle_step(c, step, total)
         IN /\ Begins(c, d) \/ Rests(c, d)
            /\ (\E x \in c.dispatched : x.step = step) /\ total = step => d.terminal_complete
<1>. DEFINE record == {d \in c.dispatched : d.step = step}
            popped == [c EXCEPT
                         !.dispatched = @ \ record,
                         !.samples_on_the_fly =
                           IF record = {} THEN @
                           ELSE @ - (CHOOSE d \in record : TRUE).count]
            counted == IF record = {} THEN popped
                       ELSE record_real_datafetch_acked(popped, step, total)
            ready == [counted EXCEPT !.status = set_all_status(counted, "READY")]
            synced == IF should_weight_sync_after_train_ack(counted, step)
                      THEN trigger_weight_sync(ready, step) ELSE ready
            d == settle_step(c, step, total)
<1>1. ControllerTypeOK(popped)
  <2>1. record # {} => (CHOOSE x \in record : TRUE).count \in Nat
    <3>1. record \subseteq DispatchRecord
      BY DEF Agreed, ControllerTypeOK
    <3>. HIDE DEF record
    <3>. QED BY <3>1 DEF DispatchRecord
  <2>2. c.dispatched \ record \in SUBSET DispatchRecord
    BY DEF Agreed, ControllerTypeOK
  <2>. HIDE DEF record
  <2>. QED BY <2>1, <2>2 DEF Agreed, ControllerTypeOK, Fields
<1>2. SameBarrier(c, popped) /\ popped.remain_samples_num = c.remain_samples_num
  <2>. HIDE DEF record
  <2>. QED BY DEF SameBarrier, Agreed, ControllerTypeOK, Fields, training_horizon, Lifecycle
<1>3. Agreed(popped, w)
  BY <1>1, <1>2, Frame
<1>4. (\E x \in c.dispatched : x.step = step) <=> record # {}
  OBVIOUS
<1>5. /\ all_reduced(popped) /\ popped.policies = c.policies
      /\ popped.completion_step = None /\ ~popped.terminal_complete
      /\ total = step => training_horizon(popped) = step
  BY <1>2 DEF SameBarrier, all_reduced
<1>. HIDE DEF popped, record
<1>6. /\ Agreed(counted, w) /\ counted.policies = c.policies /\ all_reduced(counted)
      /\ counted.completion_step = None
      /\ counted.terminal_complete => step = training_horizon(counted)
  BY <1>3, <1>5, RecordAgreed
<1>7. /\ counted.current_step = c.current_step
      /\ counted.completion_acks = c.completion_acks
      /\ counted.stop_broadcast_sent = c.stop_broadcast_sent
      /\ training_horizon(counted) = training_horizon(c)
      /\ counted.remain_samples_num = c.remain_samples_num
      /\ record # {} /\ total = step => counted.terminal_complete
  <2>1. /\ popped.current_step = c.current_step
        /\ popped.completion_acks = c.completion_acks
        /\ popped.stop_broadcast_sent = c.stop_broadcast_sent
        /\ training_horizon(popped) = training_horizon(c)
        /\ popped.remain_samples_num = c.remain_samples_num
    BY <1>2 DEF SameBarrier
  <2>2. LET r == record_real_datafetch_acked(popped, step, total)
        IN /\ r.current_step = popped.current_step
           /\ r.completion_acks = popped.completion_acks
           /\ r.stop_broadcast_sent = popped.stop_broadcast_sent
           /\ training_horizon(r) = training_horizon(popped)
           /\ r.remain_samples_num = popped.remain_samples_num
           /\ total = step => r.terminal_complete
    BY <1>1, <1>5 DEF record_real_datafetch_acked, cleanup_buffered_rollouts,
           _settle_samples_on_the_fly, ControllerTypeOK, Fields, training_horizon
  <2>. QED BY <2>1, <2>2
<1>. HIDE DEF counted
<1>8. /\ ready.policies = c.policies
      /\ ready.completion_step = None /\ ready.terminal_complete = counted.terminal_complete
      /\ ready.current_step = counted.current_step
      /\ ready.completion_acks = counted.completion_acks
      /\ ready.stop_broadcast_sent = counted.stop_broadcast_sent
      /\ ready.acked_step = counted.acked_step
      /\ ready.acked_total_steps = counted.acked_total_steps
      /\ ready.job_phase = counted.job_phase
      /\ ready.draining_total_steps = counted.draining_total_steps
      /\ training_horizon(ready) = training_horizon(counted)
      /\ ready.remain_samples_num = counted.remain_samples_num
      /\ ready.status = set_all_status(counted, "READY")
      /\ ready.policy_stream = counted.policy_stream
  BY <1>6 DEF Agreed, ControllerTypeOK, Fields, training_horizon
<1>9. ControllerTypeOK(ready)
  <2>1. set_all_status(counted, "READY") \in [Policies -> Status]
    BY <1>6, StatusType DEF Status, Agreed
  <2>. QED BY <1>6, <2>1 DEF Agreed, ControllerTypeOK, Fields
<1>. HIDE DEF ready
<1>10. \A q \in c.policies : ready.status[q] = "READY"
  BY <1>6, <1>8 DEF set_all_status, Agreed, ControllerTypeOK
<1>11. Agreed(ready, w)
  <2>1. \A q \in c.policies : w[q] = None /\ counted.policy_stream[q] = <<>>
    BY <1>6 DEF Agreed, Handshakes, HandshakeOf, all_reduced
  <2>2. Lifecycle(ready)
    BY <1>6, <1>8, <1>10, <2>1 DEF Agreed, Lifecycle
  <2>3. Handshakes(ready, w)
    BY <1>8, <1>10, <2>1 DEF Handshakes, HandshakeOf, P2ROnly
  <2>. QED BY <1>9, <2>2, <2>3 DEF Agreed
<1>12. should_weight_sync_after_train_ack(counted, step) => ~counted.terminal_complete
  <2>1. counted.job_phase # "DRAINING" => training_horizon(counted) = counted.total_steps
    BY <1>6 DEF Agreed, Lifecycle, training_horizon
  <2>. QED BY <1>6, <2>1 DEF should_weight_sync_after_train_ack, need_weight_sync
<1>13. /\ Agreed(synced, w) /\ synced.completion_step = None
       /\ synced.terminal_complete = counted.terminal_complete
       /\ synced.policies = c.policies /\ Busy(synced) = {}
       /\ synced.current_step = c.current_step
       /\ synced.completion_acks = c.completion_acks
       /\ synced.stop_broadcast_sent = c.stop_broadcast_sent
       /\ training_horizon(synced) = training_horizon(c)
       /\ synced.remain_samples_num = c.remain_samples_num
  <2>1. CASE should_weight_sync_after_train_ack(counted, step)
    <3>1. /\ Agreed(trigger_weight_sync(ready, step), w)
          /\ trigger_weight_sync(ready, step).completion_step = None
      BY <1>8, <1>10, <1>11, <1>12, <2>1, SyncAgreed
    <3>2. LET s == trigger_weight_sync(ready, step)
          IN /\ s.terminal_complete = ready.terminal_complete
             /\ s.policies = ready.policies /\ s.status = ready.status
             /\ s.current_step = ready.current_step
             /\ s.completion_acks = ready.completion_acks
             /\ s.stop_broadcast_sent = ready.stop_broadcast_sent
             /\ training_horizon(s) = training_horizon(ready)
             /\ s.remain_samples_num = ready.remain_samples_num
      BY <1>9 DEF trigger_weight_sync, ControllerTypeOK, Fields, training_horizon
    <3>. QED BY <1>7, <1>8, <1>10, <2>1, <3>1, <3>2 DEF Busy
  <2>2. CASE ~should_weight_sync_after_train_ack(counted, step)
    BY <1>7, <1>8, <1>10, <1>11, <2>2 DEF Busy
  <2>. QED BY <2>1, <2>2
<1>14. d = IF synced.job_phase = "DRAINING" THEN finish_draining_phase(synced)
           ELSE try_trigger_data_fetch_and_training(synced)
  BY DEF settle_step, popped, counted, ready, record
<1>. HIDE DEF synced
<1>15. Opens(synced, d)
  BY <1>13, <1>14, FinishOpens, TriggerOpens
<1>16. Agreed(d, w)
  BY SettleStepAgreed
<1>. HIDE DEF d
<1>17. Busy(c) = {}
  BY DEF all_reduced, Busy
<1>18. /\ required_rollouts(synced) = required_rollouts(c)
       /\ training_finished(synced) => training_finished(c) \/ synced.terminal_complete
       /\ training_finished(c) => training_finished(synced)
  BY <1>13 DEF required_rollouts, n_policy, training_finished
<1>19. CASE Quiet(synced, d)
  <2>1. Rests(c, d)
    BY <1>13, <1>19 DEF Quiet, SameBarrier, Rests, Busy
  <2>. QED BY <1>4, <1>7, <1>13, <1>19, <2>1 DEF Quiet, SameBarrier, d
<1>20. CASE Begins(synced, d)
  <2>1. Hands(synced, d)
    BY <1>20 DEF Begins, HandsTraining, HandsClosing
  <2>2. ~synced.terminal_complete
    BY <2>1 DEF Hands
  <2>3. Hands(c, d)
    <3>1. c.terminal_complete \in BOOLEAN /\ synced.terminal_complete \in BOOLEAN
      BY <1>13 DEF Agreed, ControllerTypeOK
    <3>2. c.terminal_complete = synced.terminal_complete
      BY <2>2, <3>1
    <3>. QED BY <1>13, <1>17, <2>1, <3>2 DEF Hands
  <2>4. Begins(c, d)
    BY <1>13, <1>18, <1>20, <2>3 DEF Begins, HandsTraining, HandsClosing
  <2>. QED BY <1>4, <1>7, <1>13, <2>2, <2>4 DEF d
<1>. QED BY <1>15, <1>19, <1>20 DEF Opens

(* An ACK of p with something still to come from others, or of a closing   *)
(* round: p is no longer busy, and the last ACK may end the series.        *)
Acks(c, d, p) ==
  /\ d.policies = c.policies /\ Busy(d) = Busy(c) \ {p}
  /\ d.status[p] = "REDUCED" /\ \A q \in c.policies : q # p => d.status[q] = c.status[q]
  /\ d.policy_stream = c.policy_stream
  /\ d.current_step = c.current_step /\ d.completion_step = c.completion_step
  /\ c.completion_step = None => d.completion_acks = c.completion_acks
  /\ d.stop_broadcast_sent = c.stop_broadcast_sent
  /\ training_horizon(d) = training_horizon(c)
  /\ d.dispatched = c.dispatched
  /\ d.remain_samples_num = c.remain_samples_num

(* The whole handler of an ACK.                                            *)
LEMMA AckRounds ==
  ASSUME NEW c, NEW w \in Works, Agreed(c, w), NEW p \in c.policies, w[p] # None,
         w[p].step \in Nat, w[p].total \in Int
  PROVE  LET d == train_ack(c, p, w[p].step, w[p].total)
             b == [c EXCEPT !.status[p] = "REDUCED"]
         IN /\ p \in Busy(c) /\ ~c.terminal_complete /\ Current(c, w[p])
            /\ ControllerTypeOK(b) /\ Acks(c, b, p) /\ ~b.terminal_complete
            /\ \/ /\ Acks(c, d, p)
                  /\ d.terminal_complete => Busy(c) = {p} /\ c.completion_step # None
                  /\ c.completion_step = None => \E q \in c.policies : d.status[q] # "REDUCED"
               \/ /\ Busy(c) = {p} /\ c.completion_step = None
                  /\ Begins(b, d) \/ Rests(b, d)
                  /\ /\ \E x \in c.dispatched : x.step = w[p].step
                     /\ w[p].total = w[p].step
                     => d.terminal_complete
<1>. DEFINE step == w[p].step
            total == w[p].total
            d == train_ack(c, p, step, total)
            b == [c EXCEPT !.status[p] = "REDUCED"]
            v == [w EXCEPT ![p] = None]
<1>1. /\ Current(c, w[p]) /\ ~c.terminal_complete /\ c.status[p] = "RUNNING"
      /\ p \in Busy(c) /\ p \in Policies
  <2>1. Current(c, w[p]) /\ ~c.terminal_complete /\ c.status[p] = "RUNNING"
    BY Acknowledging
  <2>2. c.policies \subseteq Policies
    BY DEF Agreed, ControllerTypeOK
  <2>. QED BY <2>1, <2>2 DEF Busy
<1>2. [c.status EXCEPT ![p] = "REDUCED"] \in [Policies -> Status]
  BY DEF Agreed, ControllerTypeOK, Status
<1>3. /\ b.policies = c.policies /\ b.status = [c.status EXCEPT ![p] = "REDUCED"]
      /\ b.policy_stream = c.policy_stream
      /\ b.current_step = c.current_step /\ b.completion_step = c.completion_step
      /\ b.completion_acks = c.completion_acks
      /\ b.stop_broadcast_sent = c.stop_broadcast_sent
      /\ training_horizon(b) = training_horizon(c)
      /\ b.dispatched = c.dispatched /\ b.remain_samples_num = c.remain_samples_num
      /\ b.terminal_complete = c.terminal_complete
  BY DEF Agreed, ControllerTypeOK, Fields, training_horizon
<1>4. ControllerTypeOK(b)
  BY <1>2 DEF Agreed, ControllerTypeOK, Fields
<1>. HIDE DEF b
<1>5. Acks(c, b, p)
  BY <1>1, <1>3 DEF Acks, Busy, Agreed, ControllerTypeOK
<1>6. ~b.terminal_complete
  BY <1>1, <1>3
<1>7. CASE c.completion_step # None
  <2>1. step = c.completion_step /\ p \in c.completion_recipients
    BY <1>1, <1>7 DEF Current, Agreed, Lifecycle
  <2>2. d = record_completion_ack(c, p)
    BY <2>1 DEF train_ack
  <2>3. /\ d.policies = c.policies /\ d.status = [c.status EXCEPT ![p] = "REDUCED"]
        /\ d.policy_stream = c.policy_stream
        /\ d.current_step = c.current_step /\ d.completion_step = c.completion_step
        /\ d.stop_broadcast_sent = c.stop_broadcast_sent
        /\ training_horizon(d) = training_horizon(c)
        /\ d.dispatched = c.dispatched /\ d.remain_samples_num = c.remain_samples_num
        /\ d.terminal_complete = (c.terminal_complete \/ (/\ p \notin c.completion_acks
                                     /\ c.completion_acks \cup {p} = c.completion_recipients))
    BY <2>2 DEF record_completion_ack, Agreed, ControllerTypeOK, Fields, training_horizon
  <2>. HIDE DEF d
  <2>4. Acks(c, d, p)
    BY <1>1, <1>7, <2>3 DEF Acks, Busy, Agreed, ControllerTypeOK
  <2>5. d.terminal_complete => Busy(c) = {p}
    <3>1. /\ c.policies \subseteq c.completion_recipients
          /\ \A q \in c.policies :
               c.status[q] = IF q \in c.completion_acks THEN "REDUCED" ELSE "RUNNING"
      BY <1>7 DEF Agreed, Lifecycle
    <3>2. d.terminal_complete => c.completion_acks \cup {p} = c.completion_recipients
      BY <1>1, <2>3
    <3>. QED BY <1>1, <3>1, <3>2 DEF Busy
  <2>. QED BY <1>1, <1>4, <1>5, <1>6, <1>7, <2>4, <2>5 DEF d, b
<1>8. CASE c.completion_step = None
  <2>1. step # c.completion_step
    BY <1>8, ReplicaAssumption
  <2>2. Agreed(b, v)
    BY <1>8, ReducedAgreed DEF b
  <2>3. d = IF all_reduced(b) THEN settle_step(b, step, total) ELSE b
    BY <2>1 DEF train_ack, b
  <2>4. total = step => training_horizon(b) = step
    BY <1>1, <1>3, <1>8 DEF Current
  <2>. HIDE DEF d, v
  <2>5. CASE all_reduced(b)
    <3>1. Busy(b) = {}
      BY <2>5 DEF all_reduced, Busy
    <3>2. Busy(c) = {p}
      BY <1>1, <1>5, <3>1 DEF Acks
    <3>3. d = settle_step(b, step, total)
      BY <2>3, <2>5
    <3>4. /\ Begins(b, d) \/ Rests(b, d)
          /\ (\E x \in b.dispatched : x.step = step) /\ total = step => d.terminal_complete
      BY <1>3, <1>6, <1>8, <2>2, <2>4, <2>5, <3>3, SettleStepRests
    <3>5. (\E x \in c.dispatched : x.step = step) /\ total = step => d.terminal_complete
      BY <1>3, <3>4
    <3>. QED BY <1>1, <1>4, <1>5, <1>6, <1>8, <3>2, <3>4, <3>5 DEF d, b
  <2>6. CASE ~all_reduced(b)
    <3>1. d = b
      BY <2>3, <2>6
    <3>2. \E q \in c.policies : b.status[q] # "REDUCED"
      BY <1>3, <2>6 DEF all_reduced
    <3>. QED BY <1>1, <1>4, <1>5, <1>6, <3>1, <3>2 DEF d, b
  <2>. QED BY <2>5, <2>6
<1>. QED BY <1>7, <1>8

-----------------------------------------------------------------------------
(* Departures and the steps of the job *)

(* A departing replica takes nothing with it but itself; only the budget   *)
(* of a job that still trains is computed anew.                            *)
Departs(c, d, p) ==
  /\ d.policies = c.policies \ {p}
  /\ d.status = c.status /\ d.policy_stream = c.policy_stream
  /\ d.current_step = c.current_step /\ d.completion_step = c.completion_step
  /\ d.completion_acks = c.completion_acks
  /\ d.terminal_complete = c.terminal_complete
  /\ d.stop_broadcast_sent = c.stop_broadcast_sent
  /\ d.dispatched = c.dispatched
  /\ d.remain_samples_num = c.remain_samples_num
  /\ training_finished(c) => training_horizon(d) = training_horizon(c)

(* The view of a step that neither starts nor ends anything.               *)
Steady(c, d) ==
  /\ d.policies = c.policies /\ d.status = c.status
  /\ d.current_step = c.current_step /\ d.completion_step = c.completion_step
  /\ d.completion_acks = c.completion_acks
  /\ d.terminal_complete = c.terminal_complete
  /\ training_horizon(d) = training_horizon(c)
  /\ d.dispatched = c.dispatched
  /\ d.remain_samples_num = c.remain_samples_num

(* Unregistering and reaping a policy.                                     *)
LEMMA LeaveDeparts ==
  ASSUME NEW c, NEW w, Agreed(c, w), NEW p \in Policies, NEW f \in BOOLEAN
  PROVE  /\ Departs(c, unregister_policy(c, p), p)
         /\ Departs(c, _maybe_finalize(unregister_policy(c, p), f), p)
<1>. DEFINE d == [c EXCEPT !.policies = @ \ {p}]
            e == recompute_total_steps(d)
            u == unregister_policy(c, p)
<1>1. ControllerTypeOK(d)
  BY DEF Agreed, ControllerTypeOK, Fields
<1>2. /\ d.policies = c.policies \ {p} /\ d.status = c.status
      /\ d.policy_stream = c.policy_stream
      /\ d.current_step = c.current_step /\ d.completion_step = c.completion_step
  /\ d.completion_acks = c.completion_acks
      /\ d.terminal_complete = c.terminal_complete
      /\ d.stop_broadcast_sent = c.stop_broadcast_sent /\ d.dispatched = c.dispatched
      /\ d.remain_samples_num = c.remain_samples_num
      /\ training_horizon(d) = training_horizon(c)
      /\ training_finished(d) = training_finished(c)
  BY DEF Agreed, ControllerTypeOK, Fields, training_horizon, training_finished
<1>. HIDE DEF d
<1>3. /\ e.policies = d.policies /\ e.status = d.status /\ e.policy_stream = d.policy_stream
      /\ e.current_step = d.current_step /\ e.completion_step = d.completion_step
      /\ e.completion_acks = d.completion_acks
      /\ e.terminal_complete = d.terminal_complete
      /\ e.stop_broadcast_sent = d.stop_broadcast_sent /\ e.dispatched = d.dispatched
      /\ e.remain_samples_num = d.remain_samples_num
      /\ training_finished(d) => e = d
  BY <1>1 DEF recompute_total_steps, ControllerTypeOK, Fields
<1>. HIDE DEF e
<1>4. u = d \/ u = e
  BY DEF unregister_policy, d, e
<1>5. Departs(c, u, p)
  BY <1>2, <1>3, <1>4 DEF Departs
<1>6. ControllerTypeOK(u)
  BY LeaveAgreed DEF Agreed
<1>. HIDE DEF u
<1>7. Departs(c, _maybe_finalize(u, f), p)
  <2>. DEFINE z == _maybe_finalize(u, f)
  <2>1. /\ z.policies = u.policies /\ z.status = u.status /\ z.policy_stream = u.policy_stream
        /\ z.current_step = u.current_step /\ z.completion_step = u.completion_step
        /\ z.completion_acks = u.completion_acks
        /\ z.terminal_complete = u.terminal_complete
        /\ z.stop_broadcast_sent = u.stop_broadcast_sent /\ z.dispatched = u.dispatched
        /\ z.remain_samples_num = u.remain_samples_num
        /\ training_horizon(z) = training_horizon(u)
    BY <1>6 DEF _maybe_finalize, ControllerTypeOK, Fields, training_horizon
  <2>. HIDE DEF z
  <2>. QED BY <1>5, <2>1 DEF Departs, z
<1>. QED BY <1>5, <1>7 DEF u

(* What a step of the job is to the controller's rounds.                   *)
LEMMA StepShape ==
  ASSUME TypeOK, WorkerBusy, Agreed(ctl, cur), [Next]_vars
  PROVE  \/ Opens(ctl, ctl') /\ cur' = cur /\ abort' = abort
         \/ \E p \in Policies : /\ ExecuteCommand(p) \/ \E r \in Rollouts : PolicyToRollout(p, r)
                                /\ Steady(ctl, ctl')
                                /\ ctl'.stop_broadcast_sent = ctl.stop_broadcast_sent
         \/ \E p \in Policies : TrainAck(p)
         \/ \E p \in ctl.policies : /\ UnregisterPolicy(p) \/ ReapPolicy(p)
                                    /\ Departs(ctl, ctl', p)
         \/ /\ MonitorStop /\ Steady(ctl, ctl') /\ ctl'.policy_stream = ctl.policy_stream
            /\ ctl'.stop_broadcast_sent = TRUE
            /\ ctl.terminal_complete \/ ctl.policies = {}
<1>1. /\ ControllerTypeOK(ctl) /\ Quiet(ctl, ctl)
      /\ ctl.job_phase = "DRAINING" <=> ctl.draining_total_steps # None
      /\ ctl.remain_samples_num \in Int
  BY QuietSelf DEF TypeOK, Agreed, Lifecycle, ControllerTypeOK
<1>2. ASSUME NEW p \in Policies, PolicyStep(p)
      PROVE  \/ Opens(ctl, ctl') /\ cur' = cur /\ abort' = abort
             \/ /\ ExecuteCommand(p) \/ \E r \in Rollouts : PolicyToRollout(p, r)
                /\ Steady(ctl, ctl')
                /\ ctl'.stop_broadcast_sent = ctl.stop_broadcast_sent
             \/ TrainAck(p)
             \/ /\ p \in ctl.policies
                /\ UnregisterPolicy(p) \/ ReapPolicy(p)
                /\ Departs(ctl, ctl', p)
  <2>1. CASE ExecuteCommand(p) \/ \E r \in Rollouts : PolicyToRollout(p, r)
    <3>1. /\ Steady(ctl, ctl')
          /\ ctl'.stop_broadcast_sent = ctl.stop_broadcast_sent
      BY <1>1, <2>1 DEF ExecuteCommand, PolicyToRollout, Steady, ControllerTypeOK, Fields,
                        training_horizon
    <3>. QED BY <2>1, <3>1
  <2>2. CASE UnregisterPolicy(p) \/ ReapPolicy(p)
    BY <2>2, LeaveDeparts DEF UnregisterPolicy, ReapPolicy
  <2>3. CASE CrashPolicy(p)
    BY <1>1, <2>3 DEF CrashPolicy, Opens
  <2>. QED BY <1>2, <2>1, <2>2, <2>3 DEF PolicyStep
<1>3. ASSUME NEW r \in Rollouts, RolloutStep(r)
      PROVE  Opens(ctl, ctl') /\ cur' = cur /\ abort' = abort
  <2>0. cur' = cur /\ abort' = abort
    BY <1>3 DEF RolloutStep, RequestNewPrompts, OneStepGeneration, ReportDiscardedSamples,
         ReportRollouts, SendEndSignal, RolloutToRollout, HandleStop,
         UnregisterRollout, ReapRollout, CrashRollout, policyVars, rolloutVars
  <2>. SUFFICES Opens(ctl, ctl')
    BY <2>0
  <2>a. \A n \in Nat : n * NGen \in Nat
    BY ConfigAssumption
  <2>1. CASE RequestNewPrompts(r)
    BY <1>1, <2>1 DEF RequestNewPrompts, fetch_prompts, Opens, Quiet, SameBarrier,
                      ControllerTypeOK, Fields, training_horizon
  <2>2. CASE OneStepGeneration(r) \/ CrashRollout(r)
    BY <1>1, <2>2 DEF OneStepGeneration, CrashRollout, Opens
  <2>3. CASE ReportDiscardedSamples(r)
    <3>1. discard[r] * NGen \in Nat
      BY <2>a DEF TypeOK
    <3>. QED BY <2>3, <3>1, QuietBooks DEF ReportDiscardedSamples, Opens
  <2>4. CASE ReportRollouts(r)
    <3>1. done[r] * NGen \in Nat
      BY <2>a DEF TypeOK
    <3>2. PICK kept \in 0 .. done[r] * NGen : ctl' = put_rollout_group(ctl, done[r] * NGen, kept)
      BY <2>4 DEF ReportRollouts
    <3>. QED BY <3>1, <3>2, PutOpens
  <2>5. CASE SendEndSignal(r)
    BY <2>5, EndOpens DEF SendEndSignal
  <2>6. CASE RolloutToRollout(r) \/ HandleStop(r)
    BY <1>1, <2>6 DEF RolloutToRollout, HandleStop, Opens, Quiet, SameBarrier,
                      ControllerTypeOK, Fields, training_horizon
  <2>7. CASE UnregisterRollout(r) \/ ReapRollout(r)
    <3>. DEFINE u == unregister_rollout(ctl, r)
    <3>1. ControllerTypeOK(u) /\ Quiet(ctl, u)
      BY <1>1 DEF unregister_rollout, Quiet, SameBarrier, ControllerTypeOK, Fields,
                  training_horizon
    <3>2. ctl' = u \/ ctl' = _maybe_finalize(u, FALSE)
      BY <2>7 DEF UnregisterRollout, ReapRollout
    <3>. HIDE DEF u
    <3>3. Quiet(ctl, _maybe_finalize(u, FALSE))
      BY <3>1 DEF _maybe_finalize, Quiet, SameBarrier, ControllerTypeOK, Fields,
                  training_horizon
    <3>. QED BY <3>1, <3>2, <3>3 DEF Opens
  <2>. QED BY <1>3, <2>1, <2>2, <2>3, <2>4, <2>5, <2>6, <2>7 DEF RolloutStep
<1>4. CASE MonitorStop
  <2>1. Steady(ctl, ctl') /\ ctl'.policy_stream = ctl.policy_stream
        /\ ctl'.stop_broadcast_sent = TRUE
    BY <1>1, <1>4 DEF MonitorStop, broadcast_stop, Steady, ControllerTypeOK, Fields,
                      training_horizon
  <2>2. ctl.terminal_complete \/ ctl.policies = {}
    BY <1>4 DEF MonitorStop, should_broadcast_stop
  <2>. QED BY <1>4, <2>1, <2>2
<1>5. CASE StepTraining \/ MonitorFinalize \/ Exited \/ UNCHANGED vars
  <2>1. cur' = cur /\ abort' = abort
    BY <1>5 DEF StepTraining, MonitorFinalize, Exited, vars, policyVars
  <2>2. CASE MonitorFinalize
    BY <1>1, <2>1, <2>2 DEF MonitorFinalize, _maybe_finalize, Opens, Quiet, SameBarrier,
                      ControllerTypeOK, Fields, training_horizon
  <2>3. CASE ctl' = ctl
    BY <1>1, <2>1, <2>3 DEF Opens
  <2>. QED BY <1>5, <2>2, <2>3 DEF StepTraining, Exited, vars
<1>. QED BY <1>2, <1>3, <1>4, <1>5 DEF Next

-----------------------------------------------------------------------------
(* The rounds the trainers see *)

(* A call that starts a round or nothing is a BeginRound, or no step.      *)
LEMMA OpensRefines ==
  ASSUME TypeOK, Opens(ctl, ctl')
  PROVE  [Rounds!Next]_(Rounds!vars)
<1>1. CASE Quiet(ctl, ctl')
  BY <1>1 DEF Quiet, SameBarrier, Rounds!vars
<1>2. CASE Begins(ctl, ctl')
  <2>1. Hands(ctl, ctl')
    BY <1>2 DEF Begins, HandsTraining, HandsClosing
  <2>2. CASE HandsTraining(ctl, ctl')
    BY <2>1, <2>2 DEF HandsTraining, Hands, Busy, Rounds!Next, Rounds!BeginRound, Rounds!Proceed
  <2>3. CASE HandsClosing(ctl, ctl')
    <3>1. ctl'.completion_step # None
      BY <2>3, ReplicaAssumption DEF HandsClosing, TypeOK, ControllerTypeOK
    <3>. QED BY <2>1, <2>3, <3>1 DEF HandsClosing, Hands, Busy, Rounds!Next, Rounds!BeginRound,
                                     Rounds!Proceed
  <2>. QED BY <1>2, <2>2, <2>3 DEF Begins
<1>. QED BY <1>1, <1>2 DEF Opens

(* An ACK is an Acknowledge: the next round, if any, starts with it.       *)
LEMMA AckRefines ==
  ASSUME TypeOK, TypeOK', WorkerBusy, Agreed(ctl, cur), NEW p \in Policies, TrainAck(p)
  PROVE  Rounds!Next
<1>. DEFINE b == [ctl EXCEPT !.status[p] = "REDUCED"]
<1>1. cur[p] # None /\ cur[p].type # "P2R" /\ p \in ctl.policies
  BY DEF TrainAck, WorkerBusy
<1>2. cur[p].step \in Nat /\ cur[p].total \in Int /\ cur \in Works
  BY <1>1, CommandType DEF TypeOK, Works
<1>3. ctl' = train_ack(ctl, p, cur[p].step, cur[p].total)
  BY DEF TrainAck
<1>4. /\ p \in Busy(ctl) /\ ~ctl.terminal_complete
      /\ ControllerTypeOK(b) /\ Acks(ctl, b, p) /\ ~b.terminal_complete
      /\ \/ /\ Acks(ctl, ctl', p)
            /\ ctl'.terminal_complete => Busy(ctl) = {p}
         \/ /\ Busy(ctl) = {p} /\ ctl.completion_step = None
            /\ Begins(b, ctl') \/ Rests(b, ctl')
  BY <1>1, <1>2, <1>3, AckRounds
<1>. HIDE DEF b
<1>5. /\ ctl.terminal_complete \in BOOLEAN /\ ctl'.terminal_complete \in BOOLEAN
      /\ b.terminal_complete \in BOOLEAN
  BY <1>4 DEF TypeOK, ControllerTypeOK
<1>6. CASE Acks(ctl, ctl', p) /\ (ctl'.terminal_complete => Busy(ctl) = {p})
  <2>1. CASE ctl'.terminal_complete
    BY <1>4, <1>6, <2>1, <1>5 DEF Acks, Busy, Rounds!Next, Rounds!Acknowledge
  <2>2. CASE ~ctl'.terminal_complete
    BY <1>4, <1>6, <2>2, <1>5 DEF Acks, Busy, Rounds!Next, Rounds!Acknowledge, Rounds!Proceed
  <2>. QED BY <2>1, <2>2
<1>7. CASE Busy(ctl) = {p} /\ ctl.completion_step = None /\ Rests(b, ctl')
  <2>1. /\ ctl'.policies = ctl.policies /\ Busy(ctl') = {} /\ ctl'.current_step = ctl.current_step
        /\ ctl'.completion_step = ctl.completion_step
        /\ ctl'.stop_broadcast_sent = ctl.stop_broadcast_sent
    BY <1>4, <1>7 DEF Rests, Acks
  <2>2. CASE ctl'.terminal_complete
    BY <1>4, <1>7, <1>5, <2>1, <2>2 DEF Busy, Rounds!Next, Rounds!Acknowledge
  <2>3. CASE ~ctl'.terminal_complete
    BY <1>4, <1>7, <1>5, <2>1, <2>3 DEF Busy, Rounds!Next, Rounds!Acknowledge, Rounds!Proceed
  <2>. QED BY <2>2, <2>3
<1>8. CASE Busy(ctl) = {p} /\ ctl.completion_step = None /\ Begins(b, ctl')
  <2>1. Hands(b, ctl')
    BY <1>8 DEF Begins, HandsTraining, HandsClosing
  <2>2. /\ ctl'.policies = ctl.policies /\ Busy(ctl') = ctl.policies
        /\ ctl'.stop_broadcast_sent = ctl.stop_broadcast_sent
        /\ ctl'.terminal_complete = ctl.terminal_complete
        /\ b.current_step = ctl.current_step
    BY <1>4, <1>5, <2>1 DEF Hands, Acks
  <2>3. CASE HandsTraining(b, ctl')
    BY <1>4, <1>8, <2>2, <2>3 DEF HandsTraining, Busy, Rounds!Next, Rounds!Acknowledge,
                                  Rounds!Proceed
  <2>4. CASE HandsClosing(b, ctl')
    <3>1. ctl'.completion_step # None
      BY <1>4, <2>4, ReplicaAssumption DEF HandsClosing, ControllerTypeOK
    <3>. QED BY <1>4, <1>8, <2>2, <2>4, <3>1 DEF HandsClosing, Busy, Rounds!Next,
                                  Rounds!Acknowledge, Rounds!Proceed
  <2>. QED BY <1>8, <2>3, <2>4 DEF Begins
<1>. QED BY <1>4, <1>6, <1>7, <1>8

(* Every step of the job is a step of TrainingRounds or none.              *)
LEMMA StepRefines ==
  ASSUME TypeOK, Handshake, [Next]_vars
  PROVE  [Rounds!Next]_(Rounds!vars)
<1>1. Agreed(ctl, cur) /\ WorkerBusy /\ TypeOK'
  BY TypeStep DEF Handshake, TypeOK, Agreed
<1>2. CASE Opens(ctl, ctl')
  BY <1>2, OpensRefines
<1>3. CASE Steady(ctl, ctl') /\ ctl'.stop_broadcast_sent = ctl.stop_broadcast_sent
  BY <1>3 DEF Steady, Rounds!vars
<1>4. ASSUME NEW p \in Policies, TrainAck(p) PROVE Rounds!Next
  BY <1>1, <1>4, AckRefines
<1>5. ASSUME NEW p \in ctl.policies, Departs(ctl, ctl', p) PROVE Rounds!Next
  <2>1. p \in Policies
    BY DEF TypeOK, ControllerTypeOK
  <2>. QED BY <1>5, <2>1 DEF Departs, Rounds!Next, Rounds!Leave
<1>6. CASE /\ Steady(ctl, ctl') /\ ctl'.stop_broadcast_sent = TRUE
           /\ ctl.terminal_complete \/ ctl.policies = {}
  BY <1>6 DEF Steady, Rounds!Next, Rounds!Stop
<1>. QED BY <1>1, <1>2, <1>3, <1>4, <1>5, <1>6, StepShape

(* The trainers see rounds in lockstep: each is handed to every registered *)
(* replica at once, only when nobody is busy with the one before, and      *)
(* nothing is handed out once the series has ended.  The controller, its   *)
(* workers and their messages implement module TrainingRounds.             *)
THEOREM Refinement == Spec => ImplementsRounds
<1>1. Init => Rounds!Init
  <2>. SUFFICES ASSUME Init PROVE Rounds!Init
    OBVIOUS
  <2>1. /\ ctl.status = [p \in Policies |-> "READY"] /\ ctl.policies = Policies
        /\ ~ctl.terminal_complete /\ ctl.completion_step = None /\ ctl.current_step = 0
        /\ ~ctl.stop_broadcast_sent
    BY DEF Init, InitController, recompute_total_steps
  <2>. QED BY <2>1 DEF Rounds!Init
<1>2. TypeOK /\ Handshake /\ [Next]_vars => [Rounds!Next]_(Rounds!vars)
  BY StepRefines
<1>. QED BY <1>1, <1>2, TypeCorrect, HandshakeCorrect, PTL DEF Spec, ImplementsRounds, Rounds!Spec

-----------------------------------------------------------------------------
(* The horizon *)

(* The steps stay on the ladder the budget has set: none beyond the        *)
(* horizon, the horizon within max_num_steps, and with no horizon at all   *)
(* too few samples left for a step, until the completion round.            *)
Ladder(c) ==
  /\ c.current_step <= training_horizon(c)
  /\ MaxNumSteps # None => training_horizon(c) <= MaxNumSteps
  /\ c.completion_step = None => c.completion_acks = {}
  /\ training_horizon(c) = 0 /\ c.policies # {} /\ ~rollout_admission_closed(c) =>
       c.job_phase # "DRAINING" /\ c.remain_samples_num < required_rollouts(c)

(* Only the end of a rollout freezes the horizon.                          *)
LEMMA PhaseKept ==
  ASSUME NEW c, ControllerTypeOK(c)
  PROVE  /\ \A n : _settle_samples_on_the_fly(c, n).job_phase = c.job_phase
         /\ cleanup_buffered_rollouts(c).job_phase = c.job_phase
         /\ try_trigger_data_fetch_and_training(c).job_phase = c.job_phase
         /\ trigger_training_complete(c).job_phase = c.job_phase
         /\ \A s : trigger_weight_sync(c, s).job_phase = c.job_phase
         /\ \A s, t : record_real_datafetch_acked(c, s, t).job_phase = c.job_phase
         /\ \A p : record_completion_ack(c, p).job_phase = c.job_phase
         /\ recompute_total_steps(c).job_phase = c.job_phase
         /\ \A f \in BOOLEAN : _maybe_finalize(c, f).job_phase = c.job_phase
         /\ c.job_phase = "DRAINING" => enter_draining_phase(c) = c
BY DEF _settle_samples_on_the_fly, cleanup_buffered_rollouts, ControllerTypeOK, Fields,
       try_trigger_data_fetch_and_training, trigger_training_complete, trigger_weight_sync,
       record_real_datafetch_acked, record_completion_ack, recompute_total_steps,
       _maybe_finalize, enter_draining_phase

(* While draining, finish_draining_phase has no phase to enter.            *)
LEMMA FinishPhase ==
  ASSUME NEW c, ControllerTypeOK(c), c.job_phase = "DRAINING"
  PROVE  finish_draining_phase(c).job_phase = c.job_phase
<1>. DEFINE clean == cleanup_buffered_rollouts(c)
<1>1. enter_draining_phase(c) = c /\ clean.job_phase = c.job_phase /\ ControllerTypeOK(clean)
  BY PhaseKept, CleanupType
<1>. HIDE DEF clean
<1>2. /\ trigger_training_complete(clean).job_phase = c.job_phase
      /\ try_trigger_data_fetch_and_training(c).job_phase = c.job_phase
      /\ [clean EXCEPT !.terminal_complete = TRUE].job_phase = c.job_phase
  BY <1>1, PhaseKept DEF ControllerTypeOK, Fields
<1>. QED BY <1>1, <1>2 DEF finish_draining_phase, drain_or_complete, clean

(* A departure keeps the ladder: the budget of a job that still trains is  *)
(* recomputed from the samples that remain.                                *)
LEMMA LeaveLadder ==
  ASSUME NEW c, NEW w, Agreed(c, w), Ladder(c), c.remain_samples_num >= 0, NEW p \in Policies
  PROVE  Ladder(unregister_policy(c, p))
<1>. DEFINE d == [c EXCEPT !.policies = @ \ {p}]
            u == unregister_policy(c, p)
            steps == d.current_step + d.remain_samples_num \div required_rollouts(d)
            total == IF MaxNumSteps = None THEN steps ELSE Smaller(steps, MaxNumSteps)
<1>1. ControllerTypeOK(d)
  BY DEF Agreed, ControllerTypeOK, Fields
<1>2. /\ d.policies = c.policies \ {p}
      /\ d.current_step = c.current_step /\ d.completion_step = c.completion_step
      /\ d.completion_acks = c.completion_acks /\ d.total_steps = c.total_steps
      /\ d.terminal_complete = c.terminal_complete /\ d.job_phase = c.job_phase
      /\ d.draining_total_steps = c.draining_total_steps
      /\ d.remain_samples_num = c.remain_samples_num
      /\ d.job_phase = "DRAINING" <=> d.draining_total_steps # None
  BY DEF Agreed, ControllerTypeOK, Fields, Lifecycle
<1>. HIDE DEF d
<1>3. training_horizon(d) = training_horizon(c) /\ training_horizon(d) \in Int
  BY <1>1, <1>2, HorizonType DEF training_horizon
<1>4. CASE \/ d.job_phase = "DRAINING" \/ training_finished(d)
           \/ d.policies = {} \/ p \in d.completion_acks
  <2>1. u = d
    BY <1>4 DEF unregister_policy, recompute_total_steps, d
  <2>2. d.policies # {} => c.policies # {}
    BY <1>2
  <2>3. training_horizon(d) = 0 /\ d.policies # {} /\ ~rollout_admission_closed(d) => FALSE
    BY <1>2, <1>3, <1>4, <2>2 DEF Ladder, rollout_admission_closed, training_finished
  <2>. QED BY <1>2, <1>3, <2>1, <2>3 DEF Ladder
<1>5. CASE ~(\/ d.job_phase = "DRAINING" \/ training_finished(d)
             \/ d.policies = {} \/ p \in d.completion_acks)
  <2>1. u = [d EXCEPT !.total_steps = total]
    BY <1>5 DEF unregister_policy, recompute_total_steps, d
  <2>2. /\ u.total_steps = total /\ u.policies = d.policies
        /\ u.current_step = d.current_step /\ u.completion_step = d.completion_step
        /\ u.completion_acks = d.completion_acks /\ u.job_phase = d.job_phase
        /\ u.draining_total_steps = d.draining_total_steps
        /\ u.remain_samples_num = d.remain_samples_num
        /\ u.terminal_complete = d.terminal_complete
    BY <1>1, <2>1 DEF ControllerTypeOK, Fields
  <2>3. training_horizon(u) = total
    BY <1>2, <1>5, <2>2 DEF training_horizon
  <2>. DEFINE q == d.remain_samples_num \div required_rollouts(d)
  <2>4. /\ q \in Nat /\ (q = 0 => d.remain_samples_num < required_rollouts(d))
    <3>1. d.remain_samples_num \in Nat /\ required_rollouts(d) \in Nat \ {0}
      BY <1>1, <1>2, <1>5, RequiredType DEF ControllerTypeOK
    <3>2. \A a \in Nat, b \in Nat \ {0} : a \div b \in Nat /\ (a \div b = 0 => a < b)
      OBVIOUS
    <3>. QED BY <3>1, <3>2
  <2>. HIDE DEF q
  <2>5. d.current_step \in Nat /\ steps = d.current_step + q
    BY <1>1 DEF ControllerTypeOK, q
  <2>. HIDE DEF steps
  <2>6. MaxNumSteps # None => MaxNumSteps \in Nat \ {0} /\ d.current_step <= MaxNumSteps
    BY <1>2, <1>3, <2>5, ConfigAssumption DEF Ladder
  <2>7. d.current_step <= total /\ (MaxNumSteps # None => total <= MaxNumSteps)
    BY <2>4, <2>5, <2>6 DEF Smaller
  <2>8. total = 0 => d.remain_samples_num < required_rollouts(d)
    BY <2>4, <2>5, <2>6 DEF Smaller
  <2>9. required_rollouts(u) = required_rollouts(d)
    BY <2>2 DEF required_rollouts, n_policy
  <2>. HIDE DEF total
  <2>. QED BY <1>2, <1>5, <2>2, <2>3, <2>7, <2>8, <2>9 DEF Ladder
<1>. QED BY <1>4, <1>5

(* With no horizon and nobody busy, the end of the last rollout starts the *)
(* completion round in the call that freezes the horizon.                  *)
LEMMA EndDrains ==
  ASSUME NEW c, NEW w, Agreed(c, w), NEW r \in Rollouts, c.policies # {},
         ~(c.current_step < training_horizon(c)), Busy(c) = {},
         ~rollout_admission_closed(rollout_end(c, r))
  PROVE  rollout_end(c, r).job_phase = c.job_phase
<1>. DEFINE e == [c EXCEPT !.ended = @ \cup {r}]
            d == enter_draining_phase(e)
            clean == cleanup_buffered_rollouts(d)
            f == finish_draining_phase(e)
<1>1. ControllerTypeOK(e)
  BY DEF Agreed, ControllerTypeOK, Fields
<1>2. SameBarrier(c, e) /\ e.job_phase = c.job_phase
  BY DEF SameBarrier, Agreed, ControllerTypeOK, Fields, training_horizon, Lifecycle
<1>3. Agreed(e, w)
  BY <1>1, <1>2, Frame
<1>. HIDE DEF e
<1>4. Quiet(e, d) /\ Agreed(d, w)
  BY <1>3, QuietBooks, EnterAgreed
<1>. HIDE DEF d
<1>5. Quiet(d, clean) /\ Agreed(clean, w)
  BY <1>4, QuietBooks, AccountingFrame
<1>. HIDE DEF clean
<1>6. ControllerTypeOK(f)
  BY <1>3, FinishAgreed DEF Agreed
<1>7. CASE r \notin c.rollouts \/ r \in c.ended
  BY <1>7 DEF rollout_end
<1>8. CASE ~(r \notin c.rollouts \/ r \in c.ended)
  <2>1. rollout_end(c, r) = forget_discard_reports(f, r)
    BY <1>8 DEF rollout_end, e
  <2>2. /\ rollout_end(c, r).job_phase = f.job_phase
        /\ rollout_admission_closed(rollout_end(c, r)) = rollout_admission_closed(f)
    BY <1>6, <2>1 DEF forget_discard_reports, ControllerTypeOK, Fields, rollout_admission_closed
  <2>3. CASE ~all_rollouts_ended(e)
    BY <1>2, <2>2, <2>3 DEF finish_draining_phase
  <2>4. CASE all_rollouts_ended(e)
    <3>1. all_ready_or_reduced(d)
      <4>1. d.status = c.status /\ d.policies = c.policies
        BY <1>2, <1>4 DEF Quiet, SameBarrier
      <4>2. \A p \in c.policies : c.status[p] \in Status
        BY DEF Agreed, ControllerTypeOK
      <4>. QED BY <4>1, <4>2 DEF all_ready_or_reduced, Busy, Status
    <3>2. CASE rollout_admission_closed(d)
      <4>1. f = clean
        BY <2>4, <3>2 DEF finish_draining_phase, d, clean
      <4>2. rollout_admission_closed(clean)
        BY <1>5, <3>2 DEF Quiet, SameBarrier, rollout_admission_closed
      <4>. QED BY <2>2, <4>1, <4>2
    <3>3. CASE ~rollout_admission_closed(d)
      <4>1. f = drain_or_complete(d)
        BY <2>4, <3>1, <3>3 DEF finish_draining_phase, d
      <4>2. d.current_step = c.current_step /\ training_horizon(d) = training_horizon(c)
        BY <1>2, <1>4 DEF Quiet, SameBarrier
      <4>3. f = IF real_terminal_command_acked(clean)
                THEN [clean EXCEPT !.terminal_complete = TRUE]
                ELSE trigger_training_complete(clean)
        BY <4>1, <4>2 DEF drain_or_complete, clean
      <4>4. rollout_admission_closed([clean EXCEPT !.terminal_complete = TRUE])
        BY <1>5 DEF Agreed, ControllerTypeOK, Fields, rollout_admission_closed
      <4>5. clean.policies # {} /\ clean.completion_step = None
        BY <1>2, <1>4, <1>5, <3>3 DEF Quiet, SameBarrier, rollout_admission_closed
      <4>6. rollout_admission_closed(trigger_training_complete(clean))
        <5>1. trigger_training_complete(clean).completion_step = clean.current_step + 1
          BY <1>5, <4>5 DEF trigger_training_complete, Agreed, ControllerTypeOK, Fields
        <5>2. clean.current_step + 1 # None
          BY <1>5, ReplicaAssumption DEF Agreed, ControllerTypeOK
        <5>. QED BY <5>1, <5>2 DEF rollout_admission_closed
      <4>. QED BY <2>2, <4>3, <4>4, <4>6
    <3>. QED BY <3>2, <3>3
  <2>. QED BY <2>3, <2>4
<1>. QED BY <1>7, <1>8

(* The whole handler of an ACK keeps the phase.                            *)
LEMMA AckPhase ==
  ASSUME NEW c, ControllerTypeOK(c), NEW p \in c.policies, NEW step \in Nat, NEW total \in Int
  PROVE  train_ack(c, p, step, total).job_phase = c.job_phase
<1>. DEFINE b == [c EXCEPT !.status[p] = "REDUCED"]
            record == {d \in b.dispatched : d.step = step}
            popped == [b EXCEPT
                         !.dispatched = @ \ record,
                         !.samples_on_the_fly =
                           IF record = {} THEN @
                           ELSE @ - (CHOOSE d \in record : TRUE).count]
            counted == IF record = {} THEN popped
                       ELSE record_real_datafetch_acked(popped, step, total)
            ready == [counted EXCEPT !.status = set_all_status(counted, "READY")]
            synced == IF should_weight_sync_after_train_ack(counted, step)
                      THEN trigger_weight_sync(ready, step) ELSE ready
<1>1. ControllerTypeOK(b) /\ b.job_phase = c.job_phase /\ b.policies = c.policies
  <2>1. [c.status EXCEPT ![p] = "REDUCED"] \in [Policies -> Status]
    BY DEF ControllerTypeOK, Status
  <2>. QED BY <2>1 DEF ControllerTypeOK, Fields
<1>. HIDE DEF b
<1>2. ControllerTypeOK(popped) /\ popped.job_phase = c.job_phase /\ popped.policies = c.policies
  <2>1. record # {} => (CHOOSE x \in record : TRUE).count \in Nat
    <3>1. record \subseteq DispatchRecord
      BY <1>1 DEF ControllerTypeOK
    <3>. HIDE DEF record
    <3>. QED BY <3>1 DEF DispatchRecord
  <2>2. b.dispatched \ record \in SUBSET DispatchRecord
    BY <1>1 DEF ControllerTypeOK
  <2>. HIDE DEF record
  <2>. QED BY <1>1, <2>1, <2>2 DEF ControllerTypeOK, Fields
<1>. HIDE DEF popped, record
<1>3. ControllerTypeOK(counted) /\ counted.job_phase = c.job_phase
        /\ counted.policies = c.policies
  <2>1. LET x == record_real_datafetch_acked(popped, step, total)
        IN x.policies = popped.policies
    BY <1>2 DEF record_real_datafetch_acked, cleanup_buffered_rollouts,
                _settle_samples_on_the_fly, ControllerTypeOK, Fields
  <2>. QED BY <1>2, <2>1, RecordAckType, PhaseKept
<1>. HIDE DEF counted
<1>4. ControllerTypeOK(ready) /\ ready.job_phase = c.job_phase /\ ready.policies = c.policies
  <2>1. set_all_status(counted, "READY") \in [Policies -> Status]
    BY <1>3, StatusType DEF Status
  <2>. QED BY <1>3, <2>1 DEF ControllerTypeOK, Fields
<1>. HIDE DEF ready
<1>5. ControllerTypeOK(synced) /\ synced.job_phase = c.job_phase
  BY <1>4, SyncType, PhaseKept
<1>6. settle_step(b, step, total) =
        IF synced.job_phase = "DRAINING" THEN finish_draining_phase(synced)
        ELSE try_trigger_data_fetch_and_training(synced)
  BY DEF settle_step, popped, counted, ready, record
<1>. HIDE DEF synced
<1>7. settle_step(b, step, total).job_phase = c.job_phase
  BY <1>5, <1>6, FinishPhase, PhaseKept
<1>. QED BY <1>1, <1>7, PhaseKept DEF train_ack, b

(* Every step but the end of a rollout keeps the phase.                    *)
LEMMA PhaseStep ==
  ASSUME TypeOK, WorkerBusy, [Next]_vars
  PROVE  ctl'.job_phase = ctl.job_phase \/ \E r \in Rollouts : SendEndSignal(r)
<1>0. ControllerTypeOK(ctl)
  BY DEF TypeOK
<1>1. ASSUME NEW p \in Policies, PolicyStep(p)
      PROVE  ctl'.job_phase = ctl.job_phase
  <2>1. CASE TrainAck(p)
    <3>1. cur[p].step \in Nat /\ cur[p].total \in Int /\ p \in ctl.policies
      BY <2>1, CommandType DEF TrainAck, WorkerBusy, TypeOK
    <3>. QED BY <1>0, <2>1, <3>1, AckPhase DEF TrainAck
  <2>2. CASE UnregisterPolicy(p) \/ ReapPolicy(p)
    <3>. DEFINE u == unregister_policy(ctl, p)
    <3>1. ControllerTypeOK(u)
      BY <1>0, LeaveType, ReplicaAssumption
    <3>2. u.job_phase = ctl.job_phase
      <4>. DEFINE d == [ctl EXCEPT !.policies = @ \ {p}]
      <4>1. ControllerTypeOK(d) /\ d.job_phase = ctl.job_phase
        BY <1>0 DEF ControllerTypeOK, Fields
      <4>2. u = d \/ u = recompute_total_steps(d)
        BY DEF unregister_policy
      <4>. HIDE DEF d, u
      <4>. QED BY <4>1, <4>2, PhaseKept
    <3>. HIDE DEF u
    <3>3. ctl' = u \/ ctl' = _maybe_finalize(u, FALSE)
      BY <2>2 DEF UnregisterPolicy, ReapPolicy, u
    <3>. QED BY <3>1, <3>2, <3>3, PhaseKept
  <2>3. CASE ExecuteCommand(p) \/ CrashPolicy(p) \/ \E r \in Rollouts : PolicyToRollout(p, r)
    BY <1>0, <2>3 DEF ExecuteCommand, CrashPolicy, PolicyToRollout, ControllerTypeOK, Fields
  <2>. QED BY <1>1, <2>1, <2>2, <2>3 DEF PolicyStep
<1>2. ASSUME NEW r \in Rollouts, RolloutStep(r), ~SendEndSignal(r)
      PROVE  ctl'.job_phase = ctl.job_phase
  <2>1. CASE ReportRollouts(r)
    <3>1. PICK kept \in 0 .. done[r] * NGen : ctl' = put_rollout_group(ctl, done[r] * NGen, kept)
      BY <2>1 DEF ReportRollouts
    <3>. DEFINE count == done[r] * NGen
                f == filter_outdated_rollouts(ctl, count, kept)
                g == [f EXCEPT !.rollout_buffer = @ + kept]
    <3>2. done[r] \in Nat /\ NGen \in Nat
      BY ConfigAssumption DEF TypeOK
    <3>3. count \in Nat
      BY <3>2
    <3>. HIDE DEF count
    <3>4. kept \in Nat /\ count - kept \in Nat
      BY <3>1, <3>3 DEF count
    <3>5. ControllerTypeOK(f) /\ f.job_phase = ctl.job_phase
      BY <1>0, <3>4 DEF filter_outdated_rollouts, _settle_samples_on_the_fly,
                        ControllerTypeOK, Fields
    <3>. HIDE DEF f
    <3>6. ControllerTypeOK(g) /\ g.job_phase = ctl.job_phase
      BY <3>4, <3>5 DEF ControllerTypeOK, Fields
    <3>. HIDE DEF g
    <3>7. put_rollout_group(ctl, count, kept).job_phase = ctl.job_phase
      BY <1>0, <3>5, <3>6, PhaseKept DEF put_rollout_group, f, g
    <3>. QED BY <3>1, <3>7 DEF count
  <2>2. CASE ReportDiscardedSamples(r)
    BY <1>0, <2>2 DEF ReportDiscardedSamples, settle_discarded_samples,
                      _settle_samples_on_the_fly, ControllerTypeOK, Fields
  <2>3. CASE UnregisterRollout(r) \/ ReapRollout(r)
    <3>. DEFINE u == unregister_rollout(ctl, r)
    <3>1. ControllerTypeOK(u) /\ u.job_phase = ctl.job_phase
      BY <1>0 DEF unregister_rollout, ControllerTypeOK, Fields
    <3>. HIDE DEF u
    <3>2. ctl' = u \/ ctl' = _maybe_finalize(u, FALSE)
      BY <2>3 DEF UnregisterRollout, ReapRollout, u
    <3>. QED BY <3>1, <3>2, PhaseKept
  <2>4. CASE RequestNewPrompts(r) \/ OneStepGeneration(r) \/ RolloutToRollout(r)
             \/ HandleStop(r) \/ CrashRollout(r)
    BY <1>0, <2>4 DEF RequestNewPrompts, OneStepGeneration, RolloutToRollout, HandleStop,
                      CrashRollout, fetch_prompts, ControllerTypeOK, Fields
  <2>. QED BY <1>2, <2>1, <2>2, <2>3, <2>4 DEF RolloutStep
<1>3. CASE MonitorStop
  BY <1>0, <1>3 DEF MonitorStop, broadcast_stop, ControllerTypeOK, Fields
<1>4. CASE MonitorFinalize
  BY <1>0, <1>4, PhaseKept DEF MonitorFinalize
<1>5. CASE StepTraining \/ Exited \/ UNCHANGED vars
  BY <1>5 DEF StepTraining, Exited, vars
<1>. QED BY <1>1, <1>2, <1>3, <1>4, <1>5 DEF Next

(* A change that starts no round and freezes no horizon keeps the ladder.  *)
LEMMA LadderFrame ==
  ASSUME NEW c, NEW d, ControllerTypeOK(c), ControllerTypeOK(d), Ladder(c),
         d.policies = c.policies, training_horizon(d) = training_horizon(c),
         d.current_step = c.current_step, d.completion_step = c.completion_step,
         c.completion_step = None => d.completion_acks = c.completion_acks,
         c.terminal_complete => d.terminal_complete,
         d.remain_samples_num <= c.remain_samples_num,
         training_horizon(d) = 0 /\ d.policies # {} /\ ~rollout_admission_closed(d) =>
           d.job_phase = c.job_phase
  PROVE  Ladder(d)
<1>1. required_rollouts(d) = required_rollouts(c) /\ required_rollouts(c) \in Int
  BY RequiredType DEF required_rollouts, n_policy
<1>2. ~rollout_admission_closed(d) => ~rollout_admission_closed(c)
  BY DEF rollout_admission_closed
<1>3. c.remain_samples_num \in Int /\ d.remain_samples_num \in Int
  BY DEF ControllerTypeOK
<1>. QED BY <1>1, <1>2, <1>3 DEF Ladder

(* A round climbs the ladder by one rung: with no horizon there would be   *)
(* fewer samples left than the step takes.                                 *)
LEMMA LadderBegins ==
  ASSUME NEW c, NEW d, ControllerTypeOK(c), ControllerTypeOK(d), Ladder(c),
         Begins(c, d), d.remain_samples_num >= 0
  PROVE  Ladder(d)
<1>1. /\ c.current_step \in Nat /\ training_horizon(c) \in Int
      /\ c.remain_samples_num \in Int /\ d.remain_samples_num \in Int
      /\ required_rollouts(c) \in Int
  BY HorizonType, RequiredType DEF ControllerTypeOK
<1>2. Hands(c, d)
  BY DEF Begins, HandsTraining, HandsClosing
<1>3. CASE HandsTraining(c, d)
  <2>1. training_horizon(c) # 0
    <3>1. ~rollout_admission_closed(c) /\ c.policies # {}
      BY <1>2 DEF Hands, rollout_admission_closed
    <3>2. d.remain_samples_num <= c.remain_samples_num - required_rollouts(c)
      BY <1>3 DEF HandsTraining
    <3>. QED BY <1>1, <3>1, <3>2 DEF Ladder
  <2>2. c.current_step < training_horizon(c)
    BY <1>1, <1>2, <1>3, <2>1 DEF Ladder, HandsTraining, training_finished, Hands
  <2>3. /\ training_horizon(d) = training_horizon(c) /\ d.current_step = c.current_step + 1
        /\ d.completion_step = c.completion_step /\ d.completion_acks = c.completion_acks
    BY <1>2, <1>3 DEF Hands, HandsTraining
  <2>. QED BY <1>1, <2>1, <2>2, <2>3 DEF Ladder
<1>4. CASE HandsClosing(c, d)
  <2>1. d.completion_step # None /\ rollout_admission_closed(d)
    BY <1>1, <1>4, ReplicaAssumption DEF HandsClosing, rollout_admission_closed
  <2>2. d.current_step = c.current_step /\ training_horizon(d) = training_horizon(c)
    BY <1>2, <1>4 DEF Hands, HandsClosing
  <2>. QED BY <2>1, <2>2 DEF Ladder
<1>. QED BY <1>3, <1>4 DEF Begins

(* The books leave the budget non-negative.                                *)
LEMMA BudgetNat ==
  ASSUME NEW c, NEW n, NEW left \in Nat, NEW q \in Amounts, NEW d \in Amounts,
         Books(c, c, n, NGen * (left + Owed(q, d)))
  PROVE  c.remain_samples_num >= 0
<1>1. Owed(q, d) \in Nat /\ NGen \in Nat
  BY HeldType, ConfigAssumption
<1>2. \A a, b \in Nat : a * b \in Nat
  OBVIOUS
<1>3. NGen * (left + Owed(q, d)) \in Nat
  BY <1>1, <1>2
<1>4. c.rollout_buffer \in Nat /\ c.remain_samples_num \in Int
  BY DEF Books, ControllerTypeOK
<1>. QED BY <1>3, <1>4 DEF Books

(* Every step keeps the ladder.                                            *)
LEMMA LadderStep ==
  ASSUME TypeOK, Handshake, Accounts, Accounts', Ladder(ctl), [Next]_vars
  PROVE  Ladder(ctl')
<1>1. Agreed(ctl, cur) /\ WorkerBusy /\ TypeOK' /\ ControllerTypeOK(ctl) /\ ControllerTypeOK(ctl')
  BY TypeStep DEF Handshake, TypeOK, Agreed
<1>2. ctl.remain_samples_num >= 0 /\ ctl'.remain_samples_num >= 0
  <2>1. /\ prompts \in Nat /\ queue \in Amounts /\ done \in Amounts
        /\ prompts' \in Nat /\ queue' \in Amounts /\ done' \in Amounts
    BY <1>1 DEF TypeOK, Amounts
  <2>2. ctl.remain_samples_num >= 0
    BY <2>1, BudgetNat DEF Accounts
  <2>3. ctl'.remain_samples_num >= 0
    BY <2>1, BudgetNat DEF Accounts
  <2>. QED BY <2>2, <2>3
<1>3. ASSUME Quiet(ctl, ctl') \/ Steady(ctl, ctl')
      PROVE  Ladder(ctl')
  <2>1. /\ ctl'.policies = ctl.policies /\ training_horizon(ctl') = training_horizon(ctl)
        /\ ctl'.current_step = ctl.current_step /\ ctl'.completion_step = ctl.completion_step
        /\ ctl'.completion_acks = ctl.completion_acks
        /\ ctl'.terminal_complete = ctl.terminal_complete
        /\ ctl'.remain_samples_num <= ctl.remain_samples_num
    BY <1>1, <1>3 DEF Quiet, SameBarrier, Steady, ControllerTypeOK
  <2>2. ASSUME training_horizon(ctl') = 0, ctl'.policies # {}, ~rollout_admission_closed(ctl')
        PROVE  ctl'.job_phase = ctl.job_phase
    <3>1. ASSUME NEW r \in Rollouts, SendEndSignal(r)
          PROVE  ctl'.job_phase = ctl.job_phase
      <4>1. ctl' = rollout_end(ctl, r)
        BY <3>1 DEF SendEndSignal
      <4>2. ctl.completion_step = None /\ training_horizon(ctl) = 0 /\ ctl.current_step \in Nat
        BY <1>1, <2>1, <2>2 DEF rollout_admission_closed, ControllerTypeOK
      <4>3. ~(ctl.current_step > 0) /\ ~(ctl.current_step < training_horizon(ctl))
        BY <4>2 DEF Ladder
      <4>4. Busy(ctl) = {}
        BY <1>1, <4>2, <4>3 DEF Agreed, Handshakes, HandshakeOf, Current, Busy
      <4>. QED BY <1>1, <2>1, <2>2, <4>1, <4>3, <4>4, EndDrains
    <3>. QED BY <1>1, <3>1, PhaseStep
  <2>. QED BY <1>1, <2>1, <2>2, LadderFrame
<1>4. ASSUME NEW p \in Policies, TrainAck(p)
      PROVE  Ladder(ctl')
  <2>. DEFINE b == [ctl EXCEPT !.status[p] = "REDUCED"]
  <2>1. cur[p] # None /\ cur[p].type # "P2R" /\ p \in ctl.policies
    BY <1>1, <1>4 DEF TrainAck, WorkerBusy
  <2>2. cur[p].step \in Nat /\ cur[p].total \in Int /\ cur \in Works
    BY <2>1, CommandType DEF TypeOK, Works
  <2>3. ctl' = train_ack(ctl, p, cur[p].step, cur[p].total)
    BY <1>4 DEF TrainAck
  <2>4. /\ ~ctl.terminal_complete /\ ~b.terminal_complete
        /\ ControllerTypeOK(b) /\ Acks(ctl, b, p)
        /\ Acks(ctl, ctl', p) \/ Begins(b, ctl') \/ Rests(b, ctl')
    BY <1>1, <2>1, <2>2, <2>3, AckRounds
  <2>5. b.job_phase = ctl.job_phase /\ ctl'.job_phase = ctl.job_phase
    <3>1. b.job_phase = ctl.job_phase
      BY <1>1 DEF ControllerTypeOK, Fields
    <3>. QED BY <1>1, <2>1, <2>2, <2>3, <3>1, AckPhase
  <2>. HIDE DEF b
  <2>6. Ladder(b)
    BY <1>1, <2>4, <2>5, LadderFrame DEF Acks, ControllerTypeOK
  <2>7. CASE Acks(ctl, ctl', p)
    BY <1>1, <2>4, <2>5, <2>7, LadderFrame DEF Acks, ControllerTypeOK
  <2>8. CASE Begins(b, ctl')
    BY <1>1, <1>2, <2>4, <2>6, <2>8, LadderBegins
  <2>9. CASE Rests(b, ctl')
    BY <1>1, <2>4, <2>5, <2>6, <2>9, LadderFrame DEF Rests, ControllerTypeOK
  <2>. QED BY <2>4, <2>7, <2>8, <2>9
<1>5. ASSUME NEW p \in ctl.policies, UnregisterPolicy(p) \/ ReapPolicy(p)
      PROVE  Ladder(ctl')
  <2>. DEFINE u == unregister_policy(ctl, p)
  <2>1. p \in Policies
    BY <1>1 DEF ControllerTypeOK
  <2>2. Ladder(u) /\ ControllerTypeOK(u)
    BY <1>1, <1>2, <2>1, LeaveLadder, LeaveAgreed DEF Agreed
  <2>. HIDE DEF u
  <2>3. Ladder(_maybe_finalize(u, FALSE))
    <3>. DEFINE z == _maybe_finalize(u, FALSE)
    <3>1. /\ z.policies = u.policies /\ z.current_step = u.current_step
          /\ z.completion_step = u.completion_step /\ z.completion_acks = u.completion_acks
          /\ z.terminal_complete = u.terminal_complete /\ z.job_phase = u.job_phase
          /\ z.remain_samples_num = u.remain_samples_num
          /\ training_horizon(z) = training_horizon(u)
      BY <2>2 DEF _maybe_finalize, ControllerTypeOK, Fields, training_horizon
    <3>2. ControllerTypeOK(z)
      BY <2>2, FinalizeType
    <3>. HIDE DEF z
    <3>3. z.remain_samples_num <= u.remain_samples_num
      BY <2>2, <3>1 DEF ControllerTypeOK
    <3>4. Ladder(z)
      BY <2>2, <3>1, <3>2, <3>3, LadderFrame
    <3>. QED BY <3>4 DEF z
  <2>. QED BY <1>5, <2>2, <2>3 DEF UnregisterPolicy, ReapPolicy, u
<1>6. CASE Begins(ctl, ctl')
  BY <1>1, <1>2, <1>6, LadderBegins
<1>. QED BY <1>1, <1>3, <1>4, <1>5, <1>6, StepShape DEF Opens

(* The job starts at the foot of the ladder.                               *)
LEMMA LadderInit == ASSUME Init PROVE Ladder(ctl)
<1>1. /\ Prompts * NGen \in Nat /\ Cardinality(Policies) \in Nat \ {0}
  <2>1. Cardinality(Policies) \in Nat /\ Cardinality(Policies) # 0
    BY ReplicaAssumption, FS_CardinalityType, FS_EmptySet
  <2>2. \A a, b \in Nat : a * b \in Nat
    OBVIOUS
  <2>. QED BY <2>1, <2>2, JobAssumption, ConfigAssumption
<1>2. Batch * Cardinality(Policies) \in Nat \ {0}
  <2>1. \A a, b \in Nat \ {0} : a * b \in Nat \ {0}
    OBVIOUS
  <2>. QED BY <1>1, <2>1, ConfigAssumption
<1>. DEFINE need == Batch * Cardinality(Policies)
            steps == 0 + (Prompts * NGen) \div need
            total == IF MaxNumSteps = None THEN steps ELSE Smaller(steps, MaxNumSteps)
<1>3. /\ ctl.current_step = 0 /\ ctl.total_steps = total /\ ctl.draining_total_steps = None
      /\ ctl.remain_samples_num = Prompts * NGen /\ ctl.policies = Policies
      /\ ctl.completion_acks = {} /\ ctl.job_phase = "RUNNING"
  BY ReplicaAssumption DEF Init, InitController, recompute_total_steps, training_finished,
     training_horizon, required_rollouts, n_policy
<1>4. steps \in Nat /\ (steps = 0 => Prompts * NGen < need)
  <2>1. \A a \in Nat, b \in Nat \ {0} : a \div b \in Nat /\ (a \div b = 0 => a < b)
    OBVIOUS
  <2>2. (Prompts * NGen) \div need \in Nat
          /\ ((Prompts * NGen) \div need = 0 => Prompts * NGen < need)
    BY <1>1, <1>2, <2>1
  <2>. QED BY <2>2
<1>5. required_rollouts(ctl) = need /\ training_horizon(ctl) = total
  BY <1>3 DEF required_rollouts, n_policy, training_horizon
<1>. HIDE DEF steps, need
<1>6. /\ 0 <= total /\ (MaxNumSteps # None => total <= MaxNumSteps)
      /\ total = 0 => steps = 0
  BY <1>4, ConfigAssumption DEF Smaller
<1>. HIDE DEF total
<1>. QED BY <1>3, <1>4, <1>5, <1>6 DEF Ladder

(* The ladder holds throughout the job.                                    *)
LEMMA LadderCorrect == Spec => []Ladder(ctl)
<1>1. Init => Ladder(ctl)
  BY LadderInit
<1>2. TypeOK /\ Handshake /\ Accounts /\ Accounts' /\ Ladder(ctl) /\ [Next]_vars => Ladder(ctl')
  BY LadderStep
<1>3. TypeOK /\ Handshake /\ Accounts /\ Accounts' /\ Ladder(ctl) /\ [Next]_vars => Ladder(ctl)'
  BY <1>2
<1>. QED BY <1>1, <1>3, TypeCorrect, HandshakeCorrect, AccountsCorrect, PTL DEF Spec

(* Training never runs past its horizon, frozen or recomputed, nor past    *)
(* max_num_steps, whoever leaves or crashes on the way.                    *)
THEOREM HorizonKept ==
  Spec => [](/\ ctl.current_step <= training_horizon(ctl)
             /\ MaxNumSteps # None => ctl.current_step <= MaxNumSteps)
<1>1. TypeOK /\ Ladder(ctl) => /\ ctl.current_step <= training_horizon(ctl)
                               /\ MaxNumSteps # None => ctl.current_step <= MaxNumSteps
  <2>. SUFFICES ASSUME TypeOK, Ladder(ctl)
                PROVE  /\ ctl.current_step <= training_horizon(ctl)
                       /\ MaxNumSteps # None => ctl.current_step <= MaxNumSteps
    OBVIOUS
  <2>1. ctl.current_step \in Int /\ training_horizon(ctl) \in Int
    BY HorizonType DEF TypeOK, ControllerTypeOK
  <2>2. MaxNumSteps # None => MaxNumSteps \in Int
    BY ConfigAssumption
  <2>. QED BY <2>1, <2>2 DEF Ladder
<1>. QED BY <1>1, TypeCorrect, LadderCorrect, PTL

-----------------------------------------------------------------------------
(* The last command *)

LastOf(s) == s[Len(s)]

(* The command a busy policy p has to acknowledge.                         *)
Order(c, w, p) == IF w[p] # None THEN w[p] ELSE LastOf(c.policy_stream[p])

(* Of the step in training there is a record, so that its last ACK settles *)
(* it; its members are busy or done; and each advertises the horizon.      *)
Filed(c) ==
  Busy(c) # {} /\ c.completion_step = None => \E x \in c.dispatched : x.step = c.current_step

Unmixed(c) == \A p, q \in c.policies : ~(c.status[p] = "RUNNING" /\ c.status[q] = "READY")

Advertised(c, w) ==
  \A p \in Busy(c) : c.completion_step = None => Order(c, w, p).total = training_horizon(c)

(* A policy that has executed its last command waits for the others of the *)
(* final step, or the series has ended.                                    *)
Retired(c, a) ==
  \A p \in c.policies : a[p] =>
    \/ rollout_admission_closed(c)
    \/ training_finished(c) /\ c.status[p] = "REDUCED" /\ Busy(c) # {}

Binding(c, w, a) == Filed(c) /\ Unmixed(c) /\ Advertised(c, w) /\ Retired(c, a)

NoneDead == \A p \in Policies : pc[p] # "dead"

(* A round that starts binds its members to the horizon; nobody has        *)
(* executed a last command yet.                                            *)
LEMMA BindingBegins ==
  ASSUME NEW c, NEW d, NEW w, NEW a, ControllerTypeOK(c), ControllerTypeOK(d), Begins(c, d),
         \A p \in c.policies : w[p] = None /\ ~a[p]
  PROVE  Binding(d, w, a)
<1>1. Hands(c, d)
  BY DEF Begins, HandsTraining, HandsClosing
<1>2. Retired(d, a) /\ Unmixed(d)
  BY <1>1 DEF Hands, Retired, Unmixed, Busy
<1>3. CASE HandsTraining(c, d)
  BY <1>1, <1>2, <1>3 DEF HandsTraining, Hands, Binding, Filed, Advertised, Order, LastOf
<1>4. CASE HandsClosing(c, d)
  <2>1. d.completion_step # None
    BY <1>4, ReplicaAssumption DEF HandsClosing, ControllerTypeOK
  <2>. QED BY <1>2, <2>1 DEF Binding, Filed, Advertised
<1>. QED BY <1>3, <1>4 DEF Begins

(* A change elsewhere keeps the promises.                                  *)
LEMMA BindingFrame ==
  ASSUME NEW c, NEW d, NEW w, NEW v, NEW a, Binding(c, w, a),
         d.policies = c.policies, d.status = c.status, d.dispatched = c.dispatched,
         d.current_step = c.current_step, d.completion_step = c.completion_step,
         d.terminal_complete = c.terminal_complete,
         training_horizon(d) = training_horizon(c),
         \A p \in Busy(c) : c.completion_step = None => Order(d, v, p) = Order(c, w, p)
  PROVE  Binding(d, v, a)
<1>1. Busy(d) = Busy(c)
  BY DEF Busy
<1>2. training_finished(d) = training_finished(c)
        /\ rollout_admission_closed(d) = rollout_admission_closed(c)
  BY DEF training_finished, rollout_admission_closed
<1>. QED BY <1>1, <1>2 DEF Binding, Filed, Unmixed, Advertised, Retired

(* An ACK keeps the promises: only the others of the final step are still  *)
(* awaited, or its last ACK ends the series before a round can start.      *)
LEMMA BindingAck ==
  ASSUME TypeOK, WorkerBusy, Agreed(ctl, cur), Ladder(ctl), Binding(ctl, cur, abort),
         NEW p \in Policies, TrainAck(p)
  PROVE  /\ Binding(ctl', cur', abort')
         /\ (\E q \in ctl.policies : abort[q]) =>
              /\ ctl'.current_step = ctl.current_step
              /\ ctl'.completion_step = ctl.completion_step
<1>. DEFINE b == [ctl EXCEPT !.status[p] = "REDUCED"]
            step == cur[p].step
            total == cur[p].total
<1>1. cur[p] # None /\ cur[p].type # "P2R" /\ p \in ctl.policies
  BY DEF TrainAck, WorkerBusy
<1>2. step \in Nat /\ total \in Int /\ cur \in Works
  BY <1>1, CommandType DEF TypeOK, Works
<1>3. ctl' = train_ack(ctl, p, step, total)
  BY DEF TrainAck
<1>4. /\ p \in Busy(ctl) /\ ~ctl.terminal_complete /\ Current(ctl, cur[p])
      /\ ControllerTypeOK(b) /\ Acks(ctl, b, p) /\ ~b.terminal_complete
      /\ \/ /\ Acks(ctl, ctl', p)
            /\ ctl'.terminal_complete => Busy(ctl) = {p} /\ ctl.completion_step # None
            /\ ctl.completion_step = None => \E q \in ctl.policies : ctl'.status[q] # "REDUCED"
         \/ /\ Busy(ctl) = {p} /\ ctl.completion_step = None
            /\ Begins(b, ctl') \/ Rests(b, ctl')
            /\ (\E x \in ctl.dispatched : x.step = step) /\ total = step => ctl'.terminal_complete
  BY <1>1, <1>2, <1>3, AckRounds
<1>5. ControllerTypeOK(ctl) /\ ControllerTypeOK(ctl') /\ ctl.policies \subseteq Policies
  <2>1. TypeOK'
    BY TypeStep DEF Next, PolicyStep
  <2>. QED BY <2>1 DEF TypeOK, ControllerTypeOK
<1>6. /\ cur' = [cur EXCEPT ![p] = None] /\ cur'[p] = None
      /\ \A q \in ctl.policies : q # p => cur'[q] = cur[q]
      /\ \A q \in ctl.policies : q # p => abort'[q] = abort[q]
      /\ abort'[p] = (abort[p] \/ step >= total)
      /\ \A q \in ctl.policies : abort'[q] \in BOOLEAN /\ abort[q] \in BOOLEAN
  BY <1>1, <1>5 DEF TrainAck, TypeOK, replica_should_stop
<1>. HIDE DEF b
<1>7. CASE ctl.completion_step # None
  <2>1. Acks(ctl, ctl', p)
    BY <1>4, <1>7
  <2>2. ctl'.completion_step # None /\ rollout_admission_closed(ctl')
    BY <1>7, <2>1 DEF Acks, rollout_admission_closed
  <2>3. Unmixed(ctl')
    BY <2>1 DEF Binding, Unmixed, Acks
  <2>. QED BY <2>1, <2>2, <2>3 DEF Acks, Binding, Filed, Advertised, Retired
<1>8. CASE ctl.completion_step = None
  <2>1. /\ step = ctl.current_step /\ step > 0 /\ total = training_horizon(ctl)
        /\ step <= total /\ total \in Int /\ ~rollout_admission_closed(ctl)
        /\ \E x \in ctl.dispatched : x.step = step
    BY <1>1, <1>2, <1>4, <1>8
       DEF Current, Ladder, Binding, Advertised, Filed, Order, rollout_admission_closed
  <2>. HIDE DEF step, total
  <2>2. ASSUME NEW q \in ctl.policies, abort[q]
        PROVE  training_finished(ctl) /\ ctl.status[q] = "REDUCED" /\ total = step
    <3>1. training_finished(ctl) /\ ctl.status[q] = "REDUCED"
      BY <2>1, <2>2 DEF Binding, Retired
    <3>. QED BY <1>2, <1>4, <2>1, <3>1 DEF training_finished
  <2>3. CASE Acks(ctl, ctl', p) /\ ~ctl'.terminal_complete
             /\ \E q \in ctl.policies : ctl'.status[q] # "REDUCED"
    <3>1. Busy(ctl') # {}
      <4>1. PICK q \in ctl.policies : ctl'.status[q] # "REDUCED"
        BY <2>3
      <4>2. q # p /\ ctl.status[q] = ctl'.status[q] /\ ctl.status[q] \in Status
        BY <1>5, <2>3, <4>1 DEF Acks, ControllerTypeOK
      <4>3. ctl.status[q] # "READY"
        BY <1>1, <1>4 DEF Binding, Unmixed, Busy
      <4>. QED BY <2>3, <4>1, <4>2, <4>3 DEF Busy, Acks, Status
    <3>2. Filed(ctl')
      BY <2>3 DEF Binding, Filed, Acks
    <3>3. Unmixed(ctl')
      BY <2>3 DEF Binding, Unmixed, Acks
    <3>4. Advertised(ctl', cur')
      <4>. SUFFICES ASSUME NEW q \in Busy(ctl')
                    PROVE  Order(ctl', cur', q).total = training_horizon(ctl')
        BY DEF Advertised
      <4>1. q \in Busy(ctl) /\ q # p /\ q \in ctl.policies
        BY <2>3 DEF Acks, Busy
      <4>2. Order(ctl', cur', q) = Order(ctl, cur, q)
        BY <1>6, <2>3, <4>1 DEF Order, Acks
      <4>. QED BY <1>8, <2>3, <4>1, <4>2 DEF Binding, Advertised, Acks
    <3>5. Retired(ctl', abort')
      <4>. SUFFICES ASSUME NEW q \in ctl'.policies, abort'[q]
                    PROVE  training_finished(ctl') /\ ctl'.status[q] = "REDUCED"
        BY <3>1 DEF Retired
      <4>1. q \in ctl.policies
        BY <2>3 DEF Acks
      <4>2. total = step
        BY <1>2, <1>6, <2>1, <2>2, <4>1
      <4>3. ctl'.status[q] = "REDUCED"
        BY <1>6, <2>2, <2>3, <4>1 DEF Acks
      <4>4. training_finished(ctl')
        BY <1>2, <2>1, <2>3, <4>2 DEF training_finished, Acks
      <4>. QED BY <4>3, <4>4
    <3>. QED BY <2>3, <3>2, <3>3, <3>4, <3>5 DEF Binding, Acks
  <2>4. CASE /\ Busy(ctl) = {p}
             /\ Begins(b, ctl') \/ Rests(b, ctl')
             /\ total = step => ctl'.terminal_complete
    <3>1. CASE total = step
      <4>1. ctl'.terminal_complete
        BY <2>4, <3>1
      <4>2. ~Begins(b, ctl')
        BY <1>4, <1>5, <4>1 DEF Begins, HandsTraining, HandsClosing, Hands, ControllerTypeOK
      <4>3. Rests(b, ctl')
        BY <2>4, <4>2
      <4>4. /\ ctl'.policies = ctl.policies /\ Busy(ctl') = {}
            /\ ctl'.current_step = ctl.current_step
            /\ ctl'.completion_step = ctl.completion_step
        BY <1>4, <4>3 DEF Rests, Acks
      <4>5. rollout_admission_closed(ctl')
        BY <4>1 DEF rollout_admission_closed
      <4>. QED BY <4>4, <4>5 DEF Binding, Filed, Unmixed, Advertised, Retired, Busy
    <3>2. CASE total # step
      <4>1. \A q \in ctl.policies : ~abort[q] /\ ~abort'[q]
        BY <1>2, <1>6, <2>1, <2>2, <3>2
      <4>2. \A q \in ctl.policies : cur'[q] = None
        <5>. SUFFICES ASSUME NEW q \in ctl.policies, q # p PROVE cur'[q] = None
          BY <1>6
        <5>1. ctl.status[q] # "RUNNING" /\ ctl.status[q] \in Status
          BY <1>5, <2>4 DEF Busy, ControllerTypeOK
        <5>2. cur[q] = None
          BY <5>1 DEF Agreed, Handshakes, HandshakeOf, Status
        <5>. QED BY <1>6, <5>2
      <4>3. b.policies = ctl.policies
        BY <1>4 DEF Acks
      <4>4. Begins(b, ctl') => Binding(ctl', cur', abort')
        <5>1. \A q \in b.policies : cur'[q] = None /\ ~abort'[q]
          BY <4>1, <4>2, <4>3
        <5>. QED BY <1>4, <1>5, <5>1, BindingBegins
      <4>5. Rests(b, ctl') => Binding(ctl', cur', abort')
        BY <4>1, <4>3 DEF Rests, Binding, Filed, Unmixed, Advertised, Retired, Busy
      <4>. QED BY <2>4, <4>1, <4>4, <4>5
    <3>. QED BY <3>1, <3>2
  <2>. QED BY <1>4, <1>8, <2>1, <2>3, <2>4 DEF step, total
<1>. QED BY <1>7, <1>8

(* Taking a command off a stream does not change the order it carries.     *)
LEMMA BindingConsume ==
  ASSUME TypeOK, WorkerBusy, Agreed(ctl, cur), Binding(ctl, cur, abort),
         NEW p \in Policies, ExecuteCommand(p) \/ \E r \in Rollouts : PolicyToRollout(p, r),
         Steady(ctl, ctl')
  PROVE  Binding(ctl', cur', abort')
<1>. DEFINE s == ctl.policy_stream[p]
            t == ctl'.policy_stream[p]
<1>1. /\ abort' = abort /\ s # <<>> /\ s \in Seq(PolicyCommand) /\ t = Tail(s)
      /\ \A q \in Policies : q # p => ctl'.policy_stream[q] = ctl.policy_stream[q]
      /\ \A q \in Policies : q # p => cur'[q] = cur[q]
      /\ ctl.policies \subseteq Policies
  <2>1. /\ abort' = abort /\ s # <<>>
        /\ \A q \in Policies : q # p => cur'[q] = cur[q]
    BY DEF ExecuteCommand, PolicyToRollout, TypeOK, policyVars
  <2>2. ctl.policy_stream \in [Policies -> Seq(PolicyCommand)] /\ ctl.policies \subseteq Policies
    BY DEF TypeOK, ControllerTypeOK, PolicyStreams
  <2>3. ctl'.policy_stream = [ctl.policy_stream EXCEPT ![p] = Tail(@)]
    BY DEF ExecuteCommand, PolicyToRollout, TypeOK, ControllerTypeOK, Fields
  <2>. QED BY <2>1, <2>2, <2>3
<1>2. ASSUME p \in ctl.policies, ctl.status[p] = "RUNNING"
      PROVE  Order(ctl', cur', p) = Order(ctl, cur, p)
  <2>1. /\ cur[p] = None /\ pc[p] = "idle"
        /\ P2ROnly(s, Len(s) - 1) /\ Current(ctl, s[Len(s)])
    <3>1. cur[p] = None /\ pc[p] = "idle"
      BY DEF ExecuteCommand, PolicyToRollout, WorkerBusy
    <3>. QED BY <1>2, <3>1 DEF Agreed, Handshakes, HandshakeOf
  <2>2. Len(s) \in Nat /\ Len(s) > 0 /\ Head(s) = s[1] /\ Head(s) \in PolicyCommand
    BY <1>1
  <2>3. CASE ExecuteCommand(p)
    <3>1. Len(s) = 1
      <4>1. s[1].type # "P2R"
        BY <2>2, <2>3 DEF ExecuteCommand
      <4>2. ASSUME 1 <= Len(s) - 1 PROVE FALSE
        BY <2>1, <2>2, <4>1, <4>2 DEF P2ROnly
      <4>3. \A n \in Nat : n > 0 /\ ~(1 <= n - 1) => n = 1
        OBVIOUS
      <4>. QED BY <2>2, <4>2, <4>3
    <3>2. cur'[p] = s[1] /\ cur'[p] # None
      BY <2>2, <2>3, NoneAssumption DEF ExecuteCommand, TypeOK
    <3>. QED BY <2>1, <3>1, <3>2 DEF Order, LastOf
  <2>4. CASE \E r \in Rollouts : PolicyToRollout(p, r)
    <3>1. Head(s).type = "P2R" /\ cur' = cur
      BY <2>4 DEF PolicyToRollout, policyVars
    <3>2. Len(s) # 1
      BY <2>1, <2>2, <3>1 DEF Current
    <3>3. Len(t) = Len(s) - 1 /\ t[Len(t)] = s[Len(s)]
      <4>. HIDE DEF s, t
      <4>1. Len(s) \in Nat /\ Len(s) > 1
        BY <2>2, <3>2
      <4>2. Len(t) = Len(s) - 1 /\ \A i \in 1 .. Len(s) - 1 : t[i] = s[i + 1]
        BY <1>1
      <4>. QED BY <4>1, <4>2
    <3>. QED BY <2>1, <3>1, <3>3 DEF Order, LastOf
  <2>. QED BY <2>3, <2>4
<1>3. \A q \in Busy(ctl) : Order(ctl', cur', q) = Order(ctl, cur, q)
  <2>. SUFFICES ASSUME NEW q \in Busy(ctl), q # p
                PROVE  Order(ctl', cur', q) = Order(ctl, cur, q)
    BY <1>2 DEF Busy
  <2>. QED BY <1>1 DEF Busy, Order
<1>. QED BY <1>1, <1>3, BindingFrame DEF Steady

(* A policy leaves after its last command, or after the series has ended;  *)
(* the others keep what they hold.                                         *)
LEMMA BindingLeave ==
  ASSUME TypeOK, Binding(ctl, cur, abort), NEW p \in ctl.policies,
         UnregisterPolicy(p), Departs(ctl, ctl', p)
  PROVE  Binding(ctl', cur', abort')
<1>1. abort[p] /\ abort' = abort /\ cur' = cur
  BY DEF UnregisterPolicy, policyVars
<1>2. /\ ctl'.policies = ctl.policies \ {p} /\ ctl'.status = ctl.status
      /\ ctl'.policy_stream = ctl.policy_stream /\ ctl'.dispatched = ctl.dispatched
      /\ ctl'.current_step = ctl.current_step /\ ctl'.completion_step = ctl.completion_step
      /\ ctl'.terminal_complete = ctl.terminal_complete
  BY DEF Departs
<1>3. Busy(ctl') = Busy(ctl) \ {p}
  BY <1>2 DEF Busy
<1>4. Filed(ctl') /\ Unmixed(ctl')
  BY <1>2, <1>3 DEF Binding, Filed, Unmixed
<1>5. CASE rollout_admission_closed(ctl)
  <2>1. rollout_admission_closed(ctl')
    BY <1>2, <1>5 DEF rollout_admission_closed
  <2>2. Advertised(ctl', cur')
    <3>1. training_finished(ctl) \/ ctl.completion_step # None
      BY <1>5 DEF rollout_admission_closed, training_finished
    <3>2. CASE training_finished(ctl)
      BY <1>1, <1>2, <1>3, <3>2 DEF Departs, Binding, Advertised, Order
    <3>3. CASE ctl.completion_step # None
      BY <1>2, <3>3 DEF Advertised
    <3>. QED BY <3>1, <3>2, <3>3
  <2>. QED BY <1>4, <2>1, <2>2 DEF Binding, Retired
<1>6. CASE ~rollout_admission_closed(ctl)
  <2>1. training_finished(ctl) /\ ctl.status[p] = "REDUCED" /\ Busy(ctl) # {}
    BY <1>1, <1>6 DEF Binding, Retired
  <2>2. training_horizon(ctl') = training_horizon(ctl) /\ Busy(ctl') = Busy(ctl)
    BY <1>3, <2>1 DEF Departs, Busy
  <2>3. training_finished(ctl')
    BY <1>2, <2>1, <2>2 DEF training_finished
  <2>4. Advertised(ctl', cur')
    BY <1>1, <1>2, <2>2 DEF Binding, Advertised, Order
  <2>5. Retired(ctl', abort')
    BY <1>1, <1>2, <1>6, <2>2, <2>3 DEF Binding, Retired
  <2>. QED BY <1>4, <2>4, <2>5 DEF Binding
<1>. QED BY <1>5, <1>6

(* Without crashes of policies every step keeps the promises, and nothing  *)
(* starts once some registered policy has executed a last command.         *)
LEMMA BindingStep ==
  ASSUME MaxPolicyCrashes = 0, TypeOK, Handshake, Ladder(ctl), NoneDead,
         Binding(ctl, cur, abort), [Next]_vars
  PROVE  /\ NoneDead' /\ Binding(ctl', cur', abort')
         /\ (\E p \in ctl.policies : abort[p]) =>
              /\ ctl'.current_step = ctl.current_step
              /\ ctl'.completion_step = ctl.completion_step
<1>1. /\ Agreed(ctl, cur) /\ WorkerBusy /\ ControllerTypeOK(ctl) /\ ControllerTypeOK(ctl')
      /\ ctl.policies \subseteq Policies
  BY TypeStep DEF Handshake, TypeOK, Agreed, ControllerTypeOK
<1>2. NoneDead'
  <2>1. ASSUME NEW p \in Policies, CrashPolicy(p) PROVE FALSE
    <3>1. {q \in Policies : pc[q] = "dead"} = {}
      BY DEF NoneDead
    <3>2. Cardinality({}) = 0
      BY FS_EmptySet
    <3>. QED BY <2>1, <3>1, <3>2 DEF CrashPolicy
  <2>2. ASSUME NEW p \in Policies, PolicyStep(p) PROVE NoneDead'
    BY <2>1, <2>2 DEF PolicyStep, NoneDead, TypeOK, ExecuteCommand, TrainAck, UnregisterPolicy,
                      ReapPolicy, PolicyToRollout, policyVars
  <2>3. ASSUME NEW r \in Rollouts, RolloutStep(r) PROVE NoneDead'
    BY <2>3 DEF RolloutStep, NoneDead, RequestNewPrompts, OneStepGeneration,
         ReportDiscardedSamples, ReportRollouts, SendEndSignal, RolloutToRollout, HandleStop,
         UnregisterRollout, ReapRollout, CrashRollout, policyVars
  <2>4. CASE StepTraining \/ MonitorStop \/ MonitorFinalize \/ Exited \/ UNCHANGED vars
    BY <2>4 DEF NoneDead, StepTraining, MonitorStop, MonitorFinalize, Exited, policyVars, vars
  <2>. QED BY <2>2, <2>3, <2>4 DEF Next
<1>3. CASE Quiet(ctl, ctl') /\ cur' = cur /\ abort' = abort
  <2>1. \A p \in Busy(ctl) : Order(ctl', cur', p) = Order(ctl, cur, p)
    BY <1>3 DEF Order, Quiet, SameBarrier
  <2>2. Binding(ctl', cur', abort')
    BY <1>3, <2>1, BindingFrame DEF Quiet, SameBarrier
  <2>. QED BY <1>2, <1>3, <2>2 DEF Quiet, SameBarrier
<1>4. CASE Begins(ctl, ctl') /\ cur' = cur /\ abort' = abort
  <2>1. Busy(ctl) = {} /\ ~rollout_admission_closed(ctl)
    BY <1>4 DEF Begins, HandsTraining, HandsClosing, Hands, rollout_admission_closed
  <2>2. \A p \in ctl.policies : ~abort[p]
    BY <2>1 DEF Binding, Retired
  <2>3. ASSUME NEW p \in ctl.policies PROVE cur[p] = None
    <3>1. ctl.status[p] # "RUNNING" /\ ctl.status[p] \in Status
      BY <1>1, <2>1 DEF Busy, ControllerTypeOK
    <3>. QED BY <1>1, <3>1 DEF Agreed, Handshakes, HandshakeOf, Status
  <2>4. Binding(ctl', cur', abort')
    BY <1>1, <1>4, <2>2, <2>3, BindingBegins
  <2>. QED BY <1>2, <2>2, <2>4
<1>5. ASSUME NEW p \in Policies, Steady(ctl, ctl'),
             ExecuteCommand(p) \/ \E r \in Rollouts : PolicyToRollout(p, r)
      PROVE  Binding(ctl', cur', abort') /\ ctl'.current_step = ctl.current_step
               /\ ctl'.completion_step = ctl.completion_step
  BY <1>1, <1>5, BindingConsume DEF Steady
<1>6. ASSUME NEW p \in ctl.policies, UnregisterPolicy(p) \/ ReapPolicy(p), Departs(ctl, ctl', p)
      PROVE  Binding(ctl', cur', abort') /\ ctl'.current_step = ctl.current_step
               /\ ctl'.completion_step = ctl.completion_step
  <2>1. UnregisterPolicy(p)
    BY <1>1, <1>6 DEF ReapPolicy, NoneDead
  <2>. QED BY <1>6, <2>1, BindingLeave DEF Departs
<1>7. CASE MonitorStop /\ Steady(ctl, ctl') /\ ctl'.policy_stream = ctl.policy_stream
  <2>1. cur' = cur /\ abort' = abort
    BY <1>7 DEF MonitorStop, policyVars
  <2>2. \A p \in Busy(ctl) : Order(ctl', cur', p) = Order(ctl, cur, p)
    BY <1>7, <2>1 DEF Order
  <2>3. Binding(ctl', cur', abort')
    BY <1>7, <2>1, <2>2, BindingFrame DEF Steady
  <2>. QED BY <1>2, <1>7, <2>3 DEF Steady
<1>8. ASSUME NEW p \in Policies, TrainAck(p)
      PROVE  /\ Binding(ctl', cur', abort')
             /\ (\E q \in ctl.policies : abort[q]) =>
                  /\ ctl'.current_step = ctl.current_step
                  /\ ctl'.completion_step = ctl.completion_step
  BY <1>1, <1>8, BindingAck
<1>. QED BY <1>1, <1>2, <1>3, <1>4, <1>5, <1>6, <1>7, <1>8, StepShape DEF Opens

(* When no policy crashes, the horizon a command advertises is binding: a  *)
(* policy that has executed a command whose step reached it leaves its     *)
(* main loop, and the controller starts nothing from then on as long as    *)
(* one of those policies is registered.  (After a crash the survivors of   *)
(* the final step may still be asked to complete.)                         *)
THEOREM LastCommandBinding == ASSUME MaxPolicyCrashes = 0 PROVE Spec => LastCommandIsLast
<1>1. Init => NoneDead /\ Binding(ctl, cur, abort)
  <2>. SUFFICES ASSUME Init PROVE NoneDead /\ Binding(ctl, cur, abort)
    OBVIOUS
  <2>1. /\ ctl.status = [p \in Policies |-> "READY"] /\ ctl.policies = Policies
        /\ abort = [p \in Policies |-> FALSE] /\ pc = [p \in Policies |-> "idle"]
    BY DEF Init, InitController, recompute_total_steps
  <2>. QED BY <2>1 DEF NoneDead, Binding, Filed, Unmixed, Advertised, Retired, Busy
<1>2. /\ TypeOK /\ Handshake /\ Ladder(ctl) /\ NoneDead /\ Binding(ctl, cur, abort)
      /\ [Next]_vars
      => NoneDead' /\ Binding(ctl, cur, abort)'
  BY BindingStep
<1>3. /\ TypeOK /\ Handshake /\ Ladder(ctl) /\ NoneDead /\ Binding(ctl, cur, abort)
      /\ [Next]_vars
      => [(\E p \in ctl.policies : abort[p]) =>
            /\ ctl'.current_step = ctl.current_step
            /\ ctl'.completion_step = ctl.completion_step]_vars
  BY BindingStep
<1>. QED BY <1>1, <1>2, <1>3, TypeCorrect, HandshakeCorrect, LadderCorrect, PTL
         DEF Spec, LastCommandIsLast

-----------------------------------------------------------------------------
(* The command streams of the rollouts *)

(* Only the weight sync and STOP write to the rollouts.                    *)
LEMMA StreamKept ==
  ASSUME NEW c, ControllerTypeOK(c)
  PROVE  /\ \A n : _settle_samples_on_the_fly(c, n).rollout_stream = c.rollout_stream
         /\ cleanup_buffered_rollouts(c).rollout_stream = c.rollout_stream
         /\ try_trigger_data_fetch_and_training(c).rollout_stream = c.rollout_stream
         /\ trigger_training_complete(c).rollout_stream = c.rollout_stream
         /\ \A s, t : record_real_datafetch_acked(c, s, t).rollout_stream = c.rollout_stream
         /\ \A p : record_completion_ack(c, p).rollout_stream = c.rollout_stream
         /\ recompute_total_steps(c).rollout_stream = c.rollout_stream
         /\ \A f \in BOOLEAN : _maybe_finalize(c, f).rollout_stream = c.rollout_stream
         /\ enter_draining_phase(c).rollout_stream = c.rollout_stream
         /\ \A r : forget_discard_reports(c, r).rollout_stream = c.rollout_stream
BY DEF _settle_samples_on_the_fly, cleanup_buffered_rollouts, ControllerTypeOK, Fields,
       try_trigger_data_fetch_and_training, trigger_training_complete,
       record_real_datafetch_acked, record_completion_ack, recompute_total_steps,
       _maybe_finalize, enter_draining_phase, forget_discard_reports

(* So does neither draining nor the end of a rollout.                      *)
LEMMA FinishStream ==
  ASSUME NEW c, ControllerTypeOK(c)
  PROVE  finish_draining_phase(c).rollout_stream = c.rollout_stream
<1>. DEFINE d == enter_draining_phase(c)
            clean == cleanup_buffered_rollouts(d)
<1>1. ControllerTypeOK(d) /\ d.rollout_stream = c.rollout_stream
  BY DrainingType, StreamKept
<1>. HIDE DEF d
<1>2. ControllerTypeOK(clean) /\ clean.rollout_stream = d.rollout_stream
  BY <1>1, CleanupType, StreamKept
<1>. HIDE DEF clean
<1>3. /\ trigger_training_complete(clean).rollout_stream = c.rollout_stream
      /\ try_trigger_data_fetch_and_training(d).rollout_stream = c.rollout_stream
      /\ [clean EXCEPT !.terminal_complete = TRUE].rollout_stream = c.rollout_stream
  BY <1>1, <1>2, StreamKept DEF ControllerTypeOK, Fields
<1>. QED BY <1>1, <1>2, <1>3 DEF finish_draining_phase, drain_or_complete, clean, d

(* Posts, ends and departures of every kind.                               *)
LEMMA HandlerStream ==
  ASSUME NEW c, ControllerTypeOK(c)
  PROVE  /\ \A p \in Policies, f \in BOOLEAN :
              /\ unregister_policy(c, p).rollout_stream = c.rollout_stream
              /\ _maybe_finalize(unregister_policy(c, p), f).rollout_stream = c.rollout_stream
         /\ \A r \in Rollouts, f \in BOOLEAN :
              /\ unregister_rollout(c, r).rollout_stream = c.rollout_stream
              /\ _maybe_finalize(unregister_rollout(c, r), f).rollout_stream = c.rollout_stream
              /\ rollout_end(c, r).rollout_stream = c.rollout_stream
         /\ \A r, id, n : settle_discarded_samples(c, r, id, n).rollout_stream = c.rollout_stream
         /\ \A n : fetch_prompts(c, n).rollout_stream = c.rollout_stream
<1>1. ASSUME NEW p \in Policies, NEW f \in BOOLEAN
      PROVE  /\ unregister_policy(c, p).rollout_stream = c.rollout_stream
             /\ _maybe_finalize(unregister_policy(c, p), f).rollout_stream = c.rollout_stream
  <2>. DEFINE d == [c EXCEPT !.policies = @ \ {p}]
              u == unregister_policy(c, p)
  <2>1. ControllerTypeOK(d) /\ d.rollout_stream = c.rollout_stream
    BY DEF ControllerTypeOK, Fields
  <2>2. u = d \/ u = recompute_total_steps(d)
    BY DEF unregister_policy
  <2>3. ControllerTypeOK(u)
    BY LeaveType, ReplicaAssumption
  <2>. HIDE DEF d, u
  <2>4. u.rollout_stream = c.rollout_stream
    BY <2>1, <2>2, StreamKept
  <2>. QED BY <2>3, <2>4, StreamKept DEF u
<1>2. ASSUME NEW r \in Rollouts, NEW f \in BOOLEAN
      PROVE  /\ unregister_rollout(c, r).rollout_stream = c.rollout_stream
             /\ _maybe_finalize(unregister_rollout(c, r), f).rollout_stream = c.rollout_stream
             /\ rollout_end(c, r).rollout_stream = c.rollout_stream
  <2>. DEFINE u == unregister_rollout(c, r)
              e == [c EXCEPT !.ended = @ \cup {r}]
              g == finish_draining_phase(e)
  <2>1. ControllerTypeOK(u) /\ u.rollout_stream = c.rollout_stream
    BY DEF unregister_rollout, ControllerTypeOK, Fields
  <2>2. ControllerTypeOK(e) /\ e.rollout_stream = c.rollout_stream
    BY DEF ControllerTypeOK, Fields
  <2>. HIDE DEF u, e
  <2>3. ControllerTypeOK(g) /\ g.rollout_stream = c.rollout_stream
    BY <2>2, FinishStream, DrainingType
  <2>. HIDE DEF g
  <2>4. forget_discard_reports(g, r).rollout_stream = c.rollout_stream
    BY <2>3, StreamKept
  <2>. QED BY <2>1, <2>4, StreamKept DEF rollout_end, u, e, g
<1>3. ASSUME NEW r, NEW id, NEW n
      PROVE  /\ settle_discarded_samples(c, r, id, n).rollout_stream = c.rollout_stream
             /\ fetch_prompts(c, n).rollout_stream = c.rollout_stream
  BY DEF settle_discarded_samples, _settle_samples_on_the_fly, fetch_prompts, ControllerTypeOK,
         Fields
<1>. QED BY <1>1, <1>2, <1>3

(* Posted rollouts are not commands.                                       *)
LEMMA PutStream ==
  ASSUME NEW c, ControllerTypeOK(c), NEW count \in Nat, NEW kept \in 0 .. count
  PROVE  put_rollout_group(c, count, kept).rollout_stream = c.rollout_stream
<1>. DEFINE f == filter_outdated_rollouts(c, count, kept)
            g == [f EXCEPT !.rollout_buffer = @ + kept]
<1>1. kept \in Nat /\ count - kept \in Nat
  OBVIOUS
<1>2. ControllerTypeOK(f) /\ f.rollout_stream = c.rollout_stream
  BY <1>1 DEF filter_outdated_rollouts, _settle_samples_on_the_fly, ControllerTypeOK, Fields
<1>. HIDE DEF f
<1>3. ControllerTypeOK(g) /\ g.rollout_stream = c.rollout_stream
  BY <1>1, <1>2 DEF ControllerTypeOK, Fields
<1>. HIDE DEF g
<1>. QED BY <1>2, <1>3, StreamKept DEF put_rollout_group, f, g

(* The weight sync of a settled step: a receive for one rollout, then the  *)
(* exchange for all of them.                                               *)
Exchange(step, peers) == [type |-> "R2R", step |-> step, peers |-> peers]

Appended(s, t, x) ==
  \E v \in Seq(RolloutCommand) : /\ \A i \in 1 .. Len(v) : v[i].type = "P2R"
                                 /\ t = s \o Append(v, x)

Synced(rs, ss, step, peers) ==
  \A r \in Rollouts : IF r \in peers THEN Appended(rs[r], ss[r], Exchange(step, peers))
                                     ELSE ss[r] = rs[r]

(* The ACK that settles a step writes at most that.                        *)
LEMMA SyncStream ==
  ASSUME NEW c, ControllerTypeOK(c), c.policies # {}, NEW step \in Nat
  PROVE  \/ trigger_weight_sync(c, step).rollout_stream = c.rollout_stream
         \/ Synced(c.rollout_stream, trigger_weight_sync(c, step).rollout_stream, step, c.rollouts)
<1>. DEFINE t == trigger_weight_sync(c, step)
            src == CHOOSE p \in c.policies : TRUE
            dst == CHOOSE r \in c.rollouts : TRUE
            recv == [type |-> "P2R", step |-> step, peer |-> src]
            x == Exchange(step, c.rollouts)
<1>1. CASE c.rollouts = {}
  BY <1>1 DEF trigger_weight_sync, get_safe_weight_sync_replicas
<1>2. CASE c.rollouts # {}
  <2>1. src \in Policies /\ c.rollouts \subseteq Rollouts
        /\ c.rollout_stream \in [Rollouts -> Seq(RolloutCommand)]
    BY DEF ControllerTypeOK, RolloutStreams
  <2>2. recv \in RolloutCommand /\ recv.type = "P2R" /\ x \in RolloutCommand
    BY <2>1 DEF RolloutCommand, Exchange
  <2>3. t.rollout_stream =
          [r \in Rollouts |->
             IF r \notin c.rollouts THEN c.rollout_stream[r]
             ELSE c.rollout_stream[r] \o (IF r = dst THEN <<recv>> ELSE <<>>) \o <<x>>]
    BY <1>2 DEF trigger_weight_sync, get_safe_weight_sync_replicas, Exchange, ControllerTypeOK,
                Fields
  <2>. HIDE DEF t, recv, x, dst
  <2>4. ASSUME NEW r \in c.rollouts
        PROVE  Appended(c.rollout_stream[r], t.rollout_stream[r], x)
    <3>. DEFINE s == c.rollout_stream[r]
                v == IF r = dst THEN <<recv>> ELSE <<>>
    <3>1. s \in Seq(RolloutCommand) /\ t.rollout_stream[r] = (s \o v) \o <<x>>
      BY <2>1, <2>3
    <3>2. v \in Seq(RolloutCommand) /\ \A i \in 1 .. Len(v) : v[i].type = "P2R"
      BY <2>2
    <3>. HIDE DEF s, v
    <3>3. (s \o v) \o <<x>> = s \o Append(v, x)
      BY <2>2, <3>1, <3>2
    <3>. QED BY <3>1, <3>2, <3>3 DEF Appended, s
  <2>. QED BY <2>1, <2>3, <2>4 DEF Synced, t, x
<1>. QED BY <1>1, <1>2

(* An ACK writes to the rollouts only when it settles the step.            *)
LEMMA AckStream ==
  ASSUME NEW c, ControllerTypeOK(c), NEW p \in c.policies, NEW step \in Nat, NEW total \in Int
  PROVE  LET d == train_ack(c, p, step, total)
         IN \/ d.rollout_stream = c.rollout_stream
            \/ /\ ~(step = c.completion_step /\ p \in c.completion_recipients)
               /\ all_reduced([c EXCEPT !.status[p] = "REDUCED"])
               /\ Synced(c.rollout_stream, d.rollout_stream, step, c.rollouts)
<1>. DEFINE b == [c EXCEPT !.status[p] = "REDUCED"]
            record == {d \in b.dispatched : d.step = step}
            popped == [b EXCEPT
                         !.dispatched = @ \ record,
                         !.samples_on_the_fly =
                           IF record = {} THEN @
                           ELSE @ - (CHOOSE d \in record : TRUE).count]
            counted == IF record = {} THEN popped
                       ELSE record_real_datafetch_acked(popped, step, total)
            ready == [counted EXCEPT !.status = set_all_status(counted, "READY")]
            synced == IF should_weight_sync_after_train_ack(counted, step)
                      THEN trigger_weight_sync(ready, step) ELSE ready
            Same(d) == /\ ControllerTypeOK(d) /\ d.rollout_stream = c.rollout_stream
                       /\ d.policies = c.policies /\ d.rollouts = c.rollouts
<1>1. Same(b)
  <2>1. [c.status EXCEPT ![p] = "REDUCED"] \in [Policies -> Status]
    BY DEF ControllerTypeOK, Status
  <2>. QED BY <2>1 DEF ControllerTypeOK, Fields
<1>. HIDE DEF b
<1>2. Same(popped)
  <2>1. record # {} => (CHOOSE x \in record : TRUE).count \in Nat
    <3>1. record \subseteq DispatchRecord
      BY <1>1 DEF ControllerTypeOK
    <3>. HIDE DEF record
    <3>. QED BY <3>1 DEF DispatchRecord
  <2>2. b.dispatched \ record \in SUBSET DispatchRecord
    BY <1>1 DEF ControllerTypeOK
  <2>. HIDE DEF record
  <2>. QED BY <1>1, <2>1, <2>2 DEF ControllerTypeOK, Fields
<1>. HIDE DEF popped, record
<1>3. Same(counted)
  <2>1. LET x == record_real_datafetch_acked(popped, step, total)
        IN /\ x.policies = popped.policies /\ x.rollouts = popped.rollouts
           /\ x.rollout_stream = popped.rollout_stream
    BY <1>2 DEF record_real_datafetch_acked, cleanup_buffered_rollouts,
                _settle_samples_on_the_fly, ControllerTypeOK, Fields
  <2>. QED BY <1>2, <2>1, RecordAckType
<1>. HIDE DEF counted
<1>4. Same(ready)
  <2>1. set_all_status(counted, "READY") \in [Policies -> Status]
    BY <1>3, StatusType DEF Status
  <2>. QED BY <1>3, <2>1 DEF ControllerTypeOK, Fields
<1>. HIDE DEF ready
<1>5. /\ ControllerTypeOK(synced)
      /\ \/ synced.rollout_stream = c.rollout_stream
         \/ Synced(c.rollout_stream, synced.rollout_stream, step, c.rollouts)
  BY <1>4, SyncType, SyncStream
<1>6. settle_step(b, step, total) =
        IF synced.job_phase = "DRAINING" THEN finish_draining_phase(synced)
        ELSE try_trigger_data_fetch_and_training(synced)
  BY DEF settle_step, popped, counted, ready, record
<1>. HIDE DEF synced
<1>7. settle_step(b, step, total).rollout_stream = synced.rollout_stream
  BY <1>5, <1>6, FinishStream, StreamKept
<1>. QED BY <1>1, <1>5, <1>7, StreamKept DEF train_ack, b

-----------------------------------------------------------------------------
(* No orphaned collective *)

Exchanges(s) == {x \in Range(s) : x.type = "R2R"}

(* Nothing is exchanged twice, and STOP, once sent, is the last command.   *)
Tidy(s, sent) ==
  /\ \A i, j \in 1 .. Len(s) : i < j /\ s[i].type = "R2R" => s[i] # s[j]
  /\ \A i \in 1 .. Len(s) : s[i].type = "STOP" => i = Len(s) /\ sent

(* An exchange is queued at all of its peers or at none.                   *)
Paired(rs) ==
  \A q \in Rollouts : \A x \in Exchanges(rs[q]) :
    q \in x.peers /\ \A r \in x.peers : x \in Exchanges(rs[r])

(* An exchange is of a past step, or of the one that has just been         *)
(* settled: the next to be sent is a new one.                              *)
Dated(c) ==
  \A q \in Rollouts : \A x \in Exchanges(c.rollout_stream[q]) :
    /\ x.step <= c.current_step
    /\ Busy(c) # {} /\ c.completion_step = None => x.step < c.current_step

Left(c, v) ==
  \A r \in Rollouts : v[r] \in {"stopping", "gone"} =>
    c.stop_broadcast_sent /\ c.rollout_stream[r] = <<>>

Orderly(c, v) ==
  /\ \A r \in Rollouts : Tidy(c.rollout_stream[r], c.stop_broadcast_sent)
  /\ Paired(c.rollout_stream) /\ Dated(c) /\ Left(c, v)

(* Steps only go up, and a training round is never of a settled step.      *)
Later(c, d) ==
  /\ c.current_step <= d.current_step
  /\ Busy(d) # {} /\ d.completion_step = None =>
       \/ c.current_step < d.current_step
       \/ Busy(c) # {} /\ c.completion_step = None
  /\ c.stop_broadcast_sent => d.stop_broadcast_sent

(* Exchanges, and what follows a sequence of them.                         *)
LEMMA ExchangesType ==
  ASSUME NEW s \in Seq(RolloutCommand), NEW x \in Exchanges(s)
  PROVE  /\ x \in RolloutCommand /\ x.type = "R2R"
         /\ x.step \in Nat /\ x.peers \in SUBSET Rollouts
         /\ \E i \in 1 .. Len(s) : s[i] = x
<1>1. PICK i \in 1 .. Len(s) : s[i] = x
  BY DEF Exchanges, Range
<1>2. x \in RolloutCommand /\ x.type = "R2R"
  BY <1>1 DEF Exchanges
<1>. QED BY <1>1, <1>2 DEF RolloutCommand

(* Appending a sync.                                                       *)
LEMMA AppendedTidy ==
  ASSUME NEW s \in Seq(RolloutCommand), NEW t, NEW x \in RolloutCommand, x.type = "R2R",
         Appended(s, t, x), Tidy(s, FALSE), x \notin Exchanges(s)
  PROVE  /\ Tidy(t, FALSE)
         /\ Exchanges(t) = Exchanges(s) \cup {x}
<1>1. PICK v \in Seq(RolloutCommand) : /\ \A i \in 1 .. Len(v) : v[i].type = "P2R"
                                       /\ t = s \o Append(v, x)
  BY DEF Appended
<1>. DEFINE n == Len(s)
            m == Len(v)
<1>2. /\ n \in Nat /\ m \in Nat /\ Len(t) = n + m + 1
      /\ \A i \in 1 .. n : t[i] = s[i]
      /\ \A i \in n + 1 .. n + m : t[i] = v[i - n]
      /\ t[n + m + 1] = x
      /\ t \in Seq(RolloutCommand)
  BY <1>1
<1>3. \A i \in n + 1 .. n + m : t[i].type = "P2R"
  <2>1. \A i \in n + 1 .. n + m : i - n \in 1 .. m
    BY <1>2
  <2>. QED BY <1>1, <1>2, <2>1
<1>4. \A i \in 1 .. n : s[i].type = "R2R" => s[i] # x
  BY DEF Exchanges, Range
<1>5. 1 .. Len(t) = (1 .. n) \cup (n + 1 .. n + m) \cup {n + m + 1}
  BY <1>2
<1>6. DOMAIN t = 1 .. Len(t) /\ DOMAIN s = 1 .. n
  BY <1>2
<1>. HIDE DEF n, m
<1>7. ASSUME NEW i \in 1 .. Len(t), NEW j \in 1 .. Len(t), i < j, t[i].type = "R2R"
      PROVE  t[i] # t[j]
  <2>1. i \in 1 .. n
    <3>1. i # n + m + 1
      BY <1>2, <1>7
    <3>. QED BY <1>3, <1>5, <1>7, <3>1
  <2>2. CASE j \in 1 .. n
    BY <1>2, <1>7, <2>1, <2>2 DEF Tidy, n
  <2>3. CASE j \in n + 1 .. n + m
    BY <1>3, <1>7, <2>3
  <2>4. CASE j = n + m + 1
    BY <1>2, <1>4, <1>7, <2>1, <2>4
  <2>. QED BY <1>5, <2>2, <2>3, <2>4
<1>8. ASSUME NEW i \in 1 .. Len(t), t[i].type = "STOP" PROVE FALSE
  BY <1>2, <1>3, <1>5, <1>8 DEF Tidy, n
<1>9. Exchanges(t) = Exchanges(s) \cup {x}
  <2>1. ASSUME NEW y \in Exchanges(t) PROVE y \in Exchanges(s) \cup {x}
    BY <1>2, <1>3, <1>5, <1>6, <2>1 DEF Exchanges, Range
  <2>2. ASSUME NEW y \in Exchanges(s) PROVE y \in Exchanges(t)
    BY <1>2, <1>5, <1>6, <2>2 DEF Exchanges, Range
  <2>3. x \in Exchanges(t)
    BY <1>2, <1>5, <1>6 DEF Exchanges, Range
  <2>. QED BY <2>1, <2>2, <2>3
<1>. QED BY <1>7, <1>8, <1>9 DEF Tidy

(* Appending STOP to a stream that has none.                               *)
LEMMA StopTidy ==
  ASSUME NEW s \in Seq(RolloutCommand), Tidy(s, FALSE)
  PROVE  LET t == Append(s, [type |-> "STOP"])
         IN Tidy(t, TRUE) /\ Exchanges(t) = Exchanges(s)
<1>. DEFINE x == [type |-> "STOP"]
            t == Append(s, x)
            n == Len(s)
<1>1. x.type = "STOP" /\ x \in RolloutCommand
  BY DEF RolloutCommand
<1>. HIDE DEF x
<1>2. /\ n \in Nat /\ Len(t) = n + 1
      /\ \A i \in 1 .. n : t[i] = s[i]
      /\ t[n + 1] = x /\ DOMAIN t = 1 .. Len(t) /\ DOMAIN s = 1 .. n
  BY <1>1
<1>3. 1 .. Len(t) = (1 .. n) \cup {n + 1}
  BY <1>2
<1>4. Exchanges(t) = Exchanges(s)
  <2>. HIDE DEF t, n
  <2>1. ASSUME NEW y \in Exchanges(t) PROVE y \in Exchanges(s)
    BY <1>1, <1>2, <1>3, <2>1 DEF Exchanges, Range
  <2>2. ASSUME NEW y \in Exchanges(s) PROVE y \in Exchanges(t)
    BY <1>2, <1>3, <2>2 DEF Exchanges, Range
  <2>. QED BY <2>1, <2>2
<1>5. Tidy(t, TRUE)
  <2>1. ASSUME NEW i \in 1 .. Len(t), NEW j \in 1 .. Len(t), i < j, t[i].type = "R2R"
        PROVE  t[i] # t[j]
    <3>. HIDE DEF t
    <3>1. i \in 1 .. n /\ t[i] = s[i]
      BY <1>2, <1>3, <2>1
    <3>2. CASE j \in 1 .. n
      BY <1>2, <2>1, <3>1, <3>2 DEF Tidy
    <3>3. CASE j = n + 1
      BY <1>1, <1>2, <2>1, <3>3
    <3>. QED BY <1>3, <3>2, <3>3
  <2>2. ASSUME NEW i \in 1 .. Len(t), t[i].type = "STOP" PROVE i = Len(t)
    <3>. HIDE DEF t
    <3>. QED BY <1>2, <1>3, <2>2 DEF Tidy
  <2>. QED BY <2>1, <2>2 DEF Tidy
<1>. QED BY <1>4, <1>5 DEF x, t

(* Taking the first command: an exchange is gone with it.                  *)
LEMMA TailTidy ==
  ASSUME NEW s \in Seq(RolloutCommand), s # <<>>, NEW sent \in BOOLEAN, Tidy(s, sent)
  PROVE  /\ Tidy(Tail(s), sent)
         /\ Exchanges(Tail(s)) = Exchanges(s) \ {Head(s)}
         /\ Head(s).type = "STOP" => Tail(s) = <<>> /\ sent
         /\ Head(s).type = "R2R" => Head(s) \in Exchanges(s)
<1>. DEFINE t == Tail(s)
            n == Len(s)
<1>1. /\ n \in Nat /\ n > 0 /\ Len(t) = n - 1 /\ Head(s) = s[1]
      /\ \A i \in 1 .. n - 1 : t[i] = s[i + 1]
      /\ DOMAIN t = 1 .. n - 1 /\ DOMAIN s = 1 .. n
      /\ n = 1 => t = <<>>
  OBVIOUS
<1>2. \A k \in 1 .. n : k # 1 => k - 1 \in 1 .. n - 1 /\ t[k - 1] = s[k]
  BY <1>1
<1>. HIDE DEF t, n
<1>3. \A i \in 1 .. n - 1 : i \in Int /\ i + 1 \in 1 .. n /\ 1 < i + 1
  BY <1>1
<1>4. Tidy(t, sent)
  <2>1. ASSUME NEW i \in 1 .. n - 1, NEW j \in 1 .. n - 1, i < j, t[i].type = "R2R"
        PROVE  t[i] # t[j]
    <3>1. i + 1 < j + 1
      BY <2>1
    <3>. QED BY <1>1, <1>3, <2>1, <3>1 DEF Tidy, n
  <2>2. ASSUME NEW i \in 1 .. n - 1, t[i].type = "STOP" PROVE i = n - 1 /\ sent
    <3>1. i + 1 = n /\ sent
      BY <1>1, <1>3, <2>2 DEF Tidy, n
    <3>. QED BY <1>1, <3>1
  <2>. QED BY <1>1, <2>1, <2>2 DEF Tidy
<1>5. Exchanges(t) = Exchanges(s) \ {Head(s)}
  <2>1. ASSUME NEW y \in Exchanges(t) PROVE y \in Exchanges(s) /\ y # s[1]
    <3>1. PICK i \in 1 .. n - 1 : y = s[i + 1] /\ y.type = "R2R"
      BY <1>1, <2>1 DEF Exchanges, Range
    <3>2. y # s[1]
      BY <1>1, <1>3, <3>1 DEF Tidy, n
    <3>. QED BY <1>1, <1>3, <3>1, <3>2 DEF Exchanges, Range
  <2>2. ASSUME NEW y \in Exchanges(s), y # s[1] PROVE y \in Exchanges(t)
    <3>1. PICK k \in 1 .. n : y = s[k] /\ y.type = "R2R"
      BY <1>1, <2>2 DEF Exchanges, Range
    <3>2. k - 1 \in DOMAIN t /\ t[k - 1] = y
      BY <1>1, <1>2, <2>2, <3>1
    <3>. QED BY <3>1, <3>2 DEF Exchanges, Range
  <2>. QED BY <1>1, <2>1, <2>2
<1>6. Head(s).type = "STOP" => t = <<>> /\ sent
  BY <1>1 DEF Tidy, n
<1>7. Head(s).type = "R2R" => Head(s) \in Exchanges(s)
  BY <1>1 DEF Exchanges, Range
<1>. QED BY <1>4, <1>5, <1>6, <1>7 DEF t

(* A step that does not touch the streams keeps them orderly.              *)
LEMMA OrderlyFrame ==
  ASSUME NEW c, NEW d, NEW v, NEW u, ControllerTypeOK(c), ControllerTypeOK(d),
         Orderly(c, v), d.rollout_stream = c.rollout_stream, Later(c, d),
         \A r \in Rollouts : u[r] \in {"stopping", "gone"} => v[r] \in {"stopping", "gone"}
  PROVE  Orderly(d, u)
<1>1. \A r \in Rollouts : Tidy(d.rollout_stream[r], d.stop_broadcast_sent)
  BY DEF Orderly, Tidy, Later
<1>2. Dated(d)
  <2>. SUFFICES ASSUME NEW q \in Rollouts, NEW x \in Exchanges(c.rollout_stream[q])
                PROVE  /\ x.step <= d.current_step
                       /\ Busy(d) # {} /\ d.completion_step = None => x.step < d.current_step
    BY DEF Dated
  <2>1. c.rollout_stream[q] \in Seq(RolloutCommand)
    BY DEF ControllerTypeOK, RolloutStreams
  <2>2. x.step \in Nat /\ c.current_step \in Nat /\ d.current_step \in Nat
    BY <2>1, ExchangesType DEF ControllerTypeOK
  <2>3. /\ x.step <= c.current_step
        /\ Busy(c) # {} /\ c.completion_step = None => x.step < c.current_step
    BY DEF Orderly, Dated
  <2>. QED BY <2>2, <2>3 DEF Later
<1>. QED BY <1>1, <1>2 DEF Orderly, Left, Later

(* The replicas in P take the command x off the heads of their streams:    *)
(* one replica a receive or STOP, or all of its peers an exchange.         *)
Takes(c, d, v, u, P, x) ==
  /\ \A q \in P : c.rollout_stream[q] # <<>> /\ Head(c.rollout_stream[q]) = x
  /\ x.type # "R2R" \/ x.peers = P
  /\ \A q \in Rollouts : d.rollout_stream[q] = IF q \in P THEN Tail(c.rollout_stream[q])
                                                ELSE c.rollout_stream[q]
  /\ Busy(d) = Busy(c) /\ d.completion_step = c.completion_step
  /\ d.current_step = c.current_step /\ d.stop_broadcast_sent = c.stop_broadcast_sent
  /\ \A r \in Rollouts : u[r] \in {"stopping", "gone"} =>
       v[r] \in {"stopping", "gone"} \/ (r \in P /\ x.type = "STOP")

(* The streams stay orderly.                                               *)
LEMMA OrderlyTake ==
  ASSUME NEW c, NEW d, NEW v, NEW u, ControllerTypeOK(c), ControllerTypeOK(d),
         Orderly(c, v), NEW P \in SUBSET Rollouts, NEW x, Takes(c, d, v, u, P, x)
  PROVE  Orderly(d, u)
<1>. DEFINE rs == c.rollout_stream
            ss == d.rollout_stream
<1>1. c.stop_broadcast_sent \in BOOLEAN /\ \A q \in Rollouts : rs[q] \in Seq(RolloutCommand)
  BY DEF ControllerTypeOK, RolloutStreams
<1>2. \A q \in Rollouts : Tidy(rs[q], c.stop_broadcast_sent)
  BY DEF Orderly
<1>3. ASSUME NEW q \in P
      PROVE  /\ Tidy(ss[q], c.stop_broadcast_sent)
             /\ Exchanges(ss[q]) = Exchanges(rs[q]) \ {x}
             /\ x.type = "STOP" => ss[q] = <<>> /\ c.stop_broadcast_sent
  <2>1. rs[q] # <<>> /\ Head(rs[q]) = x /\ ss[q] = Tail(rs[q]) /\ rs[q] \in Seq(RolloutCommand)
    BY <1>1 DEF Takes
  <2>. HIDE DEF rs, ss
  <2>. QED BY <1>1, <1>2, <2>1, TailTidy
<1>4. ASSUME NEW q \in Rollouts, q \notin P
      PROVE  ss[q] = rs[q] /\ Exchanges(ss[q]) = Exchanges(rs[q]) \ {x}
  <2>1. ss[q] = rs[q]
    BY <1>4 DEF Takes
  <2>2. x \notin Exchanges(rs[q])
    <3>1. CASE x.type # "R2R"
      BY <3>1 DEF Exchanges
    <3>2. CASE x.peers = P
      BY <1>4, <3>2 DEF Orderly, Paired
    <3>. QED BY <3>1, <3>2 DEF Takes
  <2>. QED BY <2>1, <2>2
<1>5. \A q \in Rollouts : Tidy(ss[q], d.stop_broadcast_sent)
  BY <1>2, <1>3, <1>4 DEF Takes
<1>6. \A q \in Rollouts : Exchanges(ss[q]) = Exchanges(rs[q]) \ {x}
  BY <1>3, <1>4
<1>7. Paired(ss)
  <2>. SUFFICES ASSUME NEW q \in Rollouts, NEW y \in Exchanges(ss[q])
                PROVE  q \in y.peers /\ \A r \in y.peers : y \in Exchanges(ss[r])
    BY DEF Paired
  <2>1. y \in Exchanges(rs[q]) /\ y # x
    BY <1>6
  <2>2. q \in y.peers /\ \A r \in y.peers : y \in Exchanges(rs[r])
    BY <2>1 DEF Orderly, Paired
  <2>3. y.peers \subseteq Rollouts
    BY <1>1, <2>1, ExchangesType
  <2>. QED BY <1>6, <2>1, <2>2, <2>3
<1>8. Dated(d)
  BY <1>6 DEF Orderly, Dated, Takes
<1>9. Left(d, u)
  <2>. SUFFICES ASSUME NEW r \in Rollouts, u[r] \in {"stopping", "gone"}
                PROVE  c.stop_broadcast_sent /\ ss[r] = <<>>
    BY DEF Left, Takes
  <2>1. CASE v[r] \in {"stopping", "gone"}
    <3>1. c.stop_broadcast_sent /\ rs[r] = <<>>
      BY <2>1 DEF Orderly, Left
    <3>2. r \notin P
      BY <3>1 DEF Takes
    <3>. QED BY <1>4, <3>1, <3>2
  <2>2. CASE r \in P /\ x.type = "STOP"
    BY <1>3, <2>2
  <2>. QED BY <2>1, <2>2 DEF Takes
<1>. QED BY <1>5, <1>7, <1>8, <1>9 DEF Orderly

(* The weight sync of a settled step.                                      *)
LEMMA OrderlySync ==
  ASSUME NEW c, NEW d, NEW v, ControllerTypeOK(c), ControllerTypeOK(d), Orderly(c, v),
         Busy(c) # {}, c.completion_step = None, ~c.stop_broadcast_sent,
         Synced(c.rollout_stream, d.rollout_stream, c.current_step, c.rollouts),
         c.current_step <= d.current_step,
         Busy(d) # {} /\ d.completion_step = None => c.current_step < d.current_step
  PROVE  Orderly(d, v)
<1>. DEFINE rs == c.rollout_stream
            ss == d.rollout_stream
            x == Exchange(c.current_step, c.rollouts)
<1>1. /\ \A q \in Rollouts : rs[q] \in Seq(RolloutCommand)
      /\ c.rollouts \subseteq Rollouts /\ c.current_step \in Nat /\ d.current_step \in Nat
  BY DEF ControllerTypeOK, RolloutStreams
<1>2. /\ x \in RolloutCommand /\ x.type = "R2R" /\ x.step = c.current_step
      /\ x.peers = c.rollouts
  BY <1>1 DEF RolloutCommand, Exchange
<1>3. \A q \in Rollouts : Tidy(rs[q], FALSE)
  <2>1. c.stop_broadcast_sent = FALSE
    BY DEF ControllerTypeOK
  <2>. QED BY <2>1 DEF Orderly
<1>4. \A q \in Rollouts : IF q \in c.rollouts THEN Appended(rs[q], ss[q], x) ELSE ss[q] = rs[q]
  BY DEF Synced
<1>. HIDE DEF x
<1>5. ASSUME NEW q \in Rollouts, NEW y \in Exchanges(rs[q])
      PROVE  y.step \in Nat /\ y.peers \subseteq Rollouts /\ y.step < c.current_step /\ y # x
  <2>1. y.step \in Nat /\ y.peers \subseteq Rollouts
    BY <1>1, ExchangesType
  <2>2. y.step < c.current_step
    BY DEF Orderly, Dated
  <2>. QED BY <1>1, <1>2, <2>1, <2>2
<1>6. ASSUME NEW q \in c.rollouts
      PROVE  Tidy(ss[q], FALSE) /\ Exchanges(ss[q]) = Exchanges(rs[q]) \cup {x}
  <2>1. x \notin Exchanges(rs[q]) /\ rs[q] \in Seq(RolloutCommand) /\ Tidy(rs[q], FALSE)
        /\ Appended(rs[q], ss[q], x)
    BY <1>1, <1>3, <1>4, <1>5
  <2>. HIDE DEF rs, ss
  <2>. QED BY <1>2, <2>1, AppendedTidy
<1>7. \A q \in Rollouts : Tidy(ss[q], FALSE)
  BY <1>3, <1>4, <1>6
<1>8. \A q \in Rollouts : Tidy(ss[q], d.stop_broadcast_sent)
  BY <1>7 DEF Tidy
<1>9. Paired(ss)
  <2>. SUFFICES ASSUME NEW q \in Rollouts, NEW y \in Exchanges(ss[q])
                PROVE  q \in y.peers /\ \A r \in y.peers : y \in Exchanges(ss[r])
    BY DEF Paired
  <2>1. CASE y = x
    <3>1. q \in c.rollouts
      BY <1>4, <1>5, <2>1
    <3>. QED BY <1>1, <1>2, <1>6, <2>1, <3>1
  <2>2. CASE y # x
    <3>1. y \in Exchanges(rs[q])
      BY <1>4, <1>6, <2>2
    <3>2. q \in y.peers /\ y.peers \subseteq Rollouts /\ \A r \in y.peers : y \in Exchanges(rs[r])
      BY <1>5, <3>1 DEF Orderly, Paired
    <3>. QED BY <1>4, <1>6, <3>2
  <2>. QED BY <2>1, <2>2
<1>10. Dated(d)
  <2>. SUFFICES ASSUME NEW q \in Rollouts, NEW y \in Exchanges(ss[q])
                PROVE  /\ y.step <= d.current_step
                       /\ Busy(d) # {} /\ d.completion_step = None => y.step < d.current_step
    BY DEF Dated
  <2>1. y = x \/ y \in Exchanges(rs[q])
    BY <1>4, <1>6
  <2>2. y.step \in Nat /\ y.step <= c.current_step
    BY <1>1, <1>2, <1>5, <2>1
  <2>. QED BY <1>1, <2>2
<1>11. Left(d, v)
  BY DEF Orderly, Left
<1>. QED BY <1>8, <1>9, <1>10, <1>11 DEF Orderly

(* STOP comes after everything else.                                       *)
LEMMA OrderlyStop ==
  ASSUME NEW c, NEW v, ControllerTypeOK(c), Orderly(c, v), ~c.stop_broadcast_sent
  PROVE  Orderly(broadcast_stop(c), v)
<1>. DEFINE d == broadcast_stop(c)
            rs == c.rollout_stream
            ss == d.rollout_stream
<1>1. /\ \A q \in Rollouts : rs[q] \in Seq(RolloutCommand)
      /\ c.stop_broadcast_sent = FALSE
  BY DEF ControllerTypeOK, RolloutStreams
<1>2. /\ d.policies = c.policies /\ d.status = c.status
      /\ d.completion_step = c.completion_step /\ d.current_step = c.current_step
      /\ d.stop_broadcast_sent = TRUE
      /\ \A q \in Rollouts : ss[q] = IF q \in c.rollouts THEN Append(rs[q], [type |-> "STOP"])
                                     ELSE rs[q]
  BY DEF broadcast_stop, ControllerTypeOK, Fields
<1>. HIDE DEF d
<1>3. \A q \in Rollouts : Tidy(rs[q], FALSE)
  BY <1>1 DEF Orderly
<1>4. ASSUME NEW q \in Rollouts
      PROVE  Tidy(ss[q], TRUE) /\ Exchanges(ss[q]) = Exchanges(rs[q])
  <2>1. CASE q \in c.rollouts
    <3>1. ss[q] = Append(rs[q], [type |-> "STOP"]) /\ rs[q] \in Seq(RolloutCommand)
          /\ Tidy(rs[q], FALSE)
      BY <1>1, <1>2, <1>3, <2>1
    <3>. HIDE DEF rs, ss
    <3>. QED BY <3>1, StopTidy
  <2>2. CASE q \notin c.rollouts
    BY <1>2, <1>3, <2>2 DEF Tidy
  <2>. QED BY <2>1, <2>2
<1>5. Paired(ss)
  <2>. SUFFICES ASSUME NEW q \in Rollouts, NEW y \in Exchanges(rs[q])
                PROVE  q \in y.peers /\ \A r \in y.peers : y \in Exchanges(ss[r])
    BY <1>4 DEF Paired
  <2>1. y.peers \subseteq Rollouts
    BY <1>1, ExchangesType
  <2>. QED BY <1>4, <2>1 DEF Orderly, Paired
<1>6. Dated(d)
  <2>1. Busy(d) = Busy(c)
    BY <1>2 DEF Busy
  <2>. QED BY <1>2, <1>4, <2>1 DEF Orderly, Dated
<1>7. Left(d, v)
  BY DEF Orderly, Left
<1>. QED BY <1>2, <1>4, <1>5, <1>6, <1>7 DEF Orderly, d

(* Every step goes forward.                                                *)
LEMMA LaterStep ==
  ASSUME TypeOK, Handshake, [Next]_vars
  PROVE  Later(ctl, ctl')
<1>1. /\ Agreed(ctl, cur) /\ WorkerBusy /\ ControllerTypeOK(ctl) /\ ControllerTypeOK(ctl')
      /\ ctl.current_step \in Nat /\ ctl'.current_step \in Nat
  BY TypeStep DEF Handshake, TypeOK, Agreed, ControllerTypeOK
<1>2. \A c, d : /\ Begins(c, d) /\ c.current_step \in Nat /\ ControllerTypeOK(d)
                => /\ Busy(d) # {} /\ d.completion_step = None => c.current_step < d.current_step
                   /\ c.current_step <= d.current_step
                   /\ d.stop_broadcast_sent = c.stop_broadcast_sent
  BY ReplicaAssumption DEF Begins, HandsTraining, HandsClosing, Hands, ControllerTypeOK
<1>3. CASE Quiet(ctl, ctl')
  BY <1>1, <1>3 DEF Quiet, SameBarrier, Later, Busy
<1>4. CASE Begins(ctl, ctl')
  BY <1>1, <1>2, <1>4 DEF Later
<1>5. CASE Steady(ctl, ctl') /\ (ctl.stop_broadcast_sent => ctl'.stop_broadcast_sent)
  BY <1>1, <1>5 DEF Steady, Later, Busy
<1>6. ASSUME NEW p \in ctl.policies, Departs(ctl, ctl', p) PROVE Later(ctl, ctl')
  BY <1>1, <1>6 DEF Departs, Later, Busy
<1>7. ASSUME NEW p \in Policies, TrainAck(p) PROVE Later(ctl, ctl')
  <2>. DEFINE b == [ctl EXCEPT !.status[p] = "REDUCED"]
  <2>1. cur[p] # None /\ cur[p].type # "P2R" /\ p \in ctl.policies
    BY <1>1, <1>7 DEF TrainAck, WorkerBusy
  <2>2. cur[p].step \in Nat /\ cur[p].total \in Int /\ cur \in Works
    BY <2>1, CommandType DEF TypeOK, Works
  <2>3. ctl' = train_ack(ctl, p, cur[p].step, cur[p].total)
    BY <1>7 DEF TrainAck
  <2>4. /\ p \in Busy(ctl) /\ Acks(ctl, b, p)
        /\ Acks(ctl, ctl', p) \/ Begins(b, ctl') \/ Rests(b, ctl')
    BY <1>1, <2>1, <2>2, <2>3, AckRounds
  <2>. HIDE DEF b
  <2>5. b.current_step = ctl.current_step /\ b.stop_broadcast_sent = ctl.stop_broadcast_sent
    BY <2>4 DEF Acks
  <2>6. CASE Acks(ctl, ctl', p)
    BY <1>1, <2>4, <2>6 DEF Acks, Later
  <2>7. CASE Begins(b, ctl')
    BY <1>1, <1>2, <2>5, <2>7 DEF Later
  <2>8. CASE Rests(b, ctl')
    BY <1>1, <2>5, <2>8 DEF Rests, Later
  <2>. QED BY <2>4, <2>6, <2>7, <2>8
<1>. QED BY <1>1, <1>3, <1>4, <1>5, <1>6, <1>7, StepShape DEF Opens

(* The ACK that syncs is the last of its step.                             *)
LEMMA AckSyncs ==
  ASSUME TypeOK, Handshake, NEW p \in Policies, TrainAck(p)
  PROVE  \/ ctl'.rollout_stream = ctl.rollout_stream
         \/ /\ Busy(ctl) # {} /\ ctl.completion_step = None /\ ~ctl.stop_broadcast_sent
            /\ Busy(ctl') # {} /\ ctl'.completion_step = None =>
                 ctl.current_step < ctl'.current_step
            /\ Synced(ctl.rollout_stream, ctl'.rollout_stream, ctl.current_step, ctl.rollouts)
<1>. DEFINE b == [ctl EXCEPT !.status[p] = "REDUCED"]
            step == cur[p].step
            total == cur[p].total
<1>1. /\ Agreed(ctl, cur) /\ WorkerBusy /\ ControllerTypeOK(ctl) /\ ControllerTypeOK(ctl')
      /\ ctl.current_step \in Nat /\ ctl'.current_step \in Nat
  BY TypeStep DEF Handshake, TypeOK, Agreed, ControllerTypeOK, Next, PolicyStep
<1>2. cur[p] # None /\ cur[p].type # "P2R" /\ p \in ctl.policies
  BY <1>1 DEF TrainAck, WorkerBusy
<1>3. step \in Nat /\ total \in Int /\ cur \in Works
  BY <1>2, CommandType DEF TypeOK, Works
<1>4. ctl' = train_ack(ctl, p, step, total)
  BY DEF TrainAck
<1>5. /\ p \in Busy(ctl) /\ ~ctl.terminal_complete /\ Current(ctl, cur[p])
      /\ Acks(ctl, b, p)
      /\ \/ /\ Acks(ctl, ctl', p)
            /\ ctl.completion_step = None => \E q \in ctl.policies : ctl'.status[q] # "REDUCED"
         \/ Begins(b, ctl') \/ Rests(b, ctl')
  BY <1>1, <1>2, <1>3, <1>4, AckRounds
<1>6. \/ ctl'.rollout_stream = ctl.rollout_stream
      \/ /\ ~(step = ctl.completion_step /\ p \in ctl.completion_recipients)
         /\ all_reduced(b)
         /\ Synced(ctl.rollout_stream, ctl'.rollout_stream, step, ctl.rollouts)
  BY <1>1, <1>2, <1>3, <1>4, AckStream
<1>. HIDE DEF b, total
<1>7. ASSUME ~(step = ctl.completion_step /\ p \in ctl.completion_recipients), all_reduced(b)
      PROVE  /\ ctl.completion_step = None /\ step = ctl.current_step /\ ~ctl.stop_broadcast_sent
             /\ Busy(ctl') # {} /\ ctl'.completion_step = None =>
                  ctl.current_step < ctl'.current_step
  <2>1. ctl.completion_step = None
    BY <1>1, <1>2, <1>5, <1>7 DEF Current, Agreed, Lifecycle
  <2>2. step = ctl.current_step
    BY <1>5, <2>1 DEF Current
  <2>3. ~ctl.stop_broadcast_sent
    BY <1>1, <1>2, <1>5 DEF Agreed, Lifecycle
  <2>4. ~Acks(ctl, ctl', p) \/ \A q \in ctl.policies : ctl'.status[q] = "REDUCED"
    BY <1>5, <1>7 DEF Acks, all_reduced
  <2>5. Begins(b, ctl') \/ Rests(b, ctl')
    BY <1>5, <2>1, <2>4
  <2>6. b.current_step = ctl.current_step
    BY <1>5 DEF Acks
  <2>7. CASE Begins(b, ctl')
    BY <1>1, <2>1, <2>2, <2>3, <2>6, <2>7, ReplicaAssumption
       DEF Begins, HandsTraining, HandsClosing, ControllerTypeOK
  <2>8. CASE Rests(b, ctl')
    BY <2>1, <2>2, <2>3, <2>8 DEF Rests
  <2>. QED BY <2>5, <2>7, <2>8
<1>. QED BY <1>5, <1>6, <1>7

(* Every step keeps the streams orderly.                                   *)
LEMMA OrderlyStep ==
  ASSUME TypeOK, Handshake, Orderly(ctl, rpc), [Next]_vars
  PROVE  Orderly(ctl', rpc')
<1>1. /\ WorkerBusy /\ ControllerTypeOK(ctl) /\ ControllerTypeOK(ctl') /\ Later(ctl, ctl')
      /\ ctl.rollout_stream \in [Rollouts -> Seq(RolloutCommand)]
      /\ rpc \in [Rollouts -> RolloutPC]
  BY TypeStep, LaterStep DEF Handshake, TypeOK, ControllerTypeOK, RolloutStreams
<1>. DEFINE Stays == \A r \in Rollouts : rpc'[r] \in {"stopping", "gone"} =>
                                           rpc[r] \in {"stopping", "gone"}
<1>2. ASSUME ctl'.rollout_stream = ctl.rollout_stream, Stays
      PROVE  Orderly(ctl', rpc')
  BY <1>1, <1>2, OrderlyFrame
<1>3. ASSUME NEW p \in Policies, TrainAck(p) PROVE Orderly(ctl', rpc')
  <2>1. rpc' = rpc
    BY <1>3 DEF TrainAck, rolloutVars
  <2>2. CASE ctl'.rollout_stream = ctl.rollout_stream
    BY <1>2, <2>1, <2>2
  <2>3. CASE /\ Busy(ctl) # {} /\ ctl.completion_step = None /\ ~ctl.stop_broadcast_sent
             /\ Busy(ctl') # {} /\ ctl'.completion_step = None =>
                  ctl.current_step < ctl'.current_step
             /\ Synced(ctl.rollout_stream, ctl'.rollout_stream, ctl.current_step, ctl.rollouts)
    BY <1>1, <2>1, <2>3, OrderlySync DEF Later
  <2>. QED BY <1>3, <2>2, <2>3, AckSyncs
<1>4. ASSUME NEW p \in Policies, NEW r \in Rollouts, PolicyToRollout(p, r)
      PROVE  Orderly(ctl', rpc')
  <2>. DEFINE x == Head(ctl.rollout_stream[r])
  <2>1. /\ rpc' = rpc /\ ctl.rollout_stream[r] # <<>> /\ x.type = "P2R"
    BY <1>4 DEF PolicyToRollout, rolloutVars
  <2>2. /\ ctl'.rollout_stream = [ctl.rollout_stream EXCEPT ![r] = Tail(@)]
        /\ ctl'.policies = ctl.policies /\ ctl'.status = ctl.status
        /\ ctl'.completion_step = ctl.completion_step /\ ctl'.current_step = ctl.current_step
        /\ ctl'.stop_broadcast_sent = ctl.stop_broadcast_sent
    BY <1>1, <1>4 DEF PolicyToRollout, ControllerTypeOK, Fields
  <2>3. Busy(ctl') = Busy(ctl)
    BY <2>2 DEF Busy
  <2>4. \A q \in Rollouts : ctl'.rollout_stream[q] =
           IF q \in {r} THEN Tail(ctl.rollout_stream[q]) ELSE ctl.rollout_stream[q]
    BY <1>1, <2>2
  <2>5. {r} \in SUBSET Rollouts
    OBVIOUS
  <2>6. \A q \in {r} : ctl.rollout_stream[q] # <<>> /\ Head(ctl.rollout_stream[q]) = x
    BY <2>1
  <2>7. /\ x.type # "R2R" \/ x.peers = {r}
        /\ \A q \in Rollouts : rpc'[q] \in {"stopping", "gone"} =>
              rpc[q] \in {"stopping", "gone"} \/ (q \in {r} /\ x.type = "STOP")
    BY <2>1
  <2>. HIDE DEF x
  <2>8. Takes(ctl, ctl', rpc, rpc', {r}, x)
    BY <2>2, <2>3, <2>4, <2>6, <2>7 DEF Takes
  <2>. QED BY <1>1, <2>5, <2>8, OrderlyTake
<1>5. ASSUME NEW r \in Rollouts, HandleStop(r) PROVE Orderly(ctl', rpc')
  <2>. DEFINE x == Head(ctl.rollout_stream[r])
  <2>1. /\ rpc' = [rpc EXCEPT ![r] = "stopping"] /\ ctl.rollout_stream[r] # <<>>
        /\ x.type = "STOP"
    BY <1>5 DEF HandleStop
  <2>2. /\ ctl'.rollout_stream = [ctl.rollout_stream EXCEPT ![r] = Tail(@)]
        /\ ctl'.policies = ctl.policies /\ ctl'.status = ctl.status
        /\ ctl'.completion_step = ctl.completion_step /\ ctl'.current_step = ctl.current_step
        /\ ctl'.stop_broadcast_sent = ctl.stop_broadcast_sent
    BY <1>1, <1>5 DEF HandleStop, ControllerTypeOK, Fields
  <2>3. Busy(ctl') = Busy(ctl)
    BY <2>2 DEF Busy
  <2>4. \A q \in Rollouts : ctl'.rollout_stream[q] =
           IF q \in {r} THEN Tail(ctl.rollout_stream[q]) ELSE ctl.rollout_stream[q]
    BY <1>1, <2>2
  <2>5. {r} \in SUBSET Rollouts
    OBVIOUS
  <2>6. \A q \in {r} : ctl.rollout_stream[q] # <<>> /\ Head(ctl.rollout_stream[q]) = x
    BY <2>1
  <2>7. \A q \in Rollouts : rpc'[q] \in {"stopping", "gone"} =>
           rpc[q] \in {"stopping", "gone"} \/ (q \in {r} /\ x.type = "STOP")
    BY <1>1, <2>1
  <2>8. x.type # "R2R" \/ x.peers = {r}
    BY <2>1
  <2>. HIDE DEF x
  <2>9. Takes(ctl, ctl', rpc, rpc', {r}, x)
    BY <2>2, <2>3, <2>4, <2>6, <2>7, <2>8 DEF Takes
  <2>. QED BY <1>1, <2>5, <2>9, OrderlyTake
<1>6. ASSUME NEW r \in Rollouts, RolloutToRollout(r) PROVE Orderly(ctl', rpc')
  <2>. DEFINE x == Head(ctl.rollout_stream[r])
              P == x.peers
  <2>1. /\ rpc' = rpc /\ ctl.rollout_stream[r] # <<>> /\ x.type = "R2R"
        /\ \A q \in P : ctl.rollout_stream[q] # <<>> /\ Head(ctl.rollout_stream[q]) = x
    BY <1>6 DEF RolloutToRollout, rolloutVars
  <2>2. x \in RolloutCommand
    BY <1>1, <2>1
  <2>3. /\ ctl'.rollout_stream = [q \in Rollouts |->
              IF q \in P THEN Tail(ctl.rollout_stream[q]) ELSE ctl.rollout_stream[q]]
        /\ ctl'.policies = ctl.policies /\ ctl'.status = ctl.status
        /\ ctl'.completion_step = ctl.completion_step /\ ctl'.current_step = ctl.current_step
        /\ ctl'.stop_broadcast_sent = ctl.stop_broadcast_sent
    BY <1>1, <1>6 DEF RolloutToRollout, ControllerTypeOK, Fields
  <2>4. Busy(ctl') = Busy(ctl)
    BY <2>3 DEF Busy
  <2>. HIDE DEF x
  <2>5. P \in SUBSET Rollouts
    BY <2>1, <2>2 DEF RolloutCommand
  <2>6. /\ \A q \in Rollouts : ctl'.rollout_stream[q] =
              IF q \in P THEN Tail(ctl.rollout_stream[q]) ELSE ctl.rollout_stream[q]
        /\ x.type # "R2R" \/ x.peers = P
        /\ \A q \in Rollouts : rpc'[q] \in {"stopping", "gone"} =>
              rpc[q] \in {"stopping", "gone"} \/ (q \in P /\ x.type = "STOP")
    BY <2>1, <2>3
  <2>. HIDE DEF P
  <2>7. Takes(ctl, ctl', rpc, rpc', P, x)
    BY <2>1, <2>3, <2>4, <2>6 DEF Takes
  <2>. QED BY <1>1, <2>5, <2>7, OrderlyTake
<1>7. CASE MonitorStop
  <2>1. ctl' = broadcast_stop(ctl) /\ rpc' = rpc /\ ~ctl.stop_broadcast_sent
    BY <1>7 DEF MonitorStop, should_broadcast_stop, rolloutVars
  <2>. QED BY <1>1, <2>1, OrderlyStop
<1>8. ASSUME NEW p \in Policies,
             ExecuteCommand(p) \/ UnregisterPolicy(p) \/ ReapPolicy(p) \/ CrashPolicy(p)
      PROVE  Orderly(ctl', rpc')
  <2>1. rpc' = rpc
    BY <1>8 DEF ExecuteCommand, UnregisterPolicy, ReapPolicy, CrashPolicy, rolloutVars
  <2>2. CASE ExecuteCommand(p) \/ CrashPolicy(p)
    <3>1. ctl'.rollout_stream = ctl.rollout_stream
      BY <1>1, <2>2 DEF ExecuteCommand, CrashPolicy, ControllerTypeOK, Fields
    <3>. QED BY <1>2, <2>1, <3>1
  <2>3. CASE UnregisterPolicy(p) \/ ReapPolicy(p)
    <3>1. ctl'.rollout_stream = ctl.rollout_stream
      BY <1>1, <2>3, HandlerStream DEF UnregisterPolicy, ReapPolicy
    <3>. QED BY <1>2, <2>1, <3>1
  <2>. QED BY <1>8, <2>2, <2>3
<1>9. ASSUME NEW r \in Rollouts,
             \/ RequestNewPrompts(r) \/ OneStepGeneration(r) \/ ReportDiscardedSamples(r)
             \/ ReportRollouts(r) \/ SendEndSignal(r) \/ UnregisterRollout(r)
             \/ ReapRollout(r) \/ CrashRollout(r)
      PROVE  Orderly(ctl', rpc')
  <2>1. Stays
    BY <1>1, <1>9 DEF RequestNewPrompts, OneStepGeneration, ReportDiscardedSamples,
         ReportRollouts, SendEndSignal, UnregisterRollout, ReapRollout, CrashRollout, rolloutVars
  <2>2. CASE RequestNewPrompts(r) \/ OneStepGeneration(r) \/ ReportDiscardedSamples(r)
             \/ SendEndSignal(r) \/ UnregisterRollout(r) \/ ReapRollout(r) \/ CrashRollout(r)
    <3>1. CASE OneStepGeneration(r) \/ CrashRollout(r)
      BY <1>2, <2>1, <3>1 DEF OneStepGeneration, CrashRollout
    <3>2. CASE RequestNewPrompts(r) \/ ReportDiscardedSamples(r)
      BY <1>1, <1>2, <2>1, <3>2, HandlerStream DEF RequestNewPrompts, ReportDiscardedSamples
    <3>3. CASE SendEndSignal(r) \/ UnregisterRollout(r) \/ ReapRollout(r)
      <4>1. /\ rollout_end(ctl, r).rollout_stream = ctl.rollout_stream
            /\ unregister_rollout(ctl, r).rollout_stream = ctl.rollout_stream
            /\ _maybe_finalize(unregister_rollout(ctl, r), FALSE).rollout_stream
                 = ctl.rollout_stream
        BY <1>1, HandlerStream
      <4>2. ctl'.rollout_stream = ctl.rollout_stream
        BY <3>3, <4>1 DEF SendEndSignal, UnregisterRollout, ReapRollout
      <4>. QED BY <1>2, <2>1, <4>2
    <3>. QED BY <2>2, <3>1, <3>2, <3>3
  <2>3. CASE ReportRollouts(r)
    <3>1. done[r] * NGen \in Nat
      BY ConfigAssumption DEF TypeOK
    <3>2. PICK kept \in 0 .. done[r] * NGen : ctl' = put_rollout_group(ctl, done[r] * NGen, kept)
      BY <2>3 DEF ReportRollouts
    <3>3. ctl'.rollout_stream = ctl.rollout_stream
      BY <1>1, <3>1, <3>2, PutStream
    <3>. QED BY <1>2, <2>1, <3>3
  <2>. QED BY <1>9, <2>2, <2>3
<1>10. CASE StepTraining \/ MonitorFinalize \/ Exited \/ UNCHANGED vars
  <2>1. rpc' = rpc
    BY <1>10 DEF StepTraining, MonitorFinalize, Exited, vars, rolloutVars
  <2>2. ctl'.rollout_stream = ctl.rollout_stream
    BY <1>1, <1>10, StreamKept DEF StepTraining, MonitorFinalize, Exited, vars
  <2>. QED BY <1>2, <2>1, <2>2
<1>. QED BY <1>3, <1>4, <1>5, <1>6, <1>7, <1>8, <1>9, <1>10 DEF Next, PolicyStep, RolloutStep

(* No orphaned collective: when a rollout replica has left on STOP, no     *)
(* weight-sync command queued at any registered replica waits for it,      *)
(* however replicas crash and whatever the streams still hold.             *)
THEOREM NoOrphans == Spec => []NoOrphanedSync
<1>1. Init => Orderly(ctl, rpc)
  <2>. SUFFICES ASSUME Init PROVE Orderly(ctl, rpc)
    OBVIOUS
  <2>1. /\ ctl.rollout_stream = [r \in Rollouts |-> <<>>]
        /\ rpc = [r \in Rollouts |-> "run"]
    BY DEF Init, InitController, recompute_total_steps
  <2>2. \A r \in Rollouts : Exchanges(ctl.rollout_stream[r]) = {}
    BY <2>1 DEF Exchanges, Range
  <2>. QED BY <2>1, <2>2 DEF Orderly, Tidy, Paired, Dated, Left
<1>2. TypeOK /\ Handshake /\ Orderly(ctl, rpc) /\ [Next]_vars => Orderly(ctl, rpc)'
  BY OrderlyStep
<1>3. TypeOK /\ Handshake /\ Orderly(ctl, rpc) => NoOrphanedSync
  <2>. SUFFICES ASSUME TypeOK, Handshake, Orderly(ctl, rpc),
                       NEW r \in Rollouts, rpc[r] \in {"stopping", "gone"}
                PROVE  /\ \A p \in ctl.policies : \A cmd \in Range(ctl.policy_stream[p]) :
                            cmd.type = "P2R" => cmd.peer # r
                       /\ \A q \in ctl.rollouts : \A cmd \in Range(ctl.rollout_stream[q]) :
                            cmd.type = "R2R" => r \notin cmd.peers
    BY DEF NoOrphanedSync
  <2>1. ctl.stop_broadcast_sent /\ ctl.rollout_stream[r] = <<>>
    BY DEF Orderly, Left
  <2>2. Exchanges(ctl.rollout_stream[r]) = {}
    BY <2>1 DEF Exchanges, Range
  <2>3. \A p \in ctl.policies : ctl.policy_stream[p] = <<>>
    BY <2>1 DEF Handshake, Lifecycle
  <2>4. \A p \in ctl.policies : Range(ctl.policy_stream[p]) = {}
    BY <2>3 DEF Range
  <2>5. ctl.rollouts \subseteq Rollouts
    BY DEF TypeOK, ControllerTypeOK
  <2>6. \A q \in ctl.rollouts : \A cmd \in Exchanges(ctl.rollout_stream[q]) : r \notin cmd.peers
    BY <2>2, <2>5 DEF Orderly, Paired
  <2>. QED BY <2>4, <2>6 DEF Exchanges
<1>. QED BY <1>1, <1>2, <1>3, TypeCorrect, HandshakeCorrect, PTL DEF Spec
===============================================================================
