--------------------------- MODULE AccountingProofs ---------------------------
(***************************************************************************)
(* The controller keeps its books: the samples it counts as in flight are  *)
(* the ones at the workers, in the buffer and in dispatched steps, and the *)
(* budget it trains by covers what is still to come.                       *)
(*                                                                         *)
(* The first part follows the books through the methods of Controller, the *)
(* second through the steps of the job.  What is known of sums comes from  *)
(* module SumProofs.                                                       *)
(***************************************************************************)
EXTENDS JobControlProofs, SumProofs

-----------------------------------------------------------------------------
(* The books of the controller *)

InSteps(c) == SumFunction([d \in c.dispatched |-> d.count])

(* The dispatch records: one per step, none of a step not yet dispatched.  *)
Records(c) ==
  /\ IsFiniteSet(c.dispatched)
  /\ \A d \in c.dispatched : d.step <= c.current_step
  /\ \A d, e \in c.dispatched : d.step = e.step => d = e

(* The books of controller c, reached from c0 within one call: n samples   *)
(* are at the workers and m are still to come.                             *)
Books(c, c0, n, m) ==
  /\ ControllerTypeOK(c) /\ ControllerTypeOK(c0)
  /\ Records(c)
  /\ c.samples_on_the_fly = n + c.rollout_buffer + InSteps(c)
  /\ c.remain_samples_num >= m + c.rollout_buffer
  /\ c.samples_on_the_fly <= c0.samples_on_the_fly
  /\ c.policies \subseteq c0.policies
  /\ c.discard_reports \subseteq c0.discard_reports

(* The fields Books speaks of are the same in c and d.                     *)
SameBooks(c, d) ==
  /\ d.dispatched = c.dispatched /\ d.current_step = c.current_step
  /\ d.samples_on_the_fly = c.samples_on_the_fly
  /\ d.rollout_buffer = c.rollout_buffer
  /\ d.remain_samples_num = c.remain_samples_num
  /\ d.policies = c.policies /\ d.discard_reports = c.discard_reports

(* A change elsewhere keeps the books.                                     *)
LEMMA BooksFrame ==
  ASSUME NEW c, NEW d, NEW c0, NEW n, NEW m, Books(c, c0, n, m),
         ControllerTypeOK(d), SameBooks(c, d)
  PROVE  Books(d, c0, n, m)
BY DEF Books, SameBooks, Records, InSteps

(* The samples of the dispatched steps are a natural number.               *)
LEMMA InStepsType ==
  ASSUME NEW c, ControllerTypeOK(c), Records(c)
  PROVE  InSteps(c) \in Nat
<1>1. [d \in c.dispatched |-> d.count] \in [c.dispatched -> Nat]
  BY DEF ControllerTypeOK, DispatchRecord
<1>. QED BY <1>1, SumType DEF InSteps, Records

(* Settling takes samples off the workers, never more than there are.      *)
LEMMA SettleBooks ==
  ASSUME NEW c, NEW c0, NEW n \in Nat, NEW m \in Nat, NEW k \in Nat, Books(c, c0, n + k, m)
  PROVE  Books(_settle_samples_on_the_fly(c, k), c0, n, m)
<1>. DEFINE d == _settle_samples_on_the_fly(c, k)
<1>1. InSteps(c) \in Nat /\ c.rollout_buffer \in Nat /\ c.samples_on_the_fly \in Int
  BY InStepsType DEF Books, ControllerTypeOK
<1>2. ControllerTypeOK(d)
  BY SettleType DEF Books
<1>3. /\ d.dispatched = c.dispatched /\ d.current_step = c.current_step
      /\ d.rollout_buffer = c.rollout_buffer /\ d.remain_samples_num = c.remain_samples_num
      /\ d.policies = c.policies /\ d.discard_reports = c.discard_reports
      /\ d.samples_on_the_fly = IF k = 0 THEN c.samples_on_the_fly
                                ELSE IF c.samples_on_the_fly > k
                                     THEN c.samples_on_the_fly - k ELSE 0
  BY DEF _settle_samples_on_the_fly, Books, ControllerTypeOK, Fields
<1>. HIDE DEF d
<1>4. d.samples_on_the_fly = n + d.rollout_buffer + InSteps(d)
        /\ d.samples_on_the_fly <= c.samples_on_the_fly
  <2>1. InSteps(d) = InSteps(c) /\ c.samples_on_the_fly = (n + k) + c.rollout_buffer + InSteps(c)
    BY <1>3 DEF InSteps, Books
  <2>. QED BY <1>1, <1>3, <2>1
<1>5. d.samples_on_the_fly <= c0.samples_on_the_fly
  BY <1>1, <1>2, <1>4 DEF Books, ControllerTypeOK
<1>. QED BY <1>2, <1>3, <1>4, <1>5 DEF Books, Records, d

(* Dropping the buffer settles its samples.                                *)
LEMMA CleanupBooks ==
  ASSUME NEW c, NEW c0, NEW n \in Nat, NEW m \in Nat, Books(c, c0, n, m)
  PROVE  Books(cleanup_buffered_rollouts(c), c0, n, m)
<1>. DEFINE d == cleanup_buffered_rollouts(c)
<1>1. InSteps(c) \in Nat /\ c.rollout_buffer \in Nat /\ c.samples_on_the_fly \in Int
  BY InStepsType DEF Books, ControllerTypeOK
<1>2. ControllerTypeOK(d)
  BY CleanupType DEF Books
<1>3. /\ d.dispatched = c.dispatched /\ d.current_step = c.current_step
      /\ d.rollout_buffer = 0 /\ d.remain_samples_num = c.remain_samples_num
      /\ d.policies = c.policies /\ d.discard_reports = c.discard_reports
      /\ d.samples_on_the_fly =
           IF c.rollout_buffer = 0 THEN c.samples_on_the_fly
           ELSE IF c.samples_on_the_fly > c.rollout_buffer
                THEN c.samples_on_the_fly - c.rollout_buffer ELSE 0
  BY DEF cleanup_buffered_rollouts, _settle_samples_on_the_fly, Books, ControllerTypeOK, Fields
<1>. HIDE DEF d
<1>4. d.samples_on_the_fly = n + InSteps(d) /\ d.samples_on_the_fly <= c.samples_on_the_fly
  <2>1. InSteps(d) = InSteps(c) /\ c.samples_on_the_fly = n + c.rollout_buffer + InSteps(c)
    BY <1>3 DEF InSteps, Books
  <2>. QED BY <1>1, <1>3, <2>1
<1>5. d.samples_on_the_fly <= c0.samples_on_the_fly
  BY <1>1, <1>2, <1>4 DEF Books, ControllerTypeOK
<1>6. d.samples_on_the_fly = n + d.rollout_buffer + InSteps(d)
  BY <1>2, <1>3, <1>4
<1>7. d.remain_samples_num >= m + d.rollout_buffer
  BY <1>1, <1>3 DEF Books, ControllerTypeOK
<1>. QED BY <1>2, <1>3, <1>5, <1>6, <1>7 DEF Books, Records, d

(* Dispatching moves a batch from the buffer to a new step's record.       *)
LEMMA TriggerBooks ==
  ASSUME NEW c, NEW c0, NEW n \in Nat, NEW m \in Nat, Books(c, c0, n, m)
  PROVE  Books(try_trigger_data_fetch_and_training(c), c0, n, m)
<1>. DEFINE t == try_trigger_data_fetch_and_training(c)
            step == c.current_step + 1
            need == required_rollouts(c)
            new == [step |-> step, count |-> need]
<1>1. CASE ~(/\ c.policies # {} /\ ~training_finished(c)
             /\ all_ready_or_reduced(c) /\ rollouts_enough_for_one_step(c))
  BY <1>1 DEF try_trigger_data_fetch_and_training
<1>2. CASE /\ c.policies # {} /\ ~training_finished(c)
           /\ all_ready_or_reduced(c) /\ rollouts_enough_for_one_step(c)
  <2>1. ControllerTypeOK(t)
    BY TriggerType DEF Books
  <2>2. /\ need \in Nat /\ c.rollout_buffer \in Nat /\ c.rollout_buffer >= need
        /\ InSteps(c) \in Nat /\ c.current_step \in Nat
        /\ c.samples_on_the_fly \in Int /\ c.remain_samples_num \in Int
    BY <1>2, RequiredType, InStepsType DEF Books, ControllerTypeOK, rollouts_enough_for_one_step
  <2>3. /\ t.dispatched = {d \in c.dispatched : d.step # step} \cup {new}
        /\ t.current_step = step
        /\ t.rollout_buffer = c.rollout_buffer - need
        /\ t.remain_samples_num = c.remain_samples_num - need
        /\ t.policies = c.policies /\ t.discard_reports = c.discard_reports
        /\ t.samples_on_the_fly = c.samples_on_the_fly
    BY <1>2 DEF try_trigger_data_fetch_and_training, Books, ControllerTypeOK, Fields
  <2>. HIDE DEF t
  <2>4. /\ c.dispatched \subseteq DispatchRecord /\ IsFiniteSet(c.dispatched)
        /\ \A d \in c.dispatched : d.step \in Nat /\ d.count \in Nat /\ d.step <= c.current_step
    BY DEF Books, Records, ControllerTypeOK, DispatchRecord
  <2>5. /\ t.dispatched = c.dispatched \cup {new} /\ new \notin c.dispatched
        /\ new.step = step /\ new.count = need
    <3>1. \A d \in c.dispatched : d.step # step
      BY <2>2, <2>4
    <3>2. new.step = step /\ new.count = need
      OBVIOUS
    <3>. HIDE DEF new
    <3>. QED BY <2>3, <3>1, <3>2
  <2>. HIDE DEF new, need, step
  <2>6. InSteps(t) = InSteps(c) + need
    <3>. DEFINE f == [d \in c.dispatched |-> d.count]
                g == [d \in c.dispatched \cup {new} |-> d.count]
    <3>1. f \in [c.dispatched -> Nat] /\ g \in [c.dispatched \cup {new} -> Nat]
      BY <2>2, <2>4, <2>5
    <3>2. /\ \A d \in c.dispatched : g[d] = f[d]
          /\ g[new] = need
      BY <2>5
    <3>3. SumFunction(g) = SumFunction(f) + g[new]
      <4>1. IsFiniteSet(c.dispatched) /\ new \notin c.dispatched
        BY <2>4, <2>5
      <4>2. \A d \in c.dispatched : g[d] = f[d]
        BY <3>2
      <4>. HIDE DEF f, g
      <4>. QED BY <3>1, <4>1, <4>2, SumAdd
    <3>4. InSteps(c) = SumFunction(f) /\ InSteps(t) = SumFunction(g)
      BY <2>5 DEF InSteps
    <3>. QED BY <3>2, <3>3, <3>4
  <2>7. Records(t)
    <3>1. IsFiniteSet(t.dispatched)
      BY <2>4, <2>5, FS_AddElement
    <3>2. \A d \in t.dispatched : d.step <= t.current_step
      BY <2>2, <2>3, <2>4, <2>5 DEF step
    <3>3. \A d \in c.dispatched : d.step # step
      BY <2>2, <2>4 DEF step
    <3>4. \A d, e \in t.dispatched : d.step = e.step => d = e
      BY <2>5, <3>3 DEF Books, Records
    <3>. QED BY <3>1, <3>2, <3>4 DEF Records
  <2>8. t.samples_on_the_fly = n + t.rollout_buffer + InSteps(t)
    BY <2>2, <2>3, <2>6 DEF Books
  <2>9. t.remain_samples_num >= m + t.rollout_buffer
    BY <2>2, <2>3 DEF Books
  <2>. QED BY <2>1, <2>3, <2>7, <2>8, <2>9 DEF Books, t
<1>. QED BY <1>1, <1>2

(* The completion round, a frozen horizon and a weight sync are elsewhere. *)
LEMMA OtherBooks ==
  ASSUME NEW c, NEW c0, NEW n, NEW m, Books(c, c0, n, m)
  PROVE  /\ Books(trigger_training_complete(c), c0, n, m)
         /\ Books(enter_draining_phase(c), c0, n, m)
         /\ \A step \in Nat : c.policies # {} => Books(trigger_weight_sync(c, step), c0, n, m)
         /\ Books(recompute_total_steps(c), c0, n, m)
         /\ \A p \in Policies : Books(record_completion_ack(c, p), c0, n, m)
         /\ \A f \in BOOLEAN : Books(_maybe_finalize(c, f), c0, n, m)
         /\ Books(broadcast_stop(c), c0, n, m)
         /\ \A r \in Rollouts : Books(unregister_rollout(c, r), c0, n, m)
<1>0. ControllerTypeOK(c)
  BY DEF Books
<1>1. Books(trigger_training_complete(c), c0, n, m)
  <2>1. SameBooks(c, trigger_training_complete(c))
    BY <1>0 DEF SameBooks, trigger_training_complete, ControllerTypeOK, Fields
  <2>. QED BY <1>0, <2>1, CompleteType, BooksFrame
<1>2. Books(enter_draining_phase(c), c0, n, m)
  <2>1. SameBooks(c, enter_draining_phase(c))
    BY <1>0 DEF SameBooks, enter_draining_phase, ControllerTypeOK, Fields
  <2>. QED BY <1>0, <2>1, DrainingType, BooksFrame
<1>3. ASSUME NEW step \in Nat, c.policies # {}
      PROVE  Books(trigger_weight_sync(c, step), c0, n, m)
  <2>1. SameBooks(c, trigger_weight_sync(c, step))
    BY <1>0 DEF SameBooks, trigger_weight_sync, ControllerTypeOK, Fields
  <2>. QED BY <1>0, <1>3, <2>1, SyncType, BooksFrame
<1>4. Books(recompute_total_steps(c), c0, n, m)
  <2>1. SameBooks(c, recompute_total_steps(c))
    BY <1>0 DEF SameBooks, recompute_total_steps, ControllerTypeOK, Fields
  <2>. QED BY <1>0, <2>1, RecomputeType, BooksFrame
<1>5. ASSUME NEW p \in Policies PROVE Books(record_completion_ack(c, p), c0, n, m)
  <2>1. SameBooks(c, record_completion_ack(c, p))
    BY <1>0 DEF SameBooks, record_completion_ack, ControllerTypeOK, Fields
  <2>. QED BY <1>0, <2>1, CompletionAckType, BooksFrame
<1>6. ASSUME NEW f \in BOOLEAN PROVE Books(_maybe_finalize(c, f), c0, n, m)
  <2>1. SameBooks(c, _maybe_finalize(c, f))
    BY <1>0 DEF SameBooks, _maybe_finalize, ControllerTypeOK, Fields
  <2>. QED BY <1>0, <2>1, FinalizeType, BooksFrame
<1>7. Books(broadcast_stop(c), c0, n, m)
  <2>1. SameBooks(c, broadcast_stop(c))
    BY <1>0 DEF SameBooks, broadcast_stop, ControllerTypeOK, Fields
  <2>. QED BY <1>0, <2>1, StopType, BooksFrame
<1>8. ASSUME NEW r \in Rollouts PROVE Books(unregister_rollout(c, r), c0, n, m)
  <2>1. SameBooks(c, unregister_rollout(c, r))
    BY <1>0 DEF SameBooks, unregister_rollout, ControllerTypeOK, Fields
  <2>2. ControllerTypeOK(unregister_rollout(c, r))
    BY <1>0 DEF unregister_rollout, ControllerTypeOK, Fields
  <2>. QED BY <2>1, <2>2, BooksFrame
<1>. QED BY <1>1, <1>2, <1>3, <1>4, <1>5, <1>6, <1>7, <1>8

(* Draining keeps the books.                                               *)
LEMMA FinishBooks ==
  ASSUME NEW c, NEW c0, NEW n \in Nat, NEW m \in Nat, Books(c, c0, n, m)
  PROVE  Books(finish_draining_phase(c), c0, n, m)
<1>. DEFINE d == enter_draining_phase(c)
            clean == cleanup_buffered_rollouts(d)
<1>1. Books(d, c0, n, m)
  BY OtherBooks
<1>. HIDE DEF d
<1>2. Books(clean, c0, n, m)
  BY <1>1, CleanupBooks
<1>. HIDE DEF clean
<1>3. Books(trigger_training_complete(clean), c0, n, m)
  BY <1>2, OtherBooks
<1>4. Books([clean EXCEPT !.terminal_complete = TRUE], c0, n, m)
  <2>0. ControllerTypeOK(clean)
    BY <1>2 DEF Books
  <2>1. ControllerTypeOK([clean EXCEPT !.terminal_complete = TRUE])
    BY <2>0 DEF ControllerTypeOK, Fields
  <2>2. SameBooks(clean, [clean EXCEPT !.terminal_complete = TRUE])
    BY <2>0 DEF SameBooks, ControllerTypeOK, Fields
  <2>. QED BY <1>2, <2>1, <2>2, BooksFrame
<1>5. Books(try_trigger_data_fetch_and_training(d), c0, n, m)
  BY <1>1, TriggerBooks
<1>6. Books(drain_or_complete(d), c0, n, m)
  BY <1>3, <1>4, <1>5 DEF drain_or_complete, clean
<1>. QED BY <1>1, <1>2, <1>6 DEF finish_draining_phase, d, clean

(* The last ACK of a step takes its record off the books, with the samples *)
(* it was dispatched with.                                                 *)
LEMMA PopBooks ==
  ASSUME NEW c, NEW c0, NEW n \in Nat, NEW m \in Nat, Books(c, c0, n, m), NEW step \in Nat
  PROVE  LET record == {d \in c.dispatched : d.step = step}
             popped == [c EXCEPT
                          !.dispatched = @ \ record,
                          !.samples_on_the_fly =
                            IF record = {} THEN @
                            ELSE @ - (CHOOSE d \in record : TRUE).count]
         IN Books(popped, c0, n, m) /\ popped.policies = c.policies
<1>. DEFINE record == {d \in c.dispatched : d.step = step}
            entry == CHOOSE d \in record : TRUE
            popped == [c EXCEPT
                         !.dispatched = @ \ record,
                         !.samples_on_the_fly =
                           IF record = {} THEN @ ELSE @ - entry.count]
<1>1. /\ c.dispatched \subseteq DispatchRecord /\ IsFiniteSet(c.dispatched)
      /\ \A d \in c.dispatched : d.step \in Nat /\ d.count \in Nat /\ d.step <= c.current_step
      /\ InSteps(c) \in Nat /\ c.rollout_buffer \in Nat
      /\ c.samples_on_the_fly \in Int
      /\ c.samples_on_the_fly = n + c.rollout_buffer + InSteps(c)
  BY InStepsType DEF Books, Records, ControllerTypeOK, DispatchRecord
<1>2. record # {} => entry \in c.dispatched /\ record = {entry} /\ entry.count \in Nat
  <2>1. record # {} => entry \in record
    OBVIOUS
  <2>2. \A d, e \in record : d = e
    BY DEF Books, Records
  <2>3. \A d \in record : d \in c.dispatched
    OBVIOUS
  <2>. HIDE DEF record, entry
  <2>. QED BY <1>1, <2>1, <2>2, <2>3
<1>3. /\ popped.dispatched = c.dispatched \ record
      /\ popped.samples_on_the_fly = IF record = {} THEN c.samples_on_the_fly
                                     ELSE c.samples_on_the_fly - entry.count
      /\ popped.current_step = c.current_step
      /\ popped.rollout_buffer = c.rollout_buffer
      /\ popped.remain_samples_num = c.remain_samples_num
      /\ popped.policies = c.policies /\ popped.discard_reports = c.discard_reports
  <2>. HIDE DEF record, entry
  <2>. QED BY DEF Books, ControllerTypeOK, Fields
<1>4. ControllerTypeOK(popped)
  <2>. HIDE DEF record, entry
  <2>1. c.dispatched \ record \in SUBSET DispatchRecord
    BY <1>1
  <2>2. (IF record = {} THEN c.samples_on_the_fly
         ELSE c.samples_on_the_fly - entry.count) \in Int
    BY <1>1, <1>2
  <2>. QED BY <2>1, <2>2 DEF Books, ControllerTypeOK, Fields
<1>. HIDE DEF popped, record, entry
<1>5. Records(popped)
  <2>1. IsFiniteSet(popped.dispatched)
    BY <1>1, <1>3, FS_Subset
  <2>. QED BY <1>1, <1>3, <2>1 DEF Books, Records
<1>6. popped.samples_on_the_fly = n + popped.rollout_buffer + InSteps(popped)
        /\ popped.samples_on_the_fly <= c.samples_on_the_fly
  <2>1. CASE record = {}
    <3>1. popped.dispatched = c.dispatched
      BY <1>3, <2>1
    <3>. QED BY <1>1, <1>3, <2>1, <3>1 DEF InSteps
  <2>2. CASE record # {}
    <3>. DEFINE S == c.dispatched \ {entry}
                f == [d \in S |-> d.count]
                g == [d \in c.dispatched |-> d.count]
    <3>1. /\ IsFiniteSet(S) /\ entry \notin S /\ c.dispatched = S \cup {entry}
          /\ popped.dispatched = S
      BY <1>1, <1>2, <1>3, <2>2, FS_RemoveElement
    <3>2. f \in [S -> Nat] /\ g \in [S \cup {entry} -> Nat]
      BY <1>1, <3>1
    <3>3. (\A d \in S : g[d] = f[d]) /\ g[entry] = entry.count
      BY <1>2, <2>2
    <3>4. InSteps(c) = SumFunction(g) /\ InSteps(popped) = SumFunction(f)
      BY <3>1 DEF InSteps
    <3>. HIDE DEF f, g, S
    <3>5. SumFunction(g) = SumFunction(f) + g[entry]
      BY <3>1, <3>2, <3>3, SumAdd
    <3>6. SumFunction(f) \in Nat
      BY <3>1, <3>2, SumType
    <3>. QED BY <1>1, <1>2, <1>3, <2>2, <3>3, <3>4, <3>5, <3>6
  <2>. QED BY <2>1, <2>2
<1>7. popped.samples_on_the_fly <= c0.samples_on_the_fly
  BY <1>1, <1>4, <1>6 DEF Books, ControllerTypeOK
<1>8. Books(popped, c0, n, m)
  BY <1>3, <1>4, <1>5, <1>6, <1>7 DEF Books
<1>. QED BY <1>3, <1>8 DEF popped, record, entry

(* Recording an ACK touches the books only through the dropped buffer.     *)
LEMMA RecordBooks ==
  ASSUME NEW c, NEW c0, NEW n \in Nat, NEW m \in Nat, Books(c, c0, n, m),
         NEW step \in Nat, NEW total \in Int
  PROVE  LET d == record_real_datafetch_acked(c, step, total)
         IN Books(d, c0, n, m) /\ d.policies = c.policies
<1>. DEFINE a == [c EXCEPT !.acked_step = step, !.acked_total_steps = total]
            t == [a EXCEPT !.terminal_complete = TRUE]
<1>0. ControllerTypeOK(c)
  BY DEF Books
<1>1. ControllerTypeOK(a) /\ ControllerTypeOK(t)
  BY <1>0 DEF ControllerTypeOK, Fields
<1>2. SameBooks(c, a) /\ SameBooks(c, t)
  BY <1>0 DEF SameBooks, ControllerTypeOK, Fields
<1>3. record_real_datafetch_acked(c, step, total) \in {a, cleanup_buffered_rollouts(t)}
  BY DEF record_real_datafetch_acked
<1>. HIDE DEF a, t
<1>4. Books(a, c0, n, m) /\ Books(t, c0, n, m)
  BY <1>1, <1>2, BooksFrame
<1>5. Books(cleanup_buffered_rollouts(t), c0, n, m)
  BY <1>4, CleanupBooks
<1>6. cleanup_buffered_rollouts(t).policies = t.policies
  BY <1>1 DEF cleanup_buffered_rollouts, _settle_samples_on_the_fly, ControllerTypeOK, Fields
<1>. QED BY <1>2, <1>3, <1>4, <1>5, <1>6 DEF SameBooks

(* Settling a step, with the weight sync and the next dispatch.            *)
LEMMA SettleStepBooks ==
  ASSUME NEW c, NEW c0, NEW n \in Nat, NEW m \in Nat, Books(c, c0, n, m),
         c.policies # {}, NEW step \in Nat, NEW total \in Int
  PROVE  Books(settle_step(c, step, total), c0, n, m)
<1>. DEFINE record == {d \in c.dispatched : d.step = step}
            popped == [c EXCEPT
                         !.dispatched = @ \ record,
                         !.samples_on_the_fly =
                           IF record = {} THEN @
                           ELSE @ - (CHOOSE d \in record : TRUE).count]
            counted == IF record = {} THEN popped
                       ELSE record_real_datafetch_acked(popped, step, total)
            ready == [counted EXCEPT !.status = set_all_status(counted, "READY")]
            synced == IF should_weight_sync_after_train_ack(counted, step)
                      THEN trigger_weight_sync(ready, step) ELSE ready
<1>1. Books(popped, c0, n, m) /\ popped.policies = c.policies
  BY PopBooks
<1>. HIDE DEF popped, record
<1>2. Books(counted, c0, n, m) /\ counted.policies = c.policies
  BY <1>1, RecordBooks
<1>. HIDE DEF counted
<1>3. Books(ready, c0, n, m) /\ ready.policies = c.policies
  <2>0. ControllerTypeOK(counted)
    BY <1>2 DEF Books
  <2>1. set_all_status(counted, "READY") \in [Policies -> Status]
    BY <2>0, StatusType DEF Status
  <2>2. ControllerTypeOK(ready)
    BY <2>0, <2>1 DEF ControllerTypeOK, Fields
  <2>3. SameBooks(counted, ready)
    BY <2>0 DEF SameBooks, ControllerTypeOK, Fields
  <2>. QED BY <1>2, <2>2, <2>3, BooksFrame DEF SameBooks
<1>. HIDE DEF ready
<1>4. Books(synced, c0, n, m)
  BY <1>3, OtherBooks
<1>5. settle_step(c, step, total) =
        IF synced.job_phase = "DRAINING" THEN finish_draining_phase(synced)
        ELSE try_trigger_data_fetch_and_training(synced)
  BY DEF settle_step, popped, counted, ready, record
<1>. HIDE DEF synced
<1>. QED BY <1>4, <1>5, FinishBooks, TriggerBooks

(* The whole handler of an ACK.                                            *)
LEMMA TrainAckBooks ==
  ASSUME NEW c, NEW c0, NEW n \in Nat, NEW m \in Nat, Books(c, c0, n, m),
         NEW p \in c.policies, NEW step \in Nat, NEW total \in Int
  PROVE  Books(train_ack(c, p, step, total), c0, n, m)
<1>. DEFINE reduced == [c EXCEPT !.status[p] = "REDUCED"]
<1>0. ControllerTypeOK(c) /\ p \in Policies
  BY DEF Books, ControllerTypeOK
<1>1. [c.status EXCEPT ![p] = "REDUCED"] \in [Policies -> Status]
  BY <1>0 DEF ControllerTypeOK, Status
<1>2. ControllerTypeOK(reduced) /\ SameBooks(c, reduced)
  BY <1>0, <1>1 DEF SameBooks, ControllerTypeOK, Fields
<1>. HIDE DEF reduced
<1>3. Books(reduced, c0, n, m) /\ reduced.policies # {}
  BY <1>2, BooksFrame DEF SameBooks
<1>4. Books(settle_step(reduced, step, total), c0, n, m)
  BY <1>3, SettleStepBooks
<1>5. Books(record_completion_ack(c, p), c0, n, m)
  BY <1>0, OtherBooks
<1>. QED BY <1>3, <1>4, <1>5 DEF train_ack, reduced

(* A post moves the kept samples from the worker to the buffer and takes   *)
(* the others off both books.                                              *)
LEMMA PutBooks ==
  ASSUME NEW c, NEW c0, NEW n \in Nat, NEW m \in Nat, NEW count \in Nat, NEW kept \in 0 .. count,
         Books(c, c0, n + count, m + count)
  PROVE  Books(put_rollout_group(c, count, kept), c0, n, m)
<1>. DEFINE f == filter_outdated_rollouts(c, count, kept)
            g == [f EXCEPT !.rollout_buffer = @ + kept]
            lost == count - kept
<1>0. /\ ControllerTypeOK(c) /\ c.rollout_buffer \in Nat /\ c.remain_samples_num \in Int
      /\ InSteps(c) \in Nat /\ c.samples_on_the_fly \in Int /\ lost \in Nat /\ kept \in Nat
      /\ c.remain_samples_num >= m + count + c.rollout_buffer
      /\ c.samples_on_the_fly = n + count + c.rollout_buffer + InSteps(c)
  BY InStepsType DEF Books, ControllerTypeOK
<1>1. Books(_settle_samples_on_the_fly(c, count), c0, n, m)
  <2>1. Books(c, c0, n + count, m)
    BY <1>0 DEF Books
  <2>. QED BY <2>1, SettleBooks
<1>2. /\ f.dispatched = c.dispatched /\ f.current_step = c.current_step
      /\ f.rollout_buffer = c.rollout_buffer
      /\ f.remain_samples_num = c.remain_samples_num - lost
      /\ f.policies = c.policies /\ f.discard_reports = c.discard_reports
      /\ f.samples_on_the_fly = IF lost = 0 THEN c.samples_on_the_fly
                                ELSE IF c.samples_on_the_fly > lost
                                     THEN c.samples_on_the_fly - lost ELSE 0
  BY <1>0 DEF filter_outdated_rollouts, _settle_samples_on_the_fly, ControllerTypeOK, Fields
<1>3. ControllerTypeOK(f)
  BY <1>0 DEF filter_outdated_rollouts, _settle_samples_on_the_fly, ControllerTypeOK, Fields
<1>. HIDE DEF f
<1>4. /\ ControllerTypeOK(g) /\ g.rollout_buffer = c.rollout_buffer + kept
      /\ g.dispatched = f.dispatched /\ g.current_step = f.current_step
      /\ g.remain_samples_num = f.remain_samples_num
      /\ g.policies = f.policies /\ g.discard_reports = f.discard_reports
      /\ g.samples_on_the_fly = f.samples_on_the_fly
  BY <1>0, <1>2, <1>3 DEF ControllerTypeOK, Fields
<1>. HIDE DEF g
<1>5. /\ f.samples_on_the_fly = n + kept + c.rollout_buffer + InSteps(c)
      /\ f.samples_on_the_fly <= c.samples_on_the_fly
  BY <1>0, <1>2
<1>6. f.samples_on_the_fly <= c0.samples_on_the_fly
  BY <1>0, <1>3, <1>5 DEF Books, ControllerTypeOK
<1>7. InSteps(f) = InSteps(c) /\ InSteps(g) = InSteps(c) /\ Records(f) /\ Records(g)
  BY <1>2, <1>4 DEF InSteps, Books, Records
<1>8. /\ g.samples_on_the_fly = n + g.rollout_buffer + InSteps(g)
      /\ g.remain_samples_num >= m + g.rollout_buffer
      /\ kept = 0 => f.samples_on_the_fly = n + f.rollout_buffer + InSteps(f)
      /\ kept = 0 => f.remain_samples_num >= m + f.rollout_buffer
  BY <1>0, <1>2, <1>4, <1>5, <1>7
<1>9. Books(g, c0, n, m)
  BY <1>2, <1>4, <1>6, <1>7, <1>8 DEF Books
<1>10. kept = 0 => Books(f, c0, n, m)
  BY <1>2, <1>3, <1>6, <1>7, <1>8 DEF Books
<1>11. Books(try_trigger_data_fetch_and_training(g), c0, n, m)
  BY <1>9, TriggerBooks
<1>. QED BY <1>1, <1>10, <1>11 DEF put_rollout_group, f, g

(* The end of a rollout may start the drain; its reports are forgotten.    *)
LEMMA EndBooks ==
  ASSUME NEW c, NEW c0, NEW n \in Nat, NEW m \in Nat, Books(c, c0, n, m), NEW r \in Rollouts
  PROVE  Books(rollout_end(c, r), c0, n, m)
<1>. DEFINE e == [c EXCEPT !.ended = @ \cup {r}]
            f == finish_draining_phase(e)
            reports == {d \in f.discard_reports : d[1] # r}
<1>0. ControllerTypeOK(c)
  BY DEF Books
<1>1. ControllerTypeOK(e) /\ SameBooks(c, e)
  BY <1>0 DEF SameBooks, ControllerTypeOK, Fields
<1>. HIDE DEF e
<1>2. Books(f, c0, n, m)
  BY <1>1, BooksFrame, FinishBooks
<1>. HIDE DEF f
<1>3. ControllerTypeOK(f) /\ reports \in SUBSET f.discard_reports
  BY <1>2 DEF Books
<1>. HIDE DEF reports
<1>4. Books([f EXCEPT !.discard_reports = reports], c0, n, m)
  <2>. DEFINE g == [f EXCEPT !.discard_reports = reports]
  <2>1. ControllerTypeOK(g)
    BY <1>3 DEF ControllerTypeOK, Fields
  <2>2. /\ g.dispatched = f.dispatched /\ g.current_step = f.current_step
        /\ g.samples_on_the_fly = f.samples_on_the_fly
        /\ g.rollout_buffer = f.rollout_buffer
        /\ g.remain_samples_num = f.remain_samples_num
        /\ g.policies = f.policies /\ g.discard_reports = reports
    BY <1>3 DEF ControllerTypeOK, Fields
  <2>. HIDE DEF g
  <2>. QED BY <1>2, <1>3, <2>1, <2>2 DEF Books, Records, InSteps, g
<1>5. forget_discard_reports(f, r) = [f EXCEPT !.discard_reports = reports]
  BY DEF forget_discard_reports, reports
<1>. QED BY <1>4, <1>5 DEF rollout_end, e, f

(* A policy that leaves takes nothing with it.                             *)
LEMMA LeaveBooks ==
  ASSUME NEW c, NEW c0, NEW n, NEW m, Books(c, c0, n, m), NEW p \in Policies
  PROVE  Books(unregister_policy(c, p), c0, n, m)
<1>. DEFINE d == [c EXCEPT !.policies = @ \ {p}]
<1>0. ControllerTypeOK(c)
  BY DEF Books
<1>1. ControllerTypeOK(d)
  BY <1>0 DEF ControllerTypeOK, Fields
<1>2. /\ d.dispatched = c.dispatched /\ d.current_step = c.current_step
      /\ d.samples_on_the_fly = c.samples_on_the_fly
      /\ d.rollout_buffer = c.rollout_buffer
      /\ d.remain_samples_num = c.remain_samples_num
      /\ d.policies = c.policies \ {p} /\ d.discard_reports = c.discard_reports
  BY <1>0 DEF ControllerTypeOK, Fields
<1>. HIDE DEF d
<1>3. Books(d, c0, n, m)
  BY <1>1, <1>2 DEF Books, Records, InSteps
<1>. QED BY <1>3, OtherBooks DEF unregister_policy, d

-----------------------------------------------------------------------------
(* The books of the job *)

(* Samples at the workers and samples still to come, for a queue q, the    *)
(* generated prompts d, the lost ones x and the prompts left.              *)
Held(q, d, x) == SumFunction([r \in Rollouts |-> q[r] + d[r] + x[r]])
Owed(q, d) == SumFunction([r \in Rollouts |-> q[r] + d[r]])

(* A report id on file is never the one of a report still to be sent.      *)
Reports ==
  \A d \in ctl.discard_reports :
    /\ d[2] <= report_id[d[1]]
    /\ discard[d[1]] > 0 => d[2] < report_id[d[1]]

Accounts ==
  /\ Books(ctl, ctl, NGen * Held(queue, done, discard), NGen * (prompts + Owed(queue, done)))
  /\ Reports

Amounts == [Rollouts -> Nat]

(* The two sums are natural numbers.                                       *)
LEMMA HeldType ==
  ASSUME NEW q \in Amounts, NEW d \in Amounts, NEW x \in Amounts
  PROVE  Held(q, d, x) \in Nat /\ Owed(q, d) \in Nat
<1>1. /\ [r \in Rollouts |-> q[r] + d[r] + x[r]] \in [Rollouts -> Nat]
      /\ [r \in Rollouts |-> q[r] + d[r]] \in [Rollouts -> Nat]
  BY DEF Amounts
<1>. QED BY <1>1, SumType, ReplicaAssumption DEF Held, Owed

(* When the amounts of only one worker change, the sums follow.            *)
LEMMA HeldUpdate ==
  ASSUME TypeOK, TypeOK', NEW r \in Rollouts,
         \A y \in Rollouts : y # r =>
           queue'[y] = queue[y] /\ done'[y] = done[y] /\ discard'[y] = discard[y]
  PROVE  /\ Held(queue', done', discard') + (queue[r] + done[r] + discard[r])
              = Held(queue, done, discard) + (queue'[r] + done'[r] + discard'[r])
         /\ Owed(queue', done') + (queue[r] + done[r])
              = Owed(queue, done) + (queue'[r] + done'[r])
<1>. DEFINE f == [y \in Rollouts |-> queue[y] + done[y] + discard[y]]
            f1 == [y \in Rollouts |-> queue'[y] + done'[y] + discard'[y]]
            g == [y \in Rollouts |-> queue[y] + done[y]]
            g1 == [y \in Rollouts |-> queue'[y] + done'[y]]
<1>1. /\ f \in [Rollouts -> Nat] /\ f1 \in [Rollouts -> Nat]
      /\ g \in [Rollouts -> Nat] /\ g1 \in [Rollouts -> Nat]
  BY DEF TypeOK
<1>2. /\ \A y \in Rollouts : y # r => f1[y] = f[y]
      /\ \A y \in Rollouts : y # r => g1[y] = g[y]
  OBVIOUS
<1>3. /\ f[r] = queue[r] + done[r] + discard[r] /\ f1[r] = queue'[r] + done'[r] + discard'[r]
      /\ g[r] = queue[r] + done[r] /\ g1[r] = queue'[r] + done'[r]
  OBVIOUS
<1>4. /\ Held(queue, done, discard) = SumFunction(f)
      /\ Held(queue', done', discard') = SumFunction(f1)
      /\ Owed(queue, done) = SumFunction(g) /\ Owed(queue', done') = SumFunction(g1)
  BY DEF Held, Owed
<1>. HIDE DEF f, f1, g, g1
<1>5. SumFunction(f1) + f[r] = SumFunction(f) + f1[r]
  BY <1>1, <1>2, SumUpdate, ReplicaAssumption
<1>6. SumFunction(g1) + g[r] = SumFunction(g) + g1[r]
  BY <1>1, <1>2, SumUpdate, ReplicaAssumption
<1>. QED BY <1>3, <1>4, <1>5, <1>6

(* What a step other than a prompt fetch may do to the books.              *)
Settled ==
  /\ Accounts'
  /\ ctl'.samples_on_the_fly <= ctl.samples_on_the_fly
  /\ ctl'.policies \subseteq ctl.policies

(* A step that leaves the workers' prompts alone.                          *)
LEMMA ControllerSettles ==
  ASSUME TypeOK, Accounts, UNCHANGED <<prompts, queue, done, discard, report_id>>,
         Books(ctl', ctl, NGen * Held(queue, done, discard), NGen * (prompts + Owed(queue, done)))
  PROVE  Settled
<1>1. ControllerTypeOK(ctl')
  BY DEF Books
<1>2. Books(ctl', ctl', NGen * Held(queue, done, discard), NGen * (prompts + Owed(queue, done)))
  BY <1>1 DEF Books, ControllerTypeOK
<1>3. ctl'.discard_reports \subseteq ctl.discard_reports
  BY DEF Books
<1>4. Reports'
  BY <1>3 DEF Accounts, Reports
<1>. QED BY <1>2, <1>4 DEF Settled, Accounts, Books

(* The amounts are naturals, and so are the books kept in samples.         *)
LEMMA AmountTypes ==
  ASSUME TypeOK
  PROVE  /\ queue \in Amounts /\ done \in Amounts /\ discard \in Amounts
         /\ NGen * Held(queue, done, discard) \in Nat
         /\ NGen * (prompts + Owed(queue, done)) \in Nat
<1>1. queue \in Amounts /\ done \in Amounts /\ discard \in Amounts /\ prompts \in Nat
  BY DEF TypeOK, Amounts
<1>2. Held(queue, done, discard) \in Nat /\ Owed(queue, done) \in Nat
  BY <1>1, HeldType
<1>3. NGen \in Nat
  BY ConfigAssumption
<1>4. prompts + Owed(queue, done) \in Nat
  BY <1>1, <1>2
<1>5. \A a, b \in Nat : a * b \in Nat
  OBVIOUS
<1>. QED BY <1>1, <1>2, <1>3, <1>4, <1>5

(* Every step of a policy worker keeps the books.                          *)
LEMMA PolicySettles ==
  ASSUME TypeOK, WorkerBusy, Accounts, NEW p \in Policies, PolicyStep(p)
  PROVE  Settled
<1>. DEFINE n == NGen * Held(queue, done, discard)
            m == NGen * (prompts + Owed(queue, done))
<1>0. UNCHANGED <<prompts, queue, done, discard, report_id>>
  BY DEF PolicyStep, ExecuteCommand, TrainAck, UnregisterPolicy, ReapPolicy, CrashPolicy,
         PolicyToRollout, rolloutVars
<1>1. n \in Nat /\ m \in Nat /\ Books(ctl, ctl, n, m) /\ ControllerTypeOK(ctl)
  BY AmountTypes DEF Accounts, TypeOK
<1>. SUFFICES Books(ctl', ctl, n, m)
  BY <1>0, ControllerSettles
<1>2. ControllerTypeOK(ctl')
  BY TypeStepPolicy DEF TypeOK
<1>. HIDE DEF n, m
<1>3. CASE SameBooks(ctl, ctl')
  BY <1>1, <1>2, <1>3, BooksFrame
<1>4. CASE ExecuteCommand(p)
  <2>1. SameBooks(ctl, ctl')
    BY <1>1, <1>4 DEF ExecuteCommand, SameBooks, ControllerTypeOK, Fields
  <2>. QED BY <1>3, <2>1
<1>5. CASE TrainAck(p)
  <2>1. cur[p] # None /\ cur[p].type # "P2R"
    BY <1>5 DEF TrainAck, WorkerBusy
  <2>. QED BY <1>1, <1>5, <2>1, CommandType, TrainAckBooks DEF TrainAck
<1>6. CASE UnregisterPolicy(p)
  <2>1. Books(unregister_policy(ctl, p), ctl, n, m)
    BY <1>1, LeaveBooks
  <2>. QED BY <1>6, <2>1, OtherBooks DEF UnregisterPolicy
<1>7. CASE ReapPolicy(p)
  BY <1>1, <1>7, LeaveBooks DEF ReapPolicy
<1>8. CASE CrashPolicy(p)
  BY <1>1, <1>8 DEF CrashPolicy
<1>9. ASSUME NEW r \in Rollouts, PolicyToRollout(p, r) PROVE Books(ctl', ctl, n, m)
  <2>1. SameBooks(ctl, ctl')
    BY <1>1, <1>9 DEF PolicyToRollout, SameBooks, ControllerTypeOK, Fields
  <2>. QED BY <1>3, <2>1
<1>. QED BY <1>4, <1>5, <1>6, <1>7, <1>8, <1>9 DEF PolicyStep

(* Training and the monitor keep the books.                                *)
LEMMA OtherSettles ==
  ASSUME TypeOK, WorkerBusy, Accounts,
         StepTraining \/ MonitorStop \/ MonitorFinalize \/ Exited \/ UNCHANGED vars
  PROVE  Settled
<1>. DEFINE n == NGen * Held(queue, done, discard)
            m == NGen * (prompts + Owed(queue, done))
<1>0. UNCHANGED <<prompts, queue, done, discard, report_id>>
  BY DEF StepTraining, MonitorStop, MonitorFinalize, Exited, vars, rolloutVars
<1>1. n \in Nat /\ m \in Nat /\ Books(ctl, ctl, n, m) /\ ControllerTypeOK(ctl)
  BY AmountTypes DEF Accounts, TypeOK
<1>. SUFFICES Books(ctl', ctl, n, m)
  BY <1>0, ControllerSettles
<1>. HIDE DEF n, m
<1>2. CASE MonitorStop
  BY <1>1, <1>2, OtherBooks DEF MonitorStop
<1>3. CASE MonitorFinalize
  BY <1>1, <1>3, OtherBooks DEF MonitorFinalize
<1>4. CASE ctl' = ctl
  BY <1>1, <1>4
<1>. QED BY <1>2, <1>3, <1>4 DEF StepTraining, Exited, vars

(* A fetch adds to the samples in flight what it adds to the queue.        *)
LEMMA FetchAccounts ==
  ASSUME TypeOK, TypeOK', Accounts, NEW r \in Rollouts, RequestNewPrompts(r)
  PROVE  LET granted == prompts_granted(ctl, FetchBatch, prompts)
         IN /\ Accounts' /\ ctl'.policies = ctl.policies /\ granted \in Nat
            /\ ctl'.samples_on_the_fly = ctl.samples_on_the_fly + granted * NGen
<1>. DEFINE granted == prompts_granted(ctl, FetchBatch, prompts)
            H == Held(queue, done, discard)
            O == Owed(queue, done)
            H1 == Held(queue', done', discard')
            O1 == Owed(queue', done')
<1>1. /\ queue \in Amounts /\ done \in Amounts /\ discard \in Amounts /\ prompts \in Nat
      /\ queue' \in Amounts /\ done' \in Amounts /\ discard' \in Amounts /\ prompts' \in Nat
  BY DEF TypeOK, Amounts
<1>2. granted \in 0 .. prompts
  BY FetchType, JobAssumption DEF TypeOK
<1>. HIDE DEF granted
<1>3. granted \in Nat /\ NGen \in Nat /\ granted * NGen \in Nat
  BY <1>1, <1>2, ConfigAssumption
<1>4. /\ queue[r] = 0 /\ queue'[r] = granted /\ done' = done /\ discard' = discard
      /\ \A y \in Rollouts : y # r => queue'[y] = queue[y]
      /\ prompts' = prompts - granted /\ report_id' = report_id
      /\ ctl' = fetch_prompts(ctl, granted)
  BY DEF RequestNewPrompts, TypeOK, granted, policyVars
<1>5. /\ H \in Nat /\ O \in Nat /\ H1 = H + granted /\ O1 = O + granted
  <2>1. H \in Nat /\ O \in Nat /\ H1 \in Nat /\ O1 \in Nat
    BY <1>1, HeldType
  <2>2. /\ H1 + (queue[r] + done[r] + discard[r]) = H + (queue'[r] + done'[r] + discard'[r])
        /\ O1 + (queue[r] + done[r]) = O + (queue'[r] + done'[r])
    <3>1. \A y \in Rollouts : y # r =>
            queue'[y] = queue[y] /\ done'[y] = done[y] /\ discard'[y] = discard[y]
      BY <1>4
    <3>. QED BY <3>1, HeldUpdate
  <2>3. done[r] \in Nat /\ discard[r] \in Nat
    BY <1>1 DEF Amounts
  <2>. HIDE DEF H, O, H1, O1
  <2>. QED BY <1>3, <1>4, <2>1, <2>2, <2>3
<1>. HIDE DEF H, O, H1, O1
<1>6. NGen * H1 = NGen * H + granted * NGen /\ NGen * (prompts' + O1) = NGen * (prompts + O)
  <2>1. prompts' + O1 = prompts + O
    BY <1>1, <1>2, <1>3, <1>4, <1>5
  <2>2. \A a, b, k \in Nat : k * (a + b) = k * a + b * k
    OBVIOUS
  <2>. QED BY <1>3, <1>5, <2>1, <2>2
<1>7. /\ ctl'.dispatched = ctl.dispatched /\ ctl'.current_step = ctl.current_step
      /\ ctl'.rollout_buffer = ctl.rollout_buffer
      /\ ctl'.remain_samples_num = ctl.remain_samples_num
      /\ ctl'.policies = ctl.policies /\ ctl'.discard_reports = ctl.discard_reports
      /\ ctl'.samples_on_the_fly = ctl.samples_on_the_fly + granted * NGen
  BY <1>4 DEF fetch_prompts, TypeOK, ControllerTypeOK, Fields
<1>8. /\ Books(ctl, ctl, NGen * H, NGen * (prompts + O)) /\ ControllerTypeOK(ctl')
      /\ InSteps(ctl) \in Nat /\ ctl.rollout_buffer \in Nat /\ NGen * H \in Nat
      /\ ctl'.samples_on_the_fly \in Int
  BY AmountTypes, InStepsType DEF Accounts, TypeOK, ControllerTypeOK, Books, H, O
<1>9. Books(ctl', ctl', NGen * H1, NGen * (prompts' + O1))
  <2>1. InSteps(ctl') = InSteps(ctl) /\ Records(ctl')
    BY <1>7, <1>8 DEF InSteps, Records, Books
  <2>2. ctl'.samples_on_the_fly = NGen * H1 + ctl'.rollout_buffer + InSteps(ctl')
    BY <1>3, <1>6, <1>7, <1>8, <2>1 DEF Books
  <2>. QED BY <1>6, <1>7, <1>8, <2>1, <2>2 DEF Books
<1>10. Reports'
  BY <1>4, <1>7 DEF Accounts, Reports
<1>. QED BY <1>3, <1>7, <1>9, <1>10 DEF Accounts, H1, O1, granted

(* Generation moves prompts within the worker; the lost ones are no longer *)
(* to come, and are reported under an id that is not on file.              *)
LEMMA GenerateSettles ==
  ASSUME TypeOK, TypeOK', Accounts, NEW r \in Rollouts, OneStepGeneration(r)
  PROVE  Settled
<1>. DEFINE H == Held(queue, done, discard)
            O == Owed(queue, done)
            H1 == Held(queue', done', discard')
            O1 == Owed(queue', done')
<1>1. /\ queue \in Amounts /\ done \in Amounts /\ discard \in Amounts /\ prompts \in Nat
      /\ queue' \in Amounts /\ done' \in Amounts /\ discard' \in Amounts
      /\ report_id \in Amounts /\ report_id' \in Amounts
  BY DEF TypeOK, Amounts
<1>2. PICK valid \in 0 .. queue[r] :
        /\ discard[r] = 0 /\ queue' = [queue EXCEPT ![r] = 0]
        /\ done' = [done EXCEPT ![r] = @ + valid]
        /\ discard' = [discard EXCEPT ![r] = queue[r] - valid]
        /\ report_id' = [report_id EXCEPT ![r] = IF valid < queue[r] THEN @ + 1 ELSE @]
        /\ ctl' = ctl /\ prompts' = prompts
  BY DEF OneStepGeneration
<1>3. /\ queue'[r] = 0 /\ done'[r] = done[r] + valid /\ discard'[r] = queue[r] - valid
      /\ \A y \in Rollouts : y # r => /\ queue'[y] = queue[y] /\ done'[y] = done[y]
                                      /\ discard'[y] = discard[y] /\ report_id'[y] = report_id[y]
      /\ report_id'[r] = IF valid < queue[r] THEN report_id[r] + 1 ELSE report_id[r]
      /\ queue[r] \in Nat /\ done[r] \in Nat /\ report_id[r] \in Nat
  BY <1>1, <1>2 DEF Amounts
<1>4. H1 = H /\ O1 <= O /\ H \in Nat /\ O \in Nat /\ O1 \in Nat
  <2>1. H \in Nat /\ O \in Nat /\ H1 \in Nat /\ O1 \in Nat
    BY <1>1, HeldType
  <2>2. /\ H1 + (queue[r] + done[r] + discard[r]) = H + (queue'[r] + done'[r] + discard'[r])
        /\ O1 + (queue[r] + done[r]) = O + (queue'[r] + done'[r])
    <3>1. \A y \in Rollouts : y # r =>
            queue'[y] = queue[y] /\ done'[y] = done[y] /\ discard'[y] = discard[y]
      BY <1>3
    <3>. QED BY <3>1, HeldUpdate
  <2>. HIDE DEF H, O, H1, O1
  <2>. QED BY <1>2, <1>3, <2>1, <2>2
<1>. HIDE DEF H, O, H1, O1
<1>5. NGen * (prompts + O1) <= NGen * (prompts + O)
        /\ NGen * (prompts + O1) \in Nat /\ NGen * (prompts + O) \in Nat
  <2>1. NGen \in Nat /\ prompts + O1 \in Nat /\ prompts + O \in Nat /\ prompts + O1 <= prompts + O
    BY <1>1, <1>4, ConfigAssumption
  <2>2. \A a, b, k \in Nat : a <= b => k * a <= k * b /\ k * a \in Nat /\ k * b \in Nat
    OBVIOUS
  <2>. QED BY <2>1, <2>2
<1>6. Books(ctl, ctl, NGen * H1, NGen * (prompts + O1))
  <2>1. Books(ctl, ctl, NGen * H, NGen * (prompts + O))
    BY DEF Accounts, H, O
  <2>2. ctl.remain_samples_num >= NGen * (prompts + O1) + ctl.rollout_buffer
    BY <1>5, <2>1 DEF Books, ControllerTypeOK
  <2>. QED BY <1>4, <2>1, <2>2 DEF Books
<1>7. Reports'
  <2>. SUFFICES ASSUME NEW d \in ctl.discard_reports
                PROVE  /\ d[2] <= report_id'[d[1]]
                       /\ discard'[d[1]] > 0 => d[2] < report_id'[d[1]]
    BY <1>2 DEF Reports
  <2>1. d[1] \in Rollouts /\ d[2] \in Nat
    BY DEF TypeOK, ControllerTypeOK
  <2>2. d[2] <= report_id[d[1]] /\ (discard[d[1]] > 0 => d[2] < report_id[d[1]])
    BY DEF Accounts, Reports
  <2>3. CASE d[1] = r
    BY <1>2, <1>3, <2>1, <2>2, <2>3
  <2>4. CASE d[1] # r
    BY <1>3, <2>1, <2>2, <2>4
  <2>. QED BY <2>3, <2>4
<1>. QED BY <1>2, <1>6, <1>7 DEF Settled, Accounts, H1, O1, Books, ControllerTypeOK

(* A discard report settles what the worker lost, once.                    *)
LEMMA DiscardSettles ==
  ASSUME TypeOK, TypeOK', Accounts, NEW r \in Rollouts, ReportDiscardedSamples(r)
  PROVE  Settled
<1>. DEFINE H == Held(queue, done, discard)
            O == Owed(queue, done)
            H1 == Held(queue', done', discard')
            O1 == Owed(queue', done')
            count == discard[r] * NGen
            s == _settle_samples_on_the_fly(ctl, count)
            entry == <<r, report_id[r]>>
<1>1. /\ queue \in Amounts /\ done \in Amounts /\ discard \in Amounts /\ prompts \in Nat
      /\ queue' \in Amounts /\ done' \in Amounts /\ discard' \in Amounts
      /\ NGen \in Nat \ {0} /\ discard[r] \in Nat \ {0} /\ report_id[r] \in Nat
  BY ConfigAssumption DEF TypeOK, Amounts, ReportDiscardedSamples
<1>2. /\ queue' = queue /\ done' = done /\ discard' = [discard EXCEPT ![r] = 0]
      /\ prompts' = prompts /\ report_id' = report_id
      /\ ctl' = settle_discarded_samples(ctl, r, report_id[r], count)
  BY DEF ReportDiscardedSamples, policyVars
<1>3. count \in Nat /\ count # 0 /\ entry \notin ctl.discard_reports
  <2>1. count \in Nat /\ count # 0
    BY <1>1
  <2>2. ASSUME entry \in ctl.discard_reports PROVE FALSE
    <3>1. report_id[r] < report_id[r]
      BY <1>1, <2>2 DEF Accounts, Reports
    <3>. QED BY <1>1, <3>1
  <2>. QED BY <2>1, <2>2
<1>4. ctl' = [s EXCEPT !.discard_reports = @ \cup {entry}]
  BY <1>2, <1>3 DEF settle_discarded_samples
<1>5. /\ H \in Nat /\ H1 \in Nat /\ O \in Nat /\ H = H1 + discard[r] /\ O1 = O
  <2>1. H \in Nat /\ O \in Nat /\ H1 \in Nat /\ O1 \in Nat
    BY <1>1, HeldType
  <2>2. discard'[r] = 0 /\ \A y \in Rollouts : y # r => discard'[y] = discard[y]
    BY <1>1, <1>2 DEF Amounts
  <2>3. H1 + (queue[r] + done[r] + discard[r]) = H + (queue'[r] + done'[r] + discard'[r])
    <3>1. \A y \in Rollouts : y # r =>
            queue'[y] = queue[y] /\ done'[y] = done[y] /\ discard'[y] = discard[y]
      BY <1>2, <2>2
    <3>. QED BY <3>1, HeldUpdate
  <2>4. queue[r] \in Nat /\ done[r] \in Nat
    BY <1>1 DEF Amounts
  <2>5. queue'[r] = queue[r] /\ done'[r] = done[r] /\ O1 = O
    BY <1>2
  <2>. HIDE DEF H, O, H1, O1
  <2>. QED BY <1>1, <2>1, <2>2, <2>3, <2>4, <2>5
<1>. HIDE DEF H, H1, O, O1
<1>6. NGen * H = NGen * H1 + count /\ NGen * H1 \in Nat
  <2>1. \A a, b, k \in Nat : k * (a + b) = k * a + b * k /\ k * a \in Nat
    OBVIOUS
  <2>. QED BY <1>1, <1>5, <2>1
<1>. HIDE DEF count
<1>7. Books(s, ctl, NGen * H1, NGen * (prompts + O1))
  <2>1. Books(ctl, ctl, NGen * H1 + count, NGen * (prompts + O1)) /\ NGen * (prompts + O1) \in Nat
    BY <1>5, <1>6, AmountTypes DEF Accounts, H, O
  <2>. QED BY <1>3, <1>6, <2>1, SettleBooks
<1>. HIDE DEF s
<1>8. ControllerTypeOK(s) /\ ControllerTypeOK(ctl')
  BY <1>7 DEF Books, TypeOK
<1>9. /\ ctl'.dispatched = s.dispatched /\ ctl'.current_step = s.current_step
      /\ ctl'.rollout_buffer = s.rollout_buffer
      /\ ctl'.remain_samples_num = s.remain_samples_num
      /\ ctl'.policies = s.policies /\ ctl'.samples_on_the_fly = s.samples_on_the_fly
      /\ ctl'.discard_reports = s.discard_reports \cup {entry}
  BY <1>4, <1>8 DEF ControllerTypeOK, Fields
<1>10. Books(ctl', ctl', NGen * H1, NGen * (prompts' + O1))
  BY <1>2, <1>7, <1>8, <1>9 DEF Books, Records, InSteps, ControllerTypeOK
<1>11. Reports'
  <2>. SUFFICES ASSUME NEW d \in ctl'.discard_reports
                PROVE  /\ d[2] <= report_id[d[1]]
                       /\ discard'[d[1]] > 0 => d[2] < report_id[d[1]]
    BY <1>2 DEF Reports
  <2>1. d[1] \in Rollouts /\ d[2] \in Nat
    BY <1>8 DEF ControllerTypeOK
  <2>2. CASE d = entry
    BY <1>1, <1>2, <2>2 DEF Amounts
  <2>3. CASE d \in ctl.discard_reports
    <3>1. d[2] <= report_id[d[1]] /\ (discard[d[1]] > 0 => d[2] < report_id[d[1]])
      BY <2>3 DEF Accounts, Reports
    <3>2. d[1] # r => discard'[d[1]] = discard[d[1]]
      BY <1>1, <1>2, <2>1 DEF Amounts
    <3>3. discard'[r] = 0
      BY <1>1, <1>2 DEF Amounts
    <3>. QED BY <3>1, <3>2, <3>3
  <2>. QED BY <1>7, <1>9, <2>2, <2>3 DEF Books
<1>12. ctl'.samples_on_the_fly <= ctl.samples_on_the_fly /\ ctl'.policies \subseteq ctl.policies
  BY <1>7, <1>9 DEF Books
<1>. QED BY <1>2, <1>10, <1>11, <1>12 DEF Settled, Accounts, H1, O1

(* A post takes the generated prompts off the worker.                      *)
LEMMA PostSettles ==
  ASSUME TypeOK, TypeOK', Accounts, NEW r \in Rollouts, ReportRollouts(r)
  PROVE  Settled
<1>. DEFINE H == Held(queue, done, discard)
            O == Owed(queue, done)
            H1 == Held(queue', done', discard')
            O1 == Owed(queue', done')
            count == done[r] * NGen
<1>1. /\ queue \in Amounts /\ done \in Amounts /\ discard \in Amounts /\ prompts \in Nat
      /\ queue' \in Amounts /\ done' \in Amounts /\ discard' \in Amounts
      /\ NGen \in Nat /\ done[r] \in Nat
  BY ConfigAssumption DEF TypeOK, Amounts
<1>2. PICK kept \in 0 .. count :
        /\ queue' = queue /\ discard' = discard /\ done' = [done EXCEPT ![r] = 0]
        /\ prompts' = prompts /\ report_id' = report_id
        /\ ctl' = put_rollout_group(ctl, count, kept)
  BY DEF ReportRollouts, policyVars
<1>3. /\ H \in Nat /\ H1 \in Nat /\ O \in Nat /\ O1 \in Nat
      /\ H = H1 + done[r] /\ O = O1 + done[r]
  <2>1. H \in Nat /\ O \in Nat /\ H1 \in Nat /\ O1 \in Nat
    BY <1>1, HeldType
  <2>2. done'[r] = 0 /\ \A y \in Rollouts : y # r => done'[y] = done[y]
    BY <1>1, <1>2 DEF Amounts
  <2>3. /\ H1 + (queue[r] + done[r] + discard[r]) = H + (queue'[r] + done'[r] + discard'[r])
        /\ O1 + (queue[r] + done[r]) = O + (queue'[r] + done'[r])
    <3>1. \A y \in Rollouts : y # r =>
            queue'[y] = queue[y] /\ done'[y] = done[y] /\ discard'[y] = discard[y]
      BY <1>2, <2>2
    <3>. QED BY <3>1, HeldUpdate
  <2>4. queue[r] \in Nat /\ discard[r] \in Nat
    BY <1>1 DEF Amounts
  <2>5. queue'[r] = queue[r] /\ discard'[r] = discard[r]
    BY <1>2
  <2>. HIDE DEF H, O, H1, O1
  <2>. QED BY <1>1, <2>1, <2>2, <2>3, <2>4, <2>5
<1>. HIDE DEF H, H1, O, O1
<1>4. /\ NGen * H = NGen * H1 + count /\ NGen * H1 \in Nat /\ count \in Nat
      /\ NGen * (prompts + O) = NGen * (prompts + O1) + count /\ NGen * (prompts + O1) \in Nat
  <2>1. \A a, b, k \in Nat : k * (a + b) = k * a + b * k /\ k * a \in Nat
    OBVIOUS
  <2>2. prompts + O1 \in Nat /\ prompts + O = (prompts + O1) + done[r]
    BY <1>1, <1>3
  <2>. QED BY <1>1, <1>3, <2>1, <2>2
<1>. HIDE DEF count
<1>5. Books(ctl', ctl, NGen * H1, NGen * (prompts + O1))
  <2>1. Books(ctl, ctl, NGen * H1 + count, NGen * (prompts + O1) + count)
    BY <1>4 DEF Accounts, H, O
  <2>. QED BY <1>2, <1>4, <2>1, PutBooks
<1>6. Books(ctl', ctl', NGen * H1, NGen * (prompts' + O1))
  BY <1>2, <1>5 DEF Books, ControllerTypeOK
<1>7. Reports'
  BY <1>2, <1>5 DEF Accounts, Reports, Books
<1>. QED BY <1>2, <1>5, <1>6, <1>7 DEF Settled, Accounts, Books, H1, O1

(* Every step of a rollout worker keeps the books; only a fetch raises the *)
(* samples in flight.                                                      *)
LEMMA RolloutSettles ==
  ASSUME TypeOK, TypeOK', WorkerBusy, Accounts, NEW r \in Rollouts, RolloutStep(r)
  PROVE  Settled \/ (RequestNewPrompts(r) /\ Accounts')
<1>. DEFINE n == NGen * Held(queue, done, discard)
            m == NGen * (prompts + Owed(queue, done))
<1>0. /\ n \in Nat /\ m \in Nat /\ Books(ctl, ctl, n, m)
      /\ ControllerTypeOK(ctl) /\ ControllerTypeOK(ctl')
  BY AmountTypes DEF Accounts, TypeOK
<1>1. CASE RequestNewPrompts(r)
  BY <1>1, FetchAccounts
<1>2. CASE OneStepGeneration(r)
  BY <1>2, GenerateSettles
<1>3. CASE ReportDiscardedSamples(r)
  BY <1>3, DiscardSettles
<1>4. CASE ReportRollouts(r)
  BY <1>4, PostSettles
<1>5. CASE SendEndSignal(r)
  <2>1. UNCHANGED <<prompts, queue, done, discard, report_id>>
    BY <1>5 DEF SendEndSignal
  <2>2. Books(ctl', ctl, n, m)
    <3>. HIDE DEF n, m
    <3>. QED BY <1>0, <1>5, EndBooks DEF SendEndSignal
  <2>. QED BY <2>1, <2>2, ControllerSettles
<1>6. CASE RolloutToRollout(r) \/ HandleStop(r)
  <2>1. UNCHANGED <<prompts, queue, done, discard, report_id>>
    BY <1>6 DEF RolloutToRollout, HandleStop, rolloutVars
  <2>2. SameBooks(ctl, ctl')
    BY <1>0, <1>6 DEF RolloutToRollout, HandleStop, SameBooks, ControllerTypeOK, Fields
  <2>3. Books(ctl', ctl, n, m)
    <3>. HIDE DEF n, m
    <3>. QED BY <1>0, <2>2, BooksFrame
  <2>. QED BY <2>1, <2>3, ControllerSettles
<1>7. CASE UnregisterRollout(r) \/ ReapRollout(r)
  <2>1. UNCHANGED <<prompts, queue, done, discard, report_id>>
    BY <1>7 DEF UnregisterRollout, ReapRollout, rolloutVars
  <2>2. Books(ctl', ctl, n, m)
    <3>. HIDE DEF n, m
    <3>1. Books(unregister_rollout(ctl, r), ctl, n, m)
      BY <1>0, OtherBooks
    <3>2. Books(_maybe_finalize(unregister_rollout(ctl, r), FALSE), ctl, n, m)
      BY <3>1, OtherBooks
    <3>. QED BY <1>7, <3>1, <3>2 DEF UnregisterRollout, ReapRollout
  <2>. QED BY <2>1, <2>2, ControllerSettles
<1>8. CASE CrashRollout(r)
  <2>1. UNCHANGED <<ctl, prompts, queue, done, discard, report_id>>
    BY <1>8 DEF CrashRollout
  <2>. QED BY <1>0, <2>1, ControllerSettles
<1>. QED BY <1>1, <1>2, <1>3, <1>4, <1>5, <1>6, <1>7, <1>8 DEF RolloutStep

(* Every step keeps the books.                                             *)
LEMMA AccountsStep ==
  ASSUME TypeOK, WorkerBusy, Accounts, [Next]_vars
  PROVE  Accounts' /\ (Settled \/ \E r \in Rollouts : RequestNewPrompts(r))
<1>1. TypeOK'
  BY TypeStep
<1>2. ASSUME NEW p \in Policies, PolicyStep(p) PROVE Settled
  BY <1>2, PolicySettles
<1>3. ASSUME NEW r \in Rollouts, RolloutStep(r)
      PROVE  Settled \/ (RequestNewPrompts(r) /\ Accounts')
  BY <1>1, <1>3, RolloutSettles
<1>4. ASSUME StepTraining \/ MonitorStop \/ MonitorFinalize \/ Exited \/ UNCHANGED vars
      PROVE  Settled
  BY <1>4, OtherSettles
<1>5. Settled \/ \E r \in Rollouts : (RequestNewPrompts(r) /\ Accounts')
  BY <1>2, <1>3, <1>4 DEF Next
<1>. QED BY <1>5 DEF Settled

(* The job starts with empty books and the whole dataset to come.          *)
LEMMA AccountsInit == ASSUME Init PROVE Accounts
<1>0. TypeOK
  BY TypeInit
<1>1. /\ ctl.dispatched = {} /\ ctl.samples_on_the_fly = 0 /\ ctl.rollout_buffer = 0
      /\ ctl.remain_samples_num = Prompts * NGen /\ ctl.discard_reports = {}
  BY DEF Init, InitController, recompute_total_steps
<1>2. /\ queue = [r \in Rollouts |-> 0] /\ done = [r \in Rollouts |-> 0]
      /\ discard = [r \in Rollouts |-> 0] /\ prompts = Prompts
  BY DEF Init
<1>3. InSteps(ctl) = 0 /\ Records(ctl)
  <2>1. [d \in {} |-> d.count] \in [{} -> Nat] /\ IsFiniteSet({})
    BY FS_EmptySet
  <2>2. SumFunction([d \in {} |-> d.count]) = 0
    BY <2>1, SumType
  <2>. QED BY <1>1, <2>1, <2>2 DEF InSteps, Records
<1>4. Held(queue, done, discard) = 0 /\ Owed(queue, done) = 0
  <2>. DEFINE z == [r \in Rollouts |-> 0]
  <2>1. SumFunction(z) = 0
    BY SumZero, ReplicaAssumption
  <2>2. [r \in Rollouts |-> queue[r] + done[r] + discard[r]] = z
          /\ [r \in Rollouts |-> queue[r] + done[r]] = z
    BY <1>2
  <2>. QED BY <2>1, <2>2 DEF Held, Owed
<1>5. Prompts \in Nat /\ NGen \in Nat
  BY JobAssumption, ConfigAssumption
<1>6. NGen * Held(queue, done, discard) = 0 /\ NGen * (prompts + Owed(queue, done)) = Prompts * NGen
  BY <1>2, <1>4, <1>5
<1>7. Books(ctl, ctl, 0, Prompts * NGen)
  <2>1. Prompts * NGen \in Nat
    BY <1>5
  <2>. QED BY <1>0, <1>1, <1>3, <2>1 DEF Books, TypeOK
<1>. QED BY <1>1, <1>6, <1>7 DEF Accounts, Reports

-----------------------------------------------------------------------------
(* Theorems *)

(* The books are kept throughout the job.                                  *)
LEMMA AccountsCorrect == Spec => []Accounts
<1>1. Init => TypeOK /\ WorkerBusy /\ Accounts
  BY TypeInit, AccountsInit
<1>2. TypeOK /\ WorkerBusy /\ Accounts /\ [Next]_vars => TypeOK' /\ WorkerBusy' /\ Accounts'
  BY TypeStep, AccountsStep
<1>. QED BY <1>1, <1>2, PTL DEF Spec

(* samples_on_the_fly counts exactly the samples between prompt fetch and  *)
(* settling ACK, however workers and policies interleave, crash or leave.  *)
THEOREM Conservation == Spec => []SamplesConserved
<1>1. Accounts => SamplesConserved
  BY DEF Accounts, Books, SamplesConserved, Held, InSteps
<1>. QED BY <1>1, AccountsCorrect, PTL

(* The step budget always covers the samples that may still be trained.    *)
THEOREM Coverage == Spec => []BudgetCovers
<1>1. Accounts => BudgetCovers
  BY DEF Accounts, Books, BudgetCovers, Owed
<1>. QED BY <1>1, AccountsCorrect, PTL

(* The throttles bound the samples in flight while every policy is there.  *)
(* Only a fetch adds samples, and it adds one batch when it finds fewer    *)
(* than the limit; every other step settles samples or leaves them.        *)
THEOREM Throttling == Spec => []ThrottleBound
<1>. DEFINE limit == IF FetchOutdated = 0 THEN AllowedOutdated + 1 ELSE MaxInflight
            roof == limit * (Batch * Cardinality(Policies))
            batch == FetchBatch * NGen
            Bounded == ctl.policies = Policies /\ limit # None =>
                         ctl.samples_on_the_fly < roof + batch
<1>1. limit \in Nat \cup {None} /\ (limit # None => roof \in Nat) /\ batch \in Nat \ {0}
      /\ FetchBatch \in Nat /\ NGen \in Nat
  <2>1. Cardinality(Policies) \in Nat
    BY ReplicaAssumption, FS_CardinalityType
  <2>2. Batch * Cardinality(Policies) \in Nat
    BY <2>1, ConfigAssumption
  <2>3. \A a, b \in Nat : a * b \in Nat
    OBVIOUS
  <2>4. \A a, b \in Nat \ {0} : a * b \in Nat \ {0}
    OBVIOUS
  <2>5. limit \in Nat \cup {None} /\ None \notin Nat
    BY ConfigAssumption, ReplicaAssumption
  <2>6. batch \in Nat \ {0}
    BY <2>4, ConfigAssumption, JobAssumption
  <2>. HIDE DEF limit
  <2>. QED BY <2>2, <2>3, <2>5, <2>6, ConfigAssumption, JobAssumption
<1>2. Bounded <=> ThrottleBound
  BY DEF ThrottleBound, required_rollouts, n_policy
<1>3. Init => Bounded
  <2>1. Init => ctl.samples_on_the_fly = 0
    BY DEF Init, InitController, recompute_total_steps
  <2>. HIDE DEF limit, roof, batch
  <2>. QED BY <1>1, <2>1
<1>4. ASSUME TypeOK, WorkerBusy, Accounts, Bounded, [Next]_vars
      PROVE  Bounded'
  <2>1. /\ TypeOK' /\ ctl.samples_on_the_fly \in Int /\ ctl'.samples_on_the_fly \in Int
        /\ ctl.policies \subseteq Policies
    BY <1>4, TypeStep DEF TypeOK, ControllerTypeOK
  <2>2. CASE Settled
    <3>1. ctl'.samples_on_the_fly <= ctl.samples_on_the_fly /\ ctl'.policies \subseteq ctl.policies
      BY <2>2 DEF Settled
    <3>2. ctl'.policies = Policies => ctl.policies = Policies
      BY <2>1, <3>1
    <3>. SUFFICES ASSUME ctl'.policies = Policies, limit # None
                  PROVE  ctl'.samples_on_the_fly < roof + batch
      OBVIOUS
    <3>3. ctl.samples_on_the_fly < roof + batch
      BY <1>4, <3>2
    <3>. HIDE DEF limit, roof, batch
    <3>. QED BY <1>1, <2>1, <3>1, <3>3
  <2>3. ASSUME NEW r \in Rollouts, RequestNewPrompts(r) PROVE Bounded'
    <3>. DEFINE granted == prompts_granted(ctl, FetchBatch, prompts)
    <3>1. /\ ctl'.policies = ctl.policies /\ granted \in Nat
          /\ ctl'.samples_on_the_fly = ctl.samples_on_the_fly + granted * NGen
      BY <1>4, <2>1, <2>3, FetchAccounts
    <3>2. granted <= FetchBatch
      BY <1>4, JobAssumption DEF TypeOK, prompts_granted, Smaller
    <3>3. granted * NGen <= batch /\ granted * NGen \in Nat
      <4>1. \A a, b, k \in Nat : a <= b => a * k <= b * k /\ a * k \in Nat
        OBVIOUS
      <4>. HIDE DEF granted
      <4>. QED BY <1>1, <3>1, <3>2, <4>1
    <3>4. ASSUME ctl.policies = Policies, limit # None, granted # 0
          PROVE  ctl.samples_on_the_fly < roof
      <4>1. /\ ~hard_throttled(ctl) /\ throttled_request(ctl, FetchBatch) # 0
        BY <3>4 DEF prompts_granted
      <4>2. required_rollouts(ctl) = Batch * Cardinality(Policies)
        BY <3>4 DEF required_rollouts, n_policy
      <4>3. CASE FetchOutdated = 0
        <5>1. Smaller(FetchBatch, 0) = 0
          BY JobAssumption DEF Smaller
        <5>2. ~(ctl.samples_on_the_fly >= (AllowedOutdated + 1) * (Batch * Cardinality(Policies)))
          BY <4>1, <4>2, <4>3, <5>1 DEF throttled_request
        <5>. QED BY <1>1, <2>1, <3>4, <4>3, <5>2
      <4>4. CASE FetchOutdated # 0
        <5>1. ~(ctl.samples_on_the_fly >= MaxInflight * (Batch * Cardinality(Policies)))
          BY <3>4, <4>1, <4>2, <4>4 DEF hard_throttled
        <5>. QED BY <1>1, <2>1, <3>4, <4>4, <5>1
      <4>. QED BY <4>3, <4>4
    <3>5. granted = 0 => granted * NGen = 0
      BY <1>1
    <3>. HIDE DEF limit, roof, batch, granted
    <3>. QED BY <1>1, <1>4, <2>1, <3>1, <3>3, <3>4, <3>5
  <2>. QED BY <1>4, <2>2, <2>3, AccountsStep
<1>5. TypeOK /\ WorkerBusy /\ Accounts /\ Bounded /\ [Next]_vars => Bounded'
  BY <1>4
<1>6. Init => TypeOK /\ WorkerBusy
  BY TypeInit
<1>7. TypeOK /\ WorkerBusy /\ [Next]_vars => TypeOK' /\ WorkerBusy'
  BY TypeStep
<1>. HIDE DEF Bounded
<1>. QED BY <1>2, <1>3, <1>5, <1>6, <1>7, AccountsCorrect, PTL DEF Spec
===============================================================================
