--------------------------- MODULE PromptFlowProofs ---------------------------
(***************************************************************************)
(* Proofs about module PromptFlow: the staleness bound and the version     *)
(* assertion hold for every batch size, group size, allowance and number   *)
(* of rollouts, losses and departures; a fetched batch asks for one        *)
(* version wherever the fetch size divides the prompts of a global batch.  *)
(*                                                                         *)
(* The last part is the balance of samples: what the controller counts as  *)
(* in flight is what the replicas, the buffer and the batch hold, so no    *)
(* decrement takes the count below zero, and every state is well typed.    *)
(***************************************************************************)
EXTENDS PromptFlow, SumProofs, SequenceTheorems

B == RolloutsPerBatch

(* The types of what carries versions.                                     *)
FlowType ==
  /\ current_step \in Nat
  /\ rollout_buffer \in Seq(Nat) /\ batch \in Seq(Nat)
  /\ prompts \in Nat /\ syncs \in Seq(Nat)
  /\ live \in [Rollouts -> Nat]
  /\ queue \in [Rollouts -> Seq(Nat)]
  /\ done \in [Rollouts -> Seq(Generation)]

(* The buffer is a queue of future batches: the i-th rollout is trained    *)
(* (i - 1) \div B steps after the next one, and is still fresh then.       *)
BufferFresh ==
  \A i \in 1 .. Len(rollout_buffer) :
    current_step + ((i - 1) \div B) - rollout_buffer[i] <= AllowedOutdated

(* No version anywhere is ahead of the trainer.                            *)
NoVersionAhead ==
  /\ \A i \in 1 .. Len(syncs) : syncs[i] <= current_step
  /\ \A r \in Rollouts : live[r] <= current_step
  /\ VersionNotAhead

FlowInv == FlowType /\ BufferFresh /\ StalenessBound /\ NoVersionAhead

-----------------------------------------------------------------------------
(* Integer division, for a divisor that is a constant of the model.        *)

(* A quotient is determined by its remainder's range.                      *)
LEMMA QuotientUnique ==
  ASSUME NEW n \in Nat \ {0}, NEW q1 \in Int, NEW q2 \in Int,
         NEW r1 \in 0 .. n - 1, NEW r2 \in 0 .. n - 1, n * q1 + r1 = n * q2 + r2
  PROVE  q1 = q2
<1>1. n * (q1 - q2) = r2 - r1
  BY SMT
<1>2. r2 - r1 < n /\ r2 - r1 > -n
  BY SMT
<1>3. ASSUME q1 - q2 >= 1 PROVE FALSE
  <2>1. n * (q1 - q2) >= n
    BY <1>3, SMT
  <2> QED BY <2>1, <1>1, <1>2, SMT
<1>4. ASSUME q2 - q1 >= 1 PROVE FALSE
  <2>1. n * (q2 - q1) >= n
    BY <1>4, SMT
  <2>2. n * (q2 - q1) = r1 - r2
    BY SMT
  <2> QED BY <2>1, <2>2, <1>2, SMT
<1> QED BY <1>3, <1>4, SMT

(* One batch further along the buffer is one step later.                   *)
LEMMA DivShift ==
  ASSUME NEW n \in Nat \ {0}, NEW m \in Nat
  PROVE  (m + n) \div n = (m \div n) + 1
<1> DEFINE q == m \div n
           r == m % n
           q2 == (m + n) \div n
           r2 == (m + n) % n
<1>1. q \in Int /\ r \in 0 .. n - 1 /\ m = n * q + r
  BY SMT
<1>2. q2 \in Int /\ r2 \in 0 .. n - 1 /\ m + n = n * q2 + r2
  BY SMT
<1>3. n * (q + 1) + r = n * q2 + r2
  BY <1>1, <1>2, SMT
<1> HIDE DEF q, r, q2, r2
<1>4. q + 1 = q2
  BY <1>1, <1>2, <1>3, QuotientUnique
<1> QED BY <1>4 DEF q, q2

(* The first batch of the buffer is the next step's.                       *)
LEMMA DivFirst ==
  ASSUME NEW n \in Nat \ {0}, NEW m \in 0 .. n - 1
  PROVE  m \div n = 0
<1> DEFINE q == m \div n
           r == m % n
<1>1. q \in Int /\ r \in 0 .. n - 1 /\ m = n * q + r
  BY SMT
<1>2. n * 0 + m = n * q + r
  BY <1>1, SMT
<1> HIDE DEF q, r
<1>3. q = 0
  BY <1>1, <1>2, QuotientUnique
<1> QED BY <1>3 DEF q

-----------------------------------------------------------------------------
(* The invariant step, action by action.                                   *)

(* What BufferFresh says of a buffer that is about to be stored.           *)
FreshBuffer(buf) ==
  \A i \in 1 .. Len(buf) :
    current_step + ((i - 1) \div B) - buf[i] <= AllowedOutdated

(* try_trigger_data_fetch_and_training keeps the bound, whether it starts  *)
(* a step or not: a step moves every rollout one batch closer to its turn. *)
LEMMA TriggerFresh ==
  ASSUME FlowInv, NEW buf \in Seq(Nat), FreshBuffer(buf), NEW idle \in BOOLEAN,
         try_trigger_data_fetch_and_training(buf, idle)
  PROVE  /\ current_step' \in Nat /\ current_step' >= current_step
         /\ rollout_buffer' \in Seq(Nat) /\ batch' \in Seq(Nat)
         /\ BufferFresh' /\ StalenessBound'
<1>0. /\ current_step \in Nat /\ batch \in Seq(Nat)
      /\ B \in Nat \ {0} /\ AllowedOutdated \in Nat
  BY FlowAssumption DEF FlowInv, FlowType, B
<1>1. CASE idle /\ ~training_finished /\ Len(buf) >= B
  <2>1. /\ current_step' = current_step + 1
        /\ batch' = SubSeq(buf, 1, B)
        /\ rollout_buffer' = SubSeq(buf, B + 1, Len(buf))
    BY <1>1 DEF try_trigger_data_fetch_and_training, B
  <2>2. batch' \in Seq(Nat) /\ Len(batch') = B /\ \A i \in 1 .. B : batch'[i] = buf[i]
    <3>1. \A i \in 1 .. B : buf[i] \in Nat
      BY <1>0, <1>1
    <3> QED BY <3>1, <1>0, <2>1, SubSeqProperties
  <2>3. /\ rollout_buffer' \in Seq(Nat) /\ Len(rollout_buffer') = Len(buf) - B
        /\ \A i \in 1 .. Len(rollout_buffer') : rollout_buffer'[i] = buf[i + B]
    <3>1. \A i \in B + 1 .. Len(buf) : buf[i] \in Nat
      BY <1>0, <1>1
    <3>2. /\ SubSeq(buf, B + 1, Len(buf)) \in Seq(Nat)
          /\ Len(SubSeq(buf, B + 1, Len(buf)))
               = IF B + 1 <= Len(buf) THEN Len(buf) - (B + 1) + 1 ELSE 0
          /\ \A i \in 1 .. Len(buf) - (B + 1) + 1 :
               SubSeq(buf, B + 1, Len(buf))[i] = buf[(B + 1) + i - 1]
      BY <3>1, <1>0, SubSeqProperties
    <3>3. Len(rollout_buffer') = Len(buf) - B
      BY <3>2, <2>1, <1>0, <1>1
    <3>4. \A i \in 1 .. Len(buf) - B : (B + 1) + i - 1 = i + B
      BY <1>0
    <3> QED BY <3>2, <3>3, <3>4, <2>1, <1>0
  <2>4. StalenessBound'
    <3>1. SUFFICES ASSUME NEW i \in 1 .. B
                   PROVE  current_step - buf[i] <= AllowedOutdated
      BY <1>0, <2>1, <2>2 DEF StalenessBound
    <3>2. current_step + ((i - 1) \div B) - buf[i] <= AllowedOutdated
      BY <1>0, <1>1 DEF FreshBuffer
    <3>3. (i - 1) \div B = 0
      <4>1. i - 1 \in 0 .. B - 1
        BY <1>0
      <4> QED BY <4>1, <1>0, DivFirst
    <3> QED BY <3>2, <3>3, <1>0, <1>1
  <2>5. BufferFresh'
    <3>1. SUFFICES ASSUME NEW i \in 1 .. Len(rollout_buffer')
                   PROVE  current_step + 1 + ((i - 1) \div B) - buf[i + B]
                            <= AllowedOutdated
      BY <1>0, <2>1, <2>3 DEF BufferFresh
    <3>2. i + B \in 1 .. Len(buf) /\ (i + B) - 1 = (i - 1) + B /\ i - 1 \in Nat
      BY <1>0, <2>3
    <3>3. current_step + (((i - 1) + B) \div B) - buf[i + B] <= AllowedOutdated
      BY <3>2 DEF FreshBuffer
    <3>4. ((i - 1) + B) \div B = ((i - 1) \div B) + 1
      BY <1>0, <3>2, DivShift
    <3>5. (i - 1) \div B \in Int /\ buf[i + B] \in Nat
      BY <1>0, <3>2
    <3>6. \A x, y, z \in Int :
            current_step + y - z <= AllowedOutdated /\ y = x + 1
              => current_step + 1 + x - z <= AllowedOutdated
      BY <1>0
    <3>7. ((i - 1) + B) \div B \in Int /\ buf[i + B] \in Int
      BY <3>4, <3>5
    <3> QED BY <3>3, <3>4, <3>5, <3>6, <3>7, Zenon
  <2> QED BY <1>0, <2>1, <2>2, <2>3, <2>4, <2>5
<1>2. CASE ~(idle /\ ~training_finished /\ Len(buf) >= B)
  <2>1. /\ current_step' = current_step /\ rollout_buffer' = buf
        /\ batch' = IF idle THEN <<>> ELSE batch
    BY <1>2 DEF try_trigger_data_fetch_and_training, B
  <2>2. BufferFresh'
    BY <2>1 DEF BufferFresh, FreshBuffer
  <2>3. batch' \in Seq(Nat) /\ StalenessBound'
    <3>1. CASE idle
      BY <2>1, <3>1, <1>0 DEF StalenessBound
    <3>2. CASE ~idle
      BY <2>1, <3>2, <1>0 DEF StalenessBound, FlowInv
    <3> QED BY <3>1, <3>2
  <2> QED BY <1>0, <2>1, <2>2, <2>3
<1> QED BY <1>1, <1>2

(* The versions of the generations waiting to be posted are numbers.       *)
LEMMA VersionsAreNat ==
  ASSUME FlowType
  PROVE  \A q \in Rollouts : \A i \in DOMAIN done[q] : done[q][i].version \in Nat
<1>1. ASSUME NEW q \in Rollouts, NEW i \in DOMAIN done[q]
      PROVE  done[q][i].version \in Nat
  <2>1. done[q] \in Seq(Generation)
    BY DEF FlowType
  <2>2. done[q][i] \in Generation
    BY <2>1
  <2> QED BY <2>2 DEF Generation
<1> QED BY <1>1

(* An action that leaves steps, buffer and batch alone keeps both bounds.  *)
LEMMA BoundsKept ==
  ASSUME BufferFresh, StalenessBound, UNCHANGED <<current_step, rollout_buffer, batch>>
  PROVE  BufferFresh' /\ StalenessBound'
BY DEF BufferFresh, StalenessBound

(* A training ACK publishes the version the trainer has reached.           *)
LEMMA TrainAckKeeps ==
  ASSUME FlowInv, TrainAck
  PROVE  FlowInv'
<1>1. FreshBuffer(rollout_buffer) /\ rollout_buffer \in Seq(Nat)
  BY DEF FlowInv, FlowType, BufferFresh, FreshBuffer
<1>2. try_trigger_data_fetch_and_training(rollout_buffer, TRUE)
  BY DEF TrainAck
<1>3. /\ current_step' \in Nat /\ current_step' >= current_step
      /\ rollout_buffer' \in Seq(Nat) /\ batch' \in Seq(Nat)
      /\ BufferFresh' /\ StalenessBound'
  BY <1>1, <1>2, TriggerFresh
<1>4. current_step \in Nat /\ syncs \in Seq(Nat)
  BY DEF FlowInv, FlowType
<1>5. syncs' \in Seq(Nat) /\ \A i \in 1 .. Len(syncs') : syncs'[i] <= current_step
  <2>1. CASE syncs' = syncs
    BY <2>1, <1>4 DEF FlowInv, NoVersionAhead
  <2>2. CASE syncs' = Append(syncs, current_step)
    BY <2>2, <1>4 DEF FlowInv, NoVersionAhead
  <2> QED BY <2>1, <2>2 DEF TrainAck
<1>6. FlowType'
  BY <1>3, <1>5 DEF TrainAck, FlowInv, FlowType
<1>7. NoVersionAhead'
  <2>1. \A i \in 1 .. Len(syncs') : syncs'[i] <= current_step'
    BY <1>3, <1>4, <1>5
  <2>2. \A r \in Rollouts : live'[r] <= current_step'
    BY <1>3, <1>4 DEF TrainAck, FlowInv, FlowType, NoVersionAhead
  <2>3. VersionNotAhead'
    <3>1. \A q \in Rollouts : \A i \in DOMAIN done[q] : done[q][i].version <= current_step
      BY DEF FlowInv, NoVersionAhead, VersionNotAhead
    <3>2. \A q \in Rollouts : \A i \in DOMAIN done[q] : done[q][i].version \in Nat
      BY VersionsAreNat DEF FlowInv
    <3>3. done' = done
      BY DEF TrainAck
    <3> QED BY <3>1, <3>2, <3>3, <1>3, <1>4 DEF VersionNotAhead
  <2> QED BY <2>1, <2>2, <2>3 DEF NoVersionAhead
<1> QED BY <1>3, <1>6, <1>7 DEF FlowInv

(* A fetch changes no version: it only tags prompts.                       *)
LEMMA RequestKeeps ==
  ASSUME FlowInv, NEW r \in Rollouts, RequestNewPrompts(r)
  PROVE  FlowInv'
<1> DEFINE n == IF FetchBatch <= prompts THEN FetchBatch ELSE prompts
<1>1. n \in Nat /\ n <= prompts /\ prompts \in Nat
  BY FlowAssumption DEF FlowInv, FlowType
<1>2. PICK tags \in [1 .. n -> 0 .. Prompts] : queue' = [queue EXCEPT ![r] = tags]
  BY DEF RequestNewPrompts
<1>3. prompts' = prompts - n
  BY DEF RequestNewPrompts
<1>4. tags \in Seq(Nat)
  BY <1>1, <1>2, FlowAssumption
<1>5. UNCHANGED <<current_step, rollout_buffer, batch, syncs, live, done>>
  BY DEF RequestNewPrompts
<1> HIDE DEF n
<1>6. queue' \in [Rollouts -> Seq(Nat)] /\ prompts' \in Nat
  BY <1>1, <1>2, <1>3, <1>4 DEF FlowInv, FlowType
<1>7. FlowType'
  BY <1>5, <1>6 DEF FlowInv, FlowType
<1>8. BufferFresh' /\ StalenessBound'
  BY <1>5, BoundsKept DEF FlowInv
<1>9. NoVersionAhead'
  BY <1>5 DEF FlowInv, NoVersionAhead, VersionNotAhead
<1> QED BY <1>7, <1>8, <1>9 DEF FlowInv

(* Generation stamps the live version, which is not ahead of the trainer.  *)
LEMMA GenerationKeeps ==
  ASSUME FlowInv, NEW r \in Rollouts, OneStepGeneration(r)
  PROVE  FlowInv'
<1>1. PICK k \in 0 .. Len(queue[r]) :
        /\ queue' = [queue EXCEPT ![r] = <<>>]
        /\ done' = IF k = Len(queue[r]) THEN done
                   ELSE [done EXCEPT ![r] = Append(@,
                           [version |-> actual_version(r),
                            count |-> (Len(queue[r]) - k) * NGen])]
        /\ UNCHANGED <<current_step, rollout_buffer, batch, prompts, syncs, live>>
  BY DEF OneStepGeneration
<1> DEFINE g == [version |-> actual_version(r), count |-> (Len(queue[r]) - k) * NGen]
<1>2. /\ queue[r] \in Seq(Nat) /\ live[r] \in Nat /\ done[r] \in Seq(Generation)
      /\ current_step \in Nat /\ done \in [Rollouts -> Seq(Generation)]
  BY DEF FlowInv, FlowType
<1>3. (Len(queue[r]) - k) * NGen \in Nat
  <2>1. Len(queue[r]) - k \in Nat /\ NGen \in Nat
    BY <1>1, <1>2, FlowAssumption
  <2> QED BY <2>1
<1>4. g \in Generation /\ g.version = live[r]
  BY <1>2, <1>3 DEF Generation, actual_version
<1>5. g.version <= current_step
  BY <1>4 DEF FlowInv, NoVersionAhead
<1>6. queue' \in [Rollouts -> Seq(Nat)]
  BY <1>1 DEF FlowInv, FlowType
<1> HIDE DEF g
<1>7. /\ done' \in [Rollouts -> Seq(Generation)]
      /\ \A q \in Rollouts : \A i \in 1 .. Len(done'[q]) : done'[q][i].version <= current_step
  <2>0. \A q \in Rollouts : \A i \in 1 .. Len(done[q]) : done[q][i].version <= current_step
    BY <1>2 DEF FlowInv, NoVersionAhead, VersionNotAhead
  <2>1. CASE done' = done
    BY <2>0, <2>1, <1>2
  <2>2. CASE done' = [done EXCEPT ![r] = Append(@, g)]
    <3>1. Append(done[r], g) \in Seq(Generation)
      BY <1>2, <1>4
    <3>2. \A i \in 1 .. Len(Append(done[r], g)) :
            Append(done[r], g)[i].version <= current_step
      BY <2>0, <1>2, <1>4, <1>5
    <3>3. \A q \in Rollouts : done'[q] = IF q = r THEN Append(done[r], g) ELSE done[q]
      BY <2>2, <1>2
    <3>4. done' \in [Rollouts -> Seq(Generation)]
      BY <2>2, <3>1, <1>2
    <3> QED BY <2>0, <3>2, <3>3, <3>4
  <2> QED BY <1>1, <2>1, <2>2 DEF g
<1>8. FlowType'
  BY <1>1, <1>6, <1>7 DEF FlowInv, FlowType
<1>9. VersionNotAhead'
  BY <1>1, <1>7 DEF VersionNotAhead
<1>10. NoVersionAhead'
  BY <1>1, <1>9 DEF FlowInv, NoVersionAhead
<1>11. BufferFresh' /\ StalenessBound'
  BY <1>1, BoundsKept DEF FlowInv
<1> QED BY <1>8, <1>10, <1>11 DEF FlowInv

(* A stale batch is dropped without a trace in steps or versions.          *)
LEMMA DropKeeps ==
  ASSUME FlowInv, NEW r \in Rollouts, DropStaleBatch(r)
  PROVE  FlowInv'
<1>1. /\ UNCHANGED <<current_step, rollout_buffer, batch, prompts, syncs, live, done>>
      /\ queue' \in [Rollouts -> Seq(Nat)]
  BY DEF DropStaleBatch, FlowInv, FlowType
<1>2. FlowType'
  BY <1>1 DEF FlowInv, FlowType
<1>3. BufferFresh' /\ StalenessBound'
  BY <1>1, BoundsKept DEF FlowInv
<1>4. NoVersionAhead'
  BY <1>1 DEF FlowInv, NoVersionAhead, VersionNotAhead
<1> QED BY <1>2, <1>3, <1>4 DEF FlowInv

(* A post keeps only rollouts that will be fresh when their turn comes.    *)
LEMMA ReportKeeps ==
  ASSUME FlowInv, NEW r \in Rollouts, ReportRollouts(r)
  PROVE  FlowInv'
<1> DEFINE g == Head(done[r])
<1>0. /\ current_step \in Nat /\ rollout_buffer \in Seq(Nat)
      /\ done[r] \in Seq(Generation) /\ done[r] # <<>>
      /\ done \in [Rollouts -> Seq(Generation)]
  BY DEF ReportRollouts, FlowInv, FlowType
<1>1. g \in Generation
  BY <1>0, HeadTailProperties
<1>2. g.version \in Nat /\ g.count \in Nat
  BY <1>1 DEF Generation
<1>3. PICK kept \in 0 .. g.count :
        /\ \A idx \in 0 .. g.count - 1 : (idx < kept) = fresh(idx, g.version)
        /\ try_trigger_data_fetch_and_training(
             rollout_buffer \o [i \in 1 .. kept |-> g.version], batch = <<>>)
  BY DEF ReportRollouts
<1>4. done' = [done EXCEPT ![r] = Tail(@)] /\ UNCHANGED <<prompts, syncs, live, queue>>
  BY DEF ReportRollouts
<1> DEFINE new == [i \in 1 .. kept |-> g.version]
           buf == rollout_buffer \o new
<1> HIDE DEF g
<1>5. kept \in Nat /\ kept <= g.count
  BY <1>2, <1>3
<1>6. new \in Seq(Nat) /\ Len(new) = kept /\ \A i \in 1 .. kept : new[i] = g.version
  BY <1>2, <1>5
<1> HIDE DEF new
<1>7. /\ buf \in Seq(Nat) /\ Len(buf) = Len(rollout_buffer) + kept
      /\ \A i \in 1 .. Len(rollout_buffer) + kept :
           buf[i] = IF i <= Len(rollout_buffer) THEN rollout_buffer[i]
                    ELSE new[i - Len(rollout_buffer)]
  BY <1>0, <1>6, ConcatProperties
<1> HIDE DEF buf
<1>8. FreshBuffer(buf)
  <2>1. SUFFICES ASSUME NEW i \in 1 .. Len(buf)
                 PROVE  current_step + ((i - 1) \div B) - buf[i] <= AllowedOutdated
    BY DEF FreshBuffer
  <2>2. CASE i <= Len(rollout_buffer)
    <3>1. buf[i] = rollout_buffer[i] /\ i \in 1 .. Len(rollout_buffer)
      BY <1>0, <1>5, <1>7, <2>2
    <3> QED BY <3>1 DEF FlowInv, BufferFresh
  <2>3. CASE ~(i <= Len(rollout_buffer))
    <3> DEFINE idx == i - 1 - Len(rollout_buffer)
    <3>1. /\ idx \in 0 .. g.count - 1 /\ idx < kept
          /\ idx + Len(rollout_buffer) = i - 1
          /\ i - Len(rollout_buffer) \in 1 .. kept
      BY <1>0, <1>2, <1>5, <1>7, <2>3
    <3>2. buf[i] = g.version
      BY <3>1, <1>6, <1>7, <2>3, <1>0, <1>5
    <3>3. fresh(idx, g.version)
      BY <3>1, <1>3
    <3> HIDE DEF idx
    <3>4. (current_step + ((idx + Len(rollout_buffer)) \div B)) - g.version
            <= AllowedOutdated
      BY <3>3, Zenon DEF fresh, estimated_step, B
    <3>5. (current_step + ((i - 1) \div B)) - buf[i] <= AllowedOutdated
      BY <3>1, <3>2, <3>4, Zenon
    <3>6. (i - 1) \div B \in Int /\ buf[i] \in Int
      BY <1>2, <3>2, FlowAssumption DEF B
    <3>7. \A x, y \in Int : (current_step + x) - y = current_step + x - y
      BY <1>0
    <3> QED BY <3>5, <3>6, <3>7, Zenon
  <2> QED BY <2>2, <2>3
<1>9. try_trigger_data_fetch_and_training(buf, batch = <<>>)
  BY <1>3 DEF buf, new
<1>10. /\ current_step' \in Nat /\ current_step' >= current_step
       /\ rollout_buffer' \in Seq(Nat) /\ batch' \in Seq(Nat)
       /\ BufferFresh' /\ StalenessBound'
  <2>1. (batch = <<>>) \in BOOLEAN
    OBVIOUS
  <2> QED BY <1>7, <1>8, <1>9, <2>1, TriggerFresh
<1>11. /\ Tail(done[r]) \in Seq(Generation) /\ Len(Tail(done[r])) = Len(done[r]) - 1
       /\ \A i \in 1 .. Len(Tail(done[r])) : Tail(done[r])[i] = done[r][i + 1]
  BY <1>0, HeadTailProperties
<1>12. FlowType'
  BY <1>0, <1>4, <1>10, <1>11 DEF FlowInv, FlowType
<1>13. VersionNotAhead'
  <2>1. SUFFICES ASSUME NEW q \in Rollouts, NEW i \in DOMAIN done'[q]
                 PROVE  done'[q][i].version <= current_step'
    BY DEF VersionNotAhead
  <2>2. PICK j \in DOMAIN done[q] : done'[q][i] = done[q][j]
    <3>1. CASE q = r
      <4>1. i \in 1 .. Len(Tail(done[r])) /\ done'[q] = Tail(done[r])
        BY <3>1, <1>0, <1>4, <1>11
      <4>2. i + 1 \in DOMAIN done[r]
        BY <4>1, <1>0, <1>11
      <4> QED BY <3>1, <4>1, <4>2, <1>11
    <3>2. CASE q # r
      BY <3>2, <1>0, <1>4
    <3> QED BY <3>1, <3>2
  <2>3. done[q][j].version <= current_step /\ done[q][j].version \in Nat
    BY VersionsAreNat DEF FlowInv, NoVersionAhead, VersionNotAhead
  <2> QED BY <2>2, <2>3, <1>0, <1>10
<1>14. NoVersionAhead'
  <2>1. \A i \in 1 .. Len(syncs) : syncs[i] <= current_step'
    <3>1. \A i \in 1 .. Len(syncs) : syncs[i] \in Nat /\ syncs[i] <= current_step
      BY DEF FlowInv, FlowType, NoVersionAhead
    <3> QED BY <3>1, <1>0, <1>10
  <2>2. \A q \in Rollouts : live[q] <= current_step'
    BY <1>0, <1>10 DEF FlowInv, FlowType, NoVersionAhead
  <2> QED BY <2>1, <2>2, <1>4, <1>13 DEF NoVersionAhead
<1> QED BY <1>10, <1>12, <1>14 DEF FlowInv

(* A weight sync delivers a version the trainer had already reached.       *)
LEMMA WeightSyncKeeps ==
  ASSUME FlowInv, WeightSync
  PROVE  FlowInv'
<1>1. /\ syncs # <<>> /\ syncs' = Tail(syncs)
      /\ live' = [r \in Rollouts |-> IF r \in members THEN Head(syncs) ELSE live[r]]
      /\ UNCHANGED <<current_step, rollout_buffer, batch, prompts, queue, done>>
  BY DEF WeightSync, flowVars
<1>2. syncs \in Seq(Nat)
  BY DEF FlowInv, FlowType
<1>3. /\ Head(syncs) \in Nat /\ Tail(syncs) \in Seq(Nat)
      /\ Len(Tail(syncs)) = Len(syncs) - 1
      /\ \A i \in 1 .. Len(Tail(syncs)) : Tail(syncs)[i] = syncs[i + 1]
  BY <1>1, <1>2, HeadTailProperties
<1>4. 1 \in 1 .. Len(syncs) /\ Head(syncs) = syncs[1]
  BY <1>1, <1>2
<1>5. FlowType'
  BY <1>1, <1>3 DEF FlowInv, FlowType
<1>6. BufferFresh' /\ StalenessBound'
  BY <1>1, BoundsKept DEF FlowInv
<1>7. NoVersionAhead'
  <2>1. \A i \in 1 .. Len(syncs') : syncs'[i] <= current_step'
    BY <1>1, <1>2, <1>3 DEF FlowInv, NoVersionAhead
  <2>2. \A r \in Rollouts : live'[r] <= current_step'
    BY <1>1, <1>4 DEF FlowInv, NoVersionAhead
  <2>3. VersionNotAhead'
    BY <1>1 DEF FlowInv, NoVersionAhead, VersionNotAhead
  <2> QED BY <2>1, <2>2, <2>3 DEF NoVersionAhead
<1> QED BY <1>5, <1>6, <1>7 DEF FlowInv

(* Departures and idle steps touch nothing the invariant speaks of.        *)
LEMMA IdleKeeps ==
  ASSUME FlowInv,
         UNCHANGED <<current_step, rollout_buffer, batch, prompts, syncs, live, queue, done>>
  PROVE  FlowInv'
<1>1. FlowType' /\ NoVersionAhead'
  BY DEF FlowInv, FlowType, NoVersionAhead, VersionNotAhead
<1>2. BufferFresh' /\ StalenessBound'
  BY BoundsKept DEF FlowInv
<1> QED BY <1>1, <1>2 DEF FlowInv

-----------------------------------------------------------------------------

(* The initial state has an empty buffer and every version at 0.           *)
LEMMA FlowInit == Init => FlowInv
<1> SUFFICES ASSUME Init PROVE FlowInv
  OBVIOUS
<1>1. FlowType
  BY FlowAssumption DEF Init, FlowType
<1>2. BufferFresh /\ StalenessBound
  BY DEF Init, BufferFresh, StalenessBound
<1>3. NoVersionAhead
  BY DEF Init, NoVersionAhead, VersionNotAhead
<1> QED BY <1>1, <1>2, <1>3 DEF FlowInv

(* Every step of the sample flow keeps the invariant.                      *)
LEMMA FlowStep == FlowInv /\ [Next]_vars => FlowInv'
<1> SUFFICES ASSUME FlowInv, [Next]_vars PROVE FlowInv'
  OBVIOUS
<1>1. CASE TrainAck
  BY <1>1, TrainAckKeeps
<1>2. CASE WeightSync
  BY <1>2, WeightSyncKeeps
<1>3. CASE Finished \/ UNCHANGED vars
  BY <1>3, IdleKeeps DEF Finished, vars
<1>4. ASSUME NEW r \in Rollouts, RequestNewPrompts(r) PROVE FlowInv'
  BY <1>4, RequestKeeps
<1>5. ASSUME NEW r \in Rollouts, OneStepGeneration(r) PROVE FlowInv'
  BY <1>5, GenerationKeeps
<1>6. ASSUME NEW r \in Rollouts, DropStaleBatch(r) PROVE FlowInv'
  BY <1>6, DropKeeps
<1>7. ASSUME NEW r \in Rollouts, ReportRollouts(r) PROVE FlowInv'
  BY <1>7, ReportKeeps
<1>8. ASSUME NEW r \in Rollouts, Depart(r) PROVE FlowInv'
  BY <1>8, IdleKeeps DEF Depart, flowVars
<1> QED BY <1>1, <1>2, <1>3, <1>4, <1>5, <1>6, <1>7, <1>8 DEF Next

(* filter_outdated_rollouts is sound for every configuration: although it  *)
(* decides at arrival from an estimate, no rollout is ever trained more    *)
(* than allowed_outdated_steps versions after the weights that made it.    *)
THEOREM StalenessBounded == Spec => []StalenessBound
<1>1. FlowInv => StalenessBound
  BY DEF FlowInv
<1> QED BY FlowInit, FlowStep, <1>1, PTL DEF Spec

(* The assertion of filter_outdated_rollouts never fails: no rollout is    *)
(* posted with a version the trainer has not reached.                      *)
THEOREM NoVersionFromTheFuture == Spec => []VersionNotAhead
<1>1. FlowInv => VersionNotAhead
  BY DEF FlowInv, NoVersionAhead
<1> QED BY FlowInit, FlowStep, <1>1, PTL DEF Spec

-----------------------------------------------------------------------------
(* One version per fetched batch.  The quota of a version is the global    *)
(* batch size, and every fetch but the last takes FetchBatch prompts: if   *)
(* that divides the quota, a fetch finds a version either full or with     *)
(* room for all of it.                                                     *)

F == FetchBatch
G == global_batch_size

(* prompt_num counts whole fetches while there are prompts to fetch.       *)
WholeFetches ==
  /\ prompt_num \in [0 .. Prompts -> Nat]
  /\ prompts > 0 => \A v \in 0 .. Prompts : \E k \in Nat : prompt_num[v] = F * k

(* The tags of a waiting batch are the same.                               *)
SameTags == \A r \in Rollouts : \A i, j \in DOMAIN queue[r] : queue[r][i] = queue[r][j]

Aligned == FlowInv /\ members \subseteq Rollouts /\ WholeFetches /\ SameTags

(* Two multiples of n that differ are at least n apart.                    *)
LEMMA MultiplesApart ==
  ASSUME NEW n \in Nat \ {0}, NEW a \in Nat, NEW b \in Nat, n * a < n * b
  PROVE  n * a + n <= n * b
<1>1. a < b
  <2>1. ASSUME b <= a PROVE FALSE
    <3>1. n * (a - b) >= 0 /\ n * (a - b) = n * a - n * b
      BY <2>1, SMT
    <3> QED BY <3>1, SMT
  <2> QED BY <2>1, SMT
<1>2. n * (b - a) >= n /\ n * (b - a) = n * b - n * a
  BY <1>1, SMT
<1> QED BY <1>2, SMT

(* How often version v occurs among the first m tags.                      *)
Occurring(tags, m, v) == Cardinality({j \in 1 .. m : tags[j] = v})

(* All of them, or none.                                                   *)
LEMMA Occurrences ==
  ASSUME NEW tags, NEW m \in Nat, NEW v
  PROVE  /\ (\A j \in 1 .. m : tags[j] = v) => Occurring(tags, m, v) = m
         /\ (\A j \in 1 .. m : tags[j] # v) => Occurring(tags, m, v) = 0
<1>1. ASSUME \A j \in 1 .. m : tags[j] = v PROVE Occurring(tags, m, v) = m
  <2>1. {j \in 1 .. m : tags[j] = v} = 1 .. m
    BY <1>1
  <2>2. Cardinality(1 .. m) = m
    BY FS_Interval
  <2> QED BY <2>1, <2>2 DEF Occurring
<1>2. ASSUME \A j \in 1 .. m : tags[j] # v PROVE Occurring(tags, m, v) = 0
  <2>1. {j \in 1 .. m : tags[j] = v} = {}
    BY <1>2
  <2> QED BY <2>1, FS_EmptySet DEF Occurring
<1> QED BY <1>1, <1>2

(* get_batched_prompt tags a whole fetch with one version: were i the      *)
(* first tag that differs, the i - 1 prompts before it would have filled   *)
(* their version, which had room for FetchBatch of them.                   *)
LEMMA TagsEqual ==
  ASSUME Aligned, \E k \in Nat : G = F * k, prompts > 0,
         NEW n \in 1 .. F, NEW tags \in [1 .. n -> 0 .. Prompts], tagging(tags)
  PROVE  \A i \in 1 .. n : tags[i] = tags[1]
<1> DEFINE T == {i \in 1 .. n : tags[i] # tags[1]}
           w == tags[1]
<1>1. SUFFICES ASSUME T # {} PROVE FALSE
  OBVIOUS
<1>0. F \in Nat \ {0} /\ n \in Nat /\ n <= F
  BY FlowAssumption DEF F
<1>2. PICK i \in T : \A m \in T : ~(m < i)
  <2>1. T \subseteq Nat
    OBVIOUS
  <2> HIDE DEF T
  <2> QED BY <1>1, <2>1, LeastNumber
<1>3. i \in 2 .. n /\ tags[i] # w
  BY <1>0, <1>2
<1>4. \A j \in 1 .. i - 1 : tags[j] = w
  BY <1>0, <1>2, <1>3
<1>5. /\ next_open(counted(tags, 0), weight_version_for_current_batch, tags[1])
      /\ next_open(counted(tags, i - 1), tags[i - 1], tags[i])
  <2>1. 1 \in DOMAIN tags /\ i \in DOMAIN tags /\ i # 1 /\ 1 - 1 = 0
    BY <1>0, <1>3
  <2> QED BY <2>1 DEF tagging
<1>6. w \in 0 .. Prompts /\ tags[i] \in 0 .. Prompts /\ tags[i - 1] = w
  BY <1>0, <1>3, <1>4
<1>7. w < tags[i] /\ w \in w .. tags[i] - 1
  BY <1>3, <1>5, <1>6, FlowAssumption DEF next_open
<1>8. version_full(counted(tags, i - 1), w) /\ ~version_full(counted(tags, 0), w)
  BY <1>5, <1>6, <1>7 DEF next_open
<1>9. prompt_num[w] \in Nat
  BY <1>6 DEF Aligned, WholeFetches
<1>10. counted(tags, i - 1)[w] = prompt_num[w] + (i - 1)
  <2>1. i - 1 \in Nat
    BY <1>0, <1>3
  <2> HIDE DEF w, T
  <2>2. Occurring(tags, i - 1, w) = i - 1
    <3> DEFINE m == i - 1
    <3>1. m \in Nat /\ \A j \in 1 .. m : tags[j] = w
      BY <1>4, <2>1
    <3> HIDE DEF m
    <3>2. Occurring(tags, m, w) = m
      BY <3>1, Occurrences
    <3> QED BY <3>2 DEF m
  <2> QED BY <1>6, <2>2 DEF counted, Occurring
<1>11. counted(tags, 0)[w] = prompt_num[w]
  <2>1. \A j \in 1 .. 0 : tags[j] = w
    OBVIOUS
  <2> HIDE DEF w, T
  <2>2. Occurring(tags, 0, w) = 0
    BY <2>1, Occurrences
  <2> QED BY <1>6, <1>9, <2>2 DEF counted, Occurring
<1>12. PICK a \in Nat : prompt_num[w] = F * a
  BY <1>6 DEF Aligned, WholeFetches
<1>13. PICK b \in Nat : G = F * b
  OBVIOUS
<1>14. G \in Nat
  BY <1>0, <1>13
<1>15. F * a < F * b
  BY <1>8, <1>9, <1>11, <1>12, <1>13, <1>14 DEF version_full, G
<1>16. F * a + F <= F * b
  BY <1>0, <1>15, MultiplesApart
<1>17. prompt_num[w] + (i - 1) >= G
  BY <1>8, <1>10 DEF version_full, G
<1> HIDE DEF w, T
<1> QED BY <1>0, <1>3, <1>9, <1>12, <1>13, <1>14, <1>16, <1>17

(* request_new_prompts keeps the alignment: the batch it hands out has one *)
(* version and fills a whole fetch of it, unless it was the last one.      *)
LEMMA RequestAligned ==
  ASSUME Aligned, \E k \in Nat : G = F * k, NEW r \in Rollouts, RequestNewPrompts(r)
  PROVE  Aligned'
<1> DEFINE n == IF FetchBatch <= prompts THEN FetchBatch ELSE prompts
<1>1. FlowInv'
  BY RequestKeeps DEF Aligned
<1>0. F \in Nat \ {0} /\ prompts \in Nat /\ queue \in [Rollouts -> Seq(Nat)]
  BY FlowAssumption DEF F, Aligned, FlowInv, FlowType
<1>2. n > 0 /\ prompts' = prompts - n /\ members' = members
  BY DEF RequestNewPrompts
<1>3. n \in 1 .. F /\ prompts > 0 /\ (prompts - n > 0 => n = F)
  BY <1>0, <1>2 DEF F
<1>4. PICK tags \in [1 .. n -> 0 .. Prompts] :
        /\ queue' = [queue EXCEPT ![r] = tags]
        /\ \/ tagging(tags) /\ prompt_num' = counted(tags, n)
           \/ tags = [i \in 1 .. n |-> 0] /\ prompt_num' = prompt_num
  BY DEF RequestNewPrompts
<1> HIDE DEF n
<1>5. \A i \in 1 .. n : tags[i] = tags[1]
  <2>1. CASE tagging(tags)
    BY <1>3, <2>1, TagsEqual
  <2>2. CASE tags = [i \in 1 .. n |-> 0]
    BY <1>3, <2>2
  <2> QED BY <1>4, <2>1, <2>2
<1>6. SameTags'
  <2>1. SUFFICES ASSUME NEW q \in Rollouts, NEW i \in DOMAIN queue'[q],
                        NEW j \in DOMAIN queue'[q]
                 PROVE  queue'[q][i] = queue'[q][j]
    BY DEF SameTags
  <2>2. CASE q = r
    BY <1>0, <1>4, <1>5, <2>2
  <2>3. CASE q # r
    <3>1. queue'[q] = queue[q]
      BY <1>0, <1>4, <2>3
    <3> QED BY <2>1, <3>1 DEF Aligned, SameTags
  <2> QED BY <2>2, <2>3
<1>7. WholeFetches'
  <2>0. WholeFetches
    BY DEF Aligned
  <2>1. CASE prompt_num' = prompt_num
    BY <1>0, <1>2, <1>3, <2>0, <2>1 DEF WholeFetches
  <2>2. CASE prompt_num' = counted(tags, n)
    <3>1. \A v \in 0 .. Prompts :
            prompt_num'[v] = prompt_num[v] + (IF v = tags[1] THEN n ELSE 0)
      <4>1. SUFFICES ASSUME NEW v \in 0 .. Prompts
                     PROVE  prompt_num'[v] = prompt_num[v] + (IF v = tags[1] THEN n ELSE 0)
        OBVIOUS
      <4>2. n \in Nat
        BY <1>3
      <4>3. Occurring(tags, n, v) = IF v = tags[1] THEN n ELSE 0
        <5> DEFINE w == tags[1]
        <5>1. \A j \in 1 .. n : tags[j] = w
          BY <1>5
        <5> HIDE DEF w
        <5>2. Occurring(tags, n, v) = IF v = w THEN n ELSE 0
          BY <4>2, <5>1, Occurrences
        <5> QED BY <5>2 DEF w
      <4>4. prompt_num'[v] = prompt_num[v] + Occurring(tags, n, v)
        BY <2>2 DEF counted, Occurring
      <4> QED BY <4>3, <4>4
    <3>2. DOMAIN prompt_num' = 0 .. Prompts
          /\ prompt_num' = [v \in 0 .. Prompts |-> prompt_num'[v]]
      BY <2>2 DEF counted
    <3>3. \A v \in 0 .. Prompts : prompt_num'[v] \in Nat
      <4>1. \A v \in 0 .. Prompts : prompt_num[v] \in Nat
        BY <2>0 DEF WholeFetches
      <4>2. n \in Nat
        BY <1>3
      <4> QED BY <3>1, <4>1, <4>2
    <3>4. ASSUME prompts' > 0, NEW v \in 0 .. Prompts
          PROVE  \E k \in Nat : prompt_num'[v] = F * k
      <4>1. n = F
        BY <1>0, <1>2, <1>3, <3>4
      <4>2. PICK k \in Nat : prompt_num[v] = F * k
        BY <1>3, <2>0 DEF WholeFetches
      <4>3. F * (k + 1) = F * k + F
        BY <1>0
      <4>4. prompt_num'[v] = F * k \/ prompt_num'[v] = F * (k + 1)
        <5>1. prompt_num'[v] = prompt_num[v] + (IF v = tags[1] THEN n ELSE 0)
          BY <3>1
        <5>2. prompt_num[v] \in Nat
          BY <2>0 DEF WholeFetches
        <5> QED BY <5>1, <5>2, <4>1, <4>2, <4>3
      <4> QED BY <4>4
    <3> QED BY <3>2, <3>3, <3>4 DEF WholeFetches
  <2> QED BY <1>4, <2>1, <2>2
<1> QED BY <1>1, <1>2, <1>6, <1>7 DEF Aligned

(* A step that fetches nothing only empties queues.                        *)
LEMMA OthersAligned ==
  ASSUME Aligned, FlowInv', members' \subseteq members,
         UNCHANGED <<prompt_num, prompts>>,
         \A r \in Rollouts : queue'[r] = queue[r] \/ queue'[r] = <<>>
  PROVE  Aligned'
<1>1. WholeFetches'
  BY DEF Aligned, WholeFetches
<1>2. SameTags'
  BY DEF Aligned, SameTags
<1> QED BY <1>1, <1>2 DEF Aligned

(* At the start nothing is fetched.                                        *)
LEMMA AlignedInit == Init => Aligned
<1> SUFFICES ASSUME Init PROVE Aligned
  OBVIOUS
<1>1. F \in Nat
  BY FlowAssumption DEF F
<1>2. \A v \in 0 .. Prompts : prompt_num[v] = F * 0
  BY <1>1 DEF Init
<1>3. WholeFetches
  BY <1>2 DEF Init, WholeFetches
<1>4. SameTags
  BY DEF Init, SameTags
<1> QED BY <1>3, <1>4, FlowInit DEF Init, Aligned

(* Every step keeps the alignment.                                         *)
LEMMA AlignedStep ==
  ASSUME \E k \in Nat : G = F * k
  PROVE  Aligned /\ [Next]_vars => Aligned'
<1> SUFFICES ASSUME Aligned, [Next]_vars PROVE Aligned'
  OBVIOUS
<1>1. FlowInv'
  BY FlowStep DEF Aligned
<1>2. queue \in [Rollouts -> Seq(Nat)]
  BY DEF Aligned, FlowInv, FlowType
<1>3. CASE TrainAck \/ WeightSync \/ Finished \/ UNCHANGED vars
  <2>1. UNCHANGED <<members, prompt_num, prompts, queue>>
    BY <1>3 DEF TrainAck, WeightSync, Finished, vars
  <2> QED BY <1>1, <2>1, OthersAligned
<1>4. ASSUME NEW r \in Rollouts, RequestNewPrompts(r) PROVE Aligned'
  BY <1>4, RequestAligned
<1>5. ASSUME NEW r \in Rollouts, OneStepGeneration(r) \/ DropStaleBatch(r) PROVE Aligned'
  <2>1. /\ UNCHANGED <<members, prompt_num, prompts>>
        /\ queue' = [queue EXCEPT ![r] = <<>>]
    BY <1>5 DEF OneStepGeneration, DropStaleBatch
  <2>2. \A q \in Rollouts : queue'[q] = queue[q] \/ queue'[q] = <<>>
    BY <1>2, <2>1
  <2> QED BY <1>1, <2>1, <2>2, OthersAligned
<1>6. ASSUME NEW r \in Rollouts, ReportRollouts(r) \/ Depart(r) PROVE Aligned'
  <2>1. UNCHANGED <<prompt_num, prompts, queue>> /\ members' \subseteq members
    BY <1>6 DEF ReportRollouts, Depart
  <2> QED BY <1>1, <2>1, OthersAligned
<1> QED BY <1>3, <1>4, <1>5, <1>6 DEF Next

(* Equal tags are one version.                                             *)
LEMMA AlignedOneVersion == Aligned => OneVersionPerBatch
<1> SUFFICES ASSUME Aligned, NEW r \in members
             PROVE  Cardinality(Range(queue[r])) <= 1
  BY DEF OneVersionPerBatch
<1>1. r \in Rollouts /\ queue[r] \in Seq(Nat)
  BY DEF Aligned, FlowInv, FlowType
<1>2. CASE queue[r] = <<>>
  <2>1. Range(queue[r]) = {}
    BY <1>2 DEF Range
  <2> QED BY <2>1, FS_EmptySet
<1>3. CASE queue[r] # <<>>
  <2>1. 1 \in DOMAIN queue[r]
    BY <1>1, <1>3
  <2>2. Range(queue[r]) = {queue[r][1]}
    BY <1>1, <2>1 DEF Range, Aligned, SameTags
  <2>3. Cardinality({queue[r][1]}) = 1
    BY FS_Singleton
  <2> QED BY <2>2, <2>3
<1> QED BY <1>2, <1>3

(* _batch_requested_weight_version never meets a mixed batch when the      *)
(* fetch size divides the prompts of a global batch, whatever is lost,     *)
(* outdated or departs; where it does not divide them the code raises.     *)
THEOREM OneVersion ==
  ASSUME \E k \in Nat : global_batch_size = FetchBatch * k
  PROVE  Spec => []OneVersionPerBatch
<1>1. Aligned /\ [Next]_vars => Aligned'
  BY AlignedStep DEF F, G
<1> QED BY AlignedInit, AlignedOneVersion, <1>1, PTL DEF Spec

-----------------------------------------------------------------------------
(* The samples in flight *)

(* p adds up the counts of the generations d from the back: p[i] is what   *)
(* the i-th and the later ones hold.                                       *)
AddsUp(d, p) ==
  /\ d \in Seq(Generation) /\ p \in Seq(Nat)
  /\ Len(p) = Len(d) + 1 /\ p[Len(d) + 1] = 0
  /\ \A i \in 1 .. Len(d) : p[i] = d[i].count + p[i + 1]

(* A worker with the batch q and the generations d to post holds n samples.*)
Holds(q, d, n) == \E p : AddsUp(d, p) /\ n = Len(q) * NGen + p[1]

(* The counter is what the workers hold, what is buffered, and what is in  *)
(* training.                                                               *)
Balanced ==
  \E held \in [Rollouts -> Nat] :
    /\ \A r \in Rollouts : Holds(queue[r], done[r], held[r])
    /\ samples_on_the_fly = SumFunction(held) + Len(rollout_buffer) + Len(batch)

(* All of these are natural numbers.                                       *)
LEMMA AddsUpTypes ==
  ASSUME NEW d, NEW p, AddsUp(d, p)
  PROVE  /\ Len(d) \in Nat /\ p[1] \in Nat
         /\ \A i \in 1 .. Len(d) : d[i].count \in Nat /\ p[i] \in Nat /\ p[i + 1] \in Nat
<1>1. d \in Seq(Generation) /\ p \in Seq(Nat) /\ Len(p) = Len(d) + 1
  BY DEF AddsUp
<1>2. Len(d) \in Nat
  BY <1>1
<1>3. \A i \in 1 .. Len(d) + 1 : p[i] \in Nat
  BY <1>1, <1>2
<1>4. \A i \in 1 .. Len(d) : i \in 1 .. Len(d) + 1 /\ i + 1 \in 1 .. Len(d) + 1
  BY <1>2
<1>5. \A i \in 1 .. Len(d) : d[i] \in Generation
  BY <1>1
<1> QED BY <1>2, <1>3, <1>4, <1>5 DEF Generation

(* A product of sizes.                                                     *)
LEMMA Samples ==
  ASSUME NEW m \in Nat
  PROVE  m * NGen \in Nat /\ 0 * NGen = 0
BY FlowAssumption

(* A worker that holds nothing.                                            *)
LEMMA HoldsNothing == Holds(<<>>, <<>>, 0)
<1> DEFINE p == <<0>>
<1>1. AddsUp(<<>>, p) /\ p[1] = 0 /\ Len(<<>>) = 0
  BY DEF AddsUp
<1>2. 0 * NGen = 0
  BY Samples
<1> QED BY <1>1, <1>2 DEF Holds

(* Fetching q adds the samples its prompts will yield.                     *)
LEMMA HoldsFetched ==
  ASSUME NEW d, NEW n, Holds(<<>>, d, n), NEW q, Len(q) \in Nat
  PROVE  Holds(q, d, n + Len(q) * NGen)
<1> DEFINE x == Len(q) * NGen
<1>1. PICK p : AddsUp(d, p) /\ n = Len(<<>>) * NGen + p[1]
  BY DEF Holds
<1>2. n = 0 * NGen + p[1]
  BY <1>1
<1>3. p[1] \in Nat /\ x \in Nat /\ 0 * NGen = 0
  BY <1>1, AddsUpTypes, Samples
<1> HIDE DEF x
<1>4. n + x = x + p[1]
  BY <1>2, <1>3
<1> QED BY <1>1, <1>4 DEF Holds, x

(* Serving q, all but k of its prompts: the samples of those leave, the    *)
(* others wait to be posted.                                               *)
LEMMA HoldsServed ==
  ASSUME NEW q, Len(q) \in Nat, NEW d, NEW n, Holds(q, d, n), NEW k \in 0 .. Len(q),
         NEW g \in Generation, g.count = (Len(q) - k) * NGen
  PROVE  /\ Holds(<<>>, Append(d, g), n - k * NGen)
         /\ k = Len(q) => Holds(<<>>, d, n - k * NGen)
         /\ n \in Nat /\ k * NGen \in Nat /\ n - k * NGen \in Nat
<1>1. PICK p : AddsUp(d, p) /\ n = Len(q) * NGen + p[1]
  BY DEF Holds
<1> DEFINE a == Len(q) * NGen
           b == k * NGen
           c == (Len(q) - k) * NGen
<1>2. a \in Nat /\ b \in Nat /\ c \in Nat /\ a = b + c /\ (k = Len(q) => a = b)
  <2>1. Len(q) - k \in Nat /\ k \in Nat /\ NGen \in Nat
    BY FlowAssumption
  <2>2. a \in Nat /\ b \in Nat /\ c \in Nat
    BY <2>1, Samples
  <2>3. \A x, y, z \in Nat : (x - y) * z = x * z - y * z
    OBVIOUS
  <2>4. c = a - b
    BY <2>1, <2>3
  <2> HIDE DEF a, b, c
  <2>5. a = b + c
    BY <2>2, <2>4
  <2>6. k = Len(q) => a = b
    BY DEF a, b
  <2> QED BY <2>2, <2>5, <2>6
<1>3. g.count = c /\ n = a + p[1]
  BY <1>1
<1> HIDE DEF a, b, c
<1>4. /\ Len(d) \in Nat /\ p[1] \in Nat
      /\ \A i \in 1 .. Len(d) : d[i].count \in Nat /\ p[i] \in Nat /\ p[i + 1] \in Nat
  BY <1>1, AddsUpTypes
<1>5. n \in Nat /\ n - b \in Nat /\ n - b = c + p[1]
  BY <1>2, <1>3, <1>4
<1> DEFINE N == Len(d)
           s == [i \in 1 .. N + 2 |-> IF i = N + 2 THEN 0 ELSE p[i] + c]
           e == Append(d, g)
<1>6. d \in Seq(Generation) /\ p \in Seq(Nat) /\ Len(p) = N + 1 /\ p[N + 1] = 0
      /\ \A i \in 1 .. N : p[i] = d[i].count + p[i + 1]
  BY <1>1 DEF AddsUp
<1>7. /\ e \in Seq(Generation) /\ Len(e) = N + 1 /\ e[N + 1] = g
      /\ \A i \in 1 .. N : e[i] = d[i]
  BY <1>4, <1>6
<1>8. \A i \in 1 .. N + 1 : p[i] \in Nat /\ s[i] = p[i] + c /\ s[i] \in Nat
  BY <1>2, <1>4, <1>6
<1>9. s[N + 2] = 0 /\ s \in Seq(Nat) /\ Len(s) = N + 2
  <2>1. N + 2 \in Nat /\ N + 2 \in 1 .. N + 2
    BY <1>4
  <2>2. s[N + 2] = 0
    BY <2>1
  <2>3. \A i \in 1 .. N + 2 : i = N + 2 \/ i \in 1 .. N + 1
    BY <1>4
  <2>4. s = [i \in 1 .. N + 2 |-> s[i]]
    OBVIOUS
  <2> HIDE DEF s, N
  <2>5. \A i \in 1 .. N + 2 : s[i] \in Nat
    BY <1>8, <2>2, <2>3
  <2> QED BY <2>1, <2>2, <2>4, <2>5
<1>n. N \in Nat
  BY <1>4
<1> HIDE DEF N, s, e
<1>10. ASSUME NEW i \in 1 .. N + 1 PROVE s[i] = e[i].count + s[i + 1]
  <2>1. CASE i = N + 1
    <3>1. s[i] = 0 + c /\ e[i].count = c /\ s[i + 1] = 0
      <4>1. N + 1 \in 1 .. N + 1 /\ (N + 1) + 1 = N + 2
        BY <1>n
      <4> QED BY <1>3, <1>6, <1>7, <1>8, <1>9, <2>1, <4>1
    <3> QED BY <1>2, <3>1
  <2>2. CASE i # N + 1
    <3>1. i \in 1 .. N /\ i + 1 \in 1 .. N + 1
      BY <1>n, <2>2
    <3>2. s[i] = p[i] + c /\ s[i + 1] = p[i + 1] + c /\ e[i] = d[i]
          /\ p[i] = d[i].count + p[i + 1]
      BY <1>6, <1>7, <1>8, <3>1
    <3>3. d[i].count \in Nat /\ p[i + 1] \in Nat
      BY <1>4, <3>1 DEF N
    <3> QED BY <1>2, <3>2, <3>3
  <2> QED BY <2>1, <2>2
<1>11. AddsUp(e, s)
  <2>1. Len(s) = Len(e) + 1 /\ s[Len(e) + 1] = 0
    <3>1. (N + 1) + 1 = N + 2
      BY <1>4 DEF N
    <3> QED BY <1>7, <1>9, <3>1
  <2> QED BY <1>7, <1>9, <1>10, <2>1 DEF AddsUp
<1>12. n - b = 0 * NGen + s[1] /\ (k = Len(q) => n - b = 0 * NGen + p[1])
  <2>1. 0 * NGen = 0
    BY Samples
  <2>2. s[1] = p[1] + c
    BY <1>4, <1>8 DEF N
  <2> QED BY <1>2, <1>3, <1>4, <1>5, <2>1, <2>2
<1>13. Len(<<>>) = 0
  OBVIOUS
<1>14. Holds(<<>>, e, n - b) /\ (k = Len(q) => Holds(<<>>, d, n - b))
  BY <1>1, <1>11, <1>12, <1>13 DEF Holds
<1> QED BY <1>2, <1>5, <1>14 DEF e, b

(* Posting the first generation.                                           *)
LEMMA HoldsPosted ==
  ASSUME NEW q, Len(q) \in Nat, NEW d, d # <<>>, NEW n, Holds(q, d, n)
  PROVE  /\ Holds(q, Tail(d), n - Head(d).count)
         /\ n \in Nat /\ Head(d).count \in Nat /\ n - Head(d).count \in Nat
<1>1. PICK p : AddsUp(d, p) /\ n = Len(q) * NGen + p[1]
  BY DEF Holds
<1> DEFINE a == Len(q) * NGen
           N == Len(d)
<1>2. a \in Nat /\ n = a + p[1]
  BY <1>1, Samples
<1> HIDE DEF a
<1>3. /\ N \in Nat /\ p[1] \in Nat
      /\ \A i \in 1 .. N : d[i].count \in Nat /\ p[i] \in Nat /\ p[i + 1] \in Nat
  BY <1>1, AddsUpTypes
<1>4. d \in Seq(Generation) /\ p \in Seq(Nat) /\ Len(p) = N + 1 /\ p[N + 1] = 0
      /\ \A i \in 1 .. N : p[i] = d[i].count + p[i + 1]
  BY <1>1 DEF AddsUp
<1>5. N >= 1 /\ Head(d) = d[1] /\ Tail(d) \in Seq(Generation) /\ Len(Tail(d)) = N - 1
      /\ \A i \in 1 .. N - 1 : Tail(d)[i] = d[i + 1]
  BY <1>4
<1>6. Tail(p) \in Seq(Nat) /\ Len(Tail(p)) = N /\ \A i \in 1 .. N : Tail(p)[i] = p[i + 1]
  BY <1>3, <1>4
<1> HIDE DEF N
<1>7. AddsUp(Tail(d), Tail(p))
  <2>1. Len(Tail(p)) = Len(Tail(d)) + 1 /\ Tail(p)[Len(Tail(d)) + 1] = 0
    <3>1. (N - 1) + 1 = N /\ N \in 1 .. N
      BY <1>3, <1>5
    <3> QED BY <1>4, <1>5, <1>6, <3>1
  <2>2. ASSUME NEW i \in 1 .. Len(Tail(d)) PROVE Tail(p)[i] = Tail(d)[i].count + Tail(p)[i + 1]
    <3>1. i \in 1 .. N - 1 /\ i \in 1 .. N /\ i + 1 \in 1 .. N
      BY <1>3, <1>5
    <3> QED BY <1>4, <1>5, <1>6, <3>1
  <2> QED BY <1>5, <1>6, <2>1, <2>2 DEF AddsUp
<1>8. 1 \in 1 .. N
  BY <1>3, <1>5
<1>9. p[1] = Head(d).count + p[2] /\ Tail(p)[1] = p[2] /\ Head(d).count \in Nat /\ p[2] \in Nat
  BY <1>3, <1>4, <1>5, <1>6, <1>8
<1>10. n - Head(d).count = a + Tail(p)[1] /\ n \in Nat /\ n - Head(d).count \in Nat
  <2> DEFINE w == p[1]
             x == Head(d).count
             y == Tail(p)[1]
  <2>1. w = x + y /\ n = a + w /\ a \in Nat /\ x \in Nat /\ y \in Nat
    BY <1>2, <1>9
  <2> HIDE DEF w, x, y
  <2>2. n - x = a + y /\ n \in Nat /\ n - x \in Nat
    BY <2>1
  <2> QED BY <2>2 DEF x, y
<1>11. Holds(q, Tail(d), n - Head(d).count)
  BY <1>7, <1>10 DEF Holds, a
<1> QED BY <1>9, <1>10, <1>11

(* A buffered rollout is moved, never copied or lost, when the next step   *)
(* is started.                                                             *)
LEMMA TriggerSizes ==
  ASSUME FlowInv, NEW buf \in Seq(Nat), NEW idle \in BOOLEAN,
         try_trigger_data_fetch_and_training(buf, idle)
  PROVE  Len(rollout_buffer') + Len(batch') = Len(buf) + (IF idle THEN 0 ELSE Len(batch))
<1>0. batch \in Seq(Nat) /\ B \in Nat \ {0} /\ Len(buf) \in Nat /\ Len(batch) \in Nat
  BY FlowAssumption DEF FlowInv, FlowType, B
<1>1. CASE idle /\ ~training_finished /\ Len(buf) >= B
  <2>1. batch' = SubSeq(buf, 1, B) /\ rollout_buffer' = SubSeq(buf, B + 1, Len(buf))
    BY <1>1 DEF try_trigger_data_fetch_and_training, B
  <2>2. Len(batch') = B
    <3>1. \A i \in 1 .. B : buf[i] \in Nat
      BY <1>0, <1>1
    <3> QED BY <3>1, <1>0, <2>1, SubSeqProperties
  <2>3. Len(rollout_buffer') = Len(buf) - B
    <3>1. \A i \in B + 1 .. Len(buf) : buf[i] \in Nat
      BY <1>0, <1>1
    <3>2. Len(SubSeq(buf, B + 1, Len(buf)))
            = IF B + 1 <= Len(buf) THEN Len(buf) - (B + 1) + 1 ELSE 0
      BY <3>1, <1>0, SubSeqProperties
    <3> QED BY <3>2, <2>1, <1>0, <1>1
  <2> QED BY <1>0, <1>1, <2>2, <2>3
<1>2. CASE ~(idle /\ ~training_finished /\ Len(buf) >= B)
  <2>1. batch' = (IF idle THEN <<>> ELSE batch) /\ rollout_buffer' = buf
    BY <1>2 DEF try_trigger_data_fetch_and_training, B
  <2>2. Len(<<>>) = 0
    OBVIOUS
  <2> QED BY <1>0, <2>1, <2>2
<1> QED BY <1>1, <1>2

(* The counter is never negative.                                          *)
LEMMA CounterIsNat ==
  ASSUME FlowInv, Balanced
  PROVE  samples_on_the_fly \in Nat
<1>1. PICK held \in [Rollouts -> Nat] :
        samples_on_the_fly = SumFunction(held) + Len(rollout_buffer) + Len(batch)
  BY DEF Balanced
<1>2. SumFunction(held) \in Nat
  BY FlowAssumption, SumType
<1>3. Len(rollout_buffer) \in Nat /\ Len(batch) \in Nat
  BY DEF FlowInv, FlowType
<1> QED BY <1>1, <1>2, <1>3

(* One worker holds m samples instead of held[r]: the total changes by as  *)
(* much.                                                                   *)
LEMMA HeldMoves ==
  ASSUME NEW held \in [Rollouts -> Nat], NEW r \in Rollouts, NEW m \in Nat
  PROVE  \E now \in [Rollouts -> Nat] :
           /\ now[r] = m /\ \A t \in Rollouts : t # r => now[t] = held[t]
           /\ SumFunction(now) + held[r] = SumFunction(held) + m
<1> DEFINE now == [t \in Rollouts |-> IF t = r THEN m ELSE held[t]]
<1>1. now \in [Rollouts -> Nat] /\ now[r] = m /\ \A t \in Rollouts : t # r => now[t] = held[t]
  OBVIOUS
<1>2. IsFiniteSet(Rollouts)
  BY FlowAssumption
<1> HIDE DEF now
<1>3. SumFunction(now) + held[r] = SumFunction(held) + now[r]
  BY <1>1, <1>2, SumUpdate
<1> QED BY <1>1, <1>3

(* The balance after a step that changes what one worker holds.            *)
LEMMA BalanceMoves ==
  ASSUME FlowInv, FlowInv', Balanced, NEW r \in Rollouts,
         \A t \in Rollouts : t # r => queue'[t] = queue[t] /\ done'[t] = done[t],
         \A n \in Nat : Holds(queue[r], done[r], n) =>
           \E m \in Nat :
             /\ Holds(queue'[r], done'[r], m)
             /\ samples_on_the_fly' + n + Len(rollout_buffer) + Len(batch)
                  = samples_on_the_fly + m + Len(rollout_buffer') + Len(batch'),
         samples_on_the_fly' \in Int
  PROVE  Balanced'
<1>1. PICK held \in [Rollouts -> Nat] :
        /\ \A t \in Rollouts : Holds(queue[t], done[t], held[t])
        /\ samples_on_the_fly = SumFunction(held) + Len(rollout_buffer) + Len(batch)
  BY DEF Balanced
<1>2. PICK m \in Nat :
        /\ Holds(queue'[r], done'[r], m)
        /\ samples_on_the_fly' + held[r] + Len(rollout_buffer) + Len(batch)
             = samples_on_the_fly + m + Len(rollout_buffer') + Len(batch')
  BY <1>1
<1>3. PICK now \in [Rollouts -> Nat] :
        /\ now[r] = m /\ \A t \in Rollouts : t # r => now[t] = held[t]
        /\ SumFunction(now) + held[r] = SumFunction(held) + m
  BY <1>1, <1>2, HeldMoves
<1>4. SumFunction(now) \in Nat /\ SumFunction(held) \in Nat
  BY <1>1, <1>3, FlowAssumption, SumType
<1>5. /\ Len(rollout_buffer) \in Nat /\ Len(batch) \in Nat
      /\ Len(rollout_buffer') \in Nat /\ Len(batch') \in Nat /\ held[r] \in Nat
  BY DEF FlowInv, FlowType
<1>6. samples_on_the_fly' = SumFunction(now) + Len(rollout_buffer') + Len(batch')
  <2>1. samples_on_the_fly \in Nat
    BY CounterIsNat
  <2>2. PICK s \in Int, x \in Int : s = samples_on_the_fly /\ x = samples_on_the_fly'
    BY <2>1
  <2>3. PICK a \in Int, b \in Int : a = Len(rollout_buffer) /\ b = Len(batch)
    BY <1>5
  <2>4. PICK c \in Int, d \in Int : c = Len(rollout_buffer') /\ d = Len(batch')
    BY <1>5
  <2>5. PICK f \in Int, g \in Int, n \in Int :
          f = SumFunction(held) /\ g = SumFunction(now) /\ n = held[r]
    BY <1>4, <1>5
  <2>6. s = f + a + b /\ x + n + a + b = s + m + c + d /\ g + n = f + m
    BY <1>1, <1>2, <1>3, <2>2, <2>3, <2>4, <2>5, Zenon
  <2>7. x = g + c + d
    BY ONLY <2>6, m \in Nat, s \in Int, x \in Int, a \in Int, b \in Int, c \in Int, d \in Int,
            f \in Int, g \in Int, n \in Int
  <2> QED BY <2>2, <2>4, <2>5, <2>7, Zenon
<1>7. \A t \in Rollouts : Holds(queue'[t], done'[t], now[t])
  BY <1>1, <1>2, <1>3
<1> QED BY <1>3, <1>6, <1>7 DEF Balanced, Holds, AddsUp

(* The balance, action by action *)

(* Training a batch takes its samples out of the counter and the buffer.   *)
LEMMA TrainAckBalanced ==
  ASSUME FlowInv, FlowInv', Balanced, TrainAck
  PROVE  Balanced'
<1>1. PICK held \in [Rollouts -> Nat] :
        /\ \A r \in Rollouts : Holds(queue[r], done[r], held[r])
        /\ samples_on_the_fly = SumFunction(held) + Len(rollout_buffer) + Len(batch)
  BY DEF Balanced
<1>2. SumFunction(held) \in Nat
  BY <1>1, FlowAssumption, SumType
<1>3. /\ rollout_buffer \in Seq(Nat) /\ Len(rollout_buffer) \in Nat /\ Len(batch) \in Nat
      /\ Len(rollout_buffer') \in Nat /\ Len(batch') \in Nat
  BY DEF FlowInv, FlowType
<1>4. Len(rollout_buffer') + Len(batch') = Len(rollout_buffer)
  <2>1. try_trigger_data_fetch_and_training(rollout_buffer, TRUE)
    BY DEF TrainAck
  <2>2. Len(rollout_buffer') + Len(batch') = Len(rollout_buffer) + 0
    BY <1>3, <2>1, TriggerSizes
  <2> QED BY <1>3, <2>2
<1>5. samples_on_the_fly' = SumFunction(held) + Len(rollout_buffer') + Len(batch')
  <2>1. samples_on_the_fly' = samples_on_the_fly - Len(batch)
    BY DEF TrainAck
  <2> DEFINE f == SumFunction(held)
             a == Len(rollout_buffer)
             b == Len(batch)
             c == Len(rollout_buffer')
             d == Len(batch')
  <2>2. f \in Nat /\ a \in Nat /\ b \in Nat /\ c \in Nat /\ d \in Nat
    BY <1>2, <1>3
  <2>3. samples_on_the_fly' = (f + a + b) - b /\ c + d = a
    BY <1>1, <1>4, <2>1
  <2> HIDE DEF f, a, b, c, d
  <2>4. samples_on_the_fly' = f + c + d
    BY <2>2, <2>3
  <2> QED BY <2>4 DEF f, c, d
<1>6. queue' = queue /\ done' = done
  BY DEF TrainAck
<1>7. \A r \in Rollouts : Holds(queue'[r], done'[r], held[r])
  BY <1>1, <1>6
<1> QED BY <1>1, <1>5, <1>7 DEF Balanced, Holds, AddsUp

(* A fetch adds the samples its prompts will yield.                        *)
LEMMA RequestBalanced ==
  ASSUME FlowInv, FlowInv', Balanced, NEW r \in Rollouts, RequestNewPrompts(r)
  PROVE  Balanced'
<1> DEFINE n == IF FetchBatch <= prompts THEN FetchBatch ELSE prompts
           x == n * NGen
<1>1. n \in Nat /\ x \in Nat
  <2>1. n \in Nat
    BY FlowAssumption DEF FlowInv, FlowType
  <2> QED BY <2>1, Samples
<1>2. PICK tags \in [1 .. n -> 0 .. Prompts] : queue' = [queue EXCEPT ![r] = tags]
  BY DEF RequestNewPrompts
<1>3. Len(tags) = n
  BY <1>1, <1>2
<1>4. /\ samples_on_the_fly' = samples_on_the_fly + x /\ queue[r] = <<>>
      /\ UNCHANGED <<rollout_buffer, batch, done>>
  BY DEF RequestNewPrompts, samples_in_flight
<1>5. /\ queue'[r] = tags /\ done'[r] = done[r]
      /\ \A t \in Rollouts : t # r => queue'[t] = queue[t] /\ done'[t] = done[t]
  BY <1>2, <1>4 DEF FlowInv, FlowType
<1>6. samples_on_the_fly \in Nat
  BY CounterIsNat
<1>7. Len(rollout_buffer) \in Nat /\ Len(batch) \in Nat
  BY DEF FlowInv, FlowType
<1> HIDE DEF n
<1>8. ASSUME NEW h \in Nat, Holds(queue[r], done[r], h)
      PROVE  Holds(queue'[r], done'[r], h + x)
  BY <1>1, <1>3, <1>4, <1>5, <1>8, HoldsFetched
<1> HIDE DEF x
<1>9. ASSUME NEW h \in Nat
      PROVE  /\ h + x \in Nat
             /\ samples_on_the_fly' + h + Len(rollout_buffer) + Len(batch)
                  = samples_on_the_fly + (h + x) + Len(rollout_buffer') + Len(batch')
  BY <1>1, <1>4, <1>6, <1>7
<1>10. samples_on_the_fly' \in Int
  BY <1>1, <1>4, <1>6
<1> QED BY <1>5, <1>8, <1>9, <1>10, BalanceMoves

(* Serving a batch moves its samples to what will be posted; the lost ones *)
(* are reported.                                                           *)
LEMMA GenerationBalanced ==
  ASSUME FlowInv, FlowInv', Balanced, NEW r \in Rollouts, OneStepGeneration(r)
  PROVE  Balanced'
<1> DEFINE q == queue[r]
           d == done[r]
<1>1. PICK k \in 0 .. Len(q) :
        /\ queue' = [queue EXCEPT ![r] = <<>>]
        /\ done' = IF k = Len(q) THEN done
                   ELSE [done EXCEPT ![r] = Append(@,
                           [version |-> actual_version(r), count |-> (Len(q) - k) * NGen])]
        /\ samples_on_the_fly' = samples_on_the_fly - k * NGen
        /\ UNCHANGED <<rollout_buffer, batch>>
  BY DEF OneStepGeneration
<1> DEFINE g == [version |-> actual_version(r), count |-> (Len(q) - k) * NGen]
           x == k * NGen
<1>2. /\ q \in Seq(Nat) /\ Len(q) \in Nat /\ live[r] \in Nat
      /\ queue \in [Rollouts -> Seq(Nat)] /\ done \in [Rollouts -> Seq(Generation)]
      /\ Len(rollout_buffer) \in Nat /\ Len(batch) \in Nat
  BY DEF FlowInv, FlowType
<1>3. g \in Generation /\ g.count = (Len(q) - k) * NGen
  <2>1. Len(q) - k \in Nat
    BY <1>1, <1>2
  <2>2. (Len(q) - k) * NGen \in Nat
    BY <2>1, Samples
  <2> QED BY <1>2, <2>2 DEF Generation, actual_version
<1>4. /\ queue'[r] = <<>> /\ done'[r] = IF k = Len(q) THEN d ELSE Append(d, g)
      /\ \A t \in Rollouts : t # r => queue'[t] = queue[t] /\ done'[t] = done[t]
  BY <1>1, <1>2
<1>5. samples_on_the_fly \in Nat
  BY CounterIsNat
<1> HIDE DEF g, q, d
<1>6. ASSUME NEW h \in Nat, Holds(queue[r], done[r], h)
      PROVE  Holds(queue'[r], done'[r], h - x) /\ h - x \in Nat /\ x \in Nat
  <2>1. Holds(q, d, h)
    BY <1>6 DEF q, d
  <2>2. /\ Holds(<<>>, Append(d, g), h - x) /\ (k = Len(q) => Holds(<<>>, d, h - x))
        /\ x \in Nat /\ h - x \in Nat
    BY <1>1, <1>2, <1>3, <2>1, HoldsServed
  <2> QED BY <1>4, <2>2
<1> HIDE DEF x
<1>7. samples_on_the_fly' = samples_on_the_fly - x
  BY <1>1 DEF x
<1>8. ASSUME NEW h \in Nat, x \in Nat, h - x \in Nat
      PROVE  samples_on_the_fly' + h + Len(rollout_buffer) + Len(batch)
               = samples_on_the_fly + (h - x) + Len(rollout_buffer') + Len(batch')
  <2> DEFINE s == samples_on_the_fly
             a == Len(rollout_buffer)
             b == Len(batch)
  <2>1. s \in Nat /\ a \in Nat /\ b \in Nat
    BY <1>2, <1>5
  <2>2. Len(rollout_buffer') = a /\ Len(batch') = b /\ samples_on_the_fly' = s - x
    BY <1>1, <1>7
  <2> HIDE DEF s, a, b
  <2>3. (s - x) + h + a + b = s + (h - x) + a + b
    BY <1>8, <2>1
  <2> QED BY <2>2, <2>3 DEF s, a, b
<1>9. samples_on_the_fly' \in Int
  <2>1. k \in Nat
    BY <1>1, <1>2
  <2>2. x \in Nat
    BY <2>1, Samples DEF x
  <2> QED BY <1>5, <1>7, <2>2
<1> QED BY <1>4, <1>6, <1>8, <1>9, BalanceMoves

(* A batch that is dropped at the gate leaves the counter whole.           *)
LEMMA DropBalanced ==
  ASSUME FlowInv, FlowInv', Balanced, NEW r \in Rollouts, DropStaleBatch(r)
  PROVE  Balanced'
<1> DEFINE q == queue[r]
           d == done[r]
           k == Len(q)
           g == [version |-> 0, count |-> (Len(q) - k) * NGen]
           x == k * NGen
<1>1. /\ queue' = [queue EXCEPT ![r] = <<>>]
      /\ samples_on_the_fly' = samples_on_the_fly - x
      /\ UNCHANGED <<rollout_buffer, batch, done>>
  BY DEF DropStaleBatch
<1>2. /\ q \in Seq(Nat) /\ Len(q) \in Nat /\ k \in 0 .. Len(q)
      /\ queue \in [Rollouts -> Seq(Nat)] /\ done \in [Rollouts -> Seq(Generation)]
      /\ Len(rollout_buffer) \in Nat /\ Len(batch) \in Nat
  BY DEF FlowInv, FlowType
<1>3. g \in Generation /\ g.count = (Len(q) - k) * NGen
  <2>1. Len(q) - k \in Nat
    BY <1>2
  <2>2. (Len(q) - k) * NGen \in Nat
    BY <2>1, Samples
  <2> QED BY <2>2 DEF Generation
<1>4. /\ queue'[r] = <<>> /\ done'[r] = d
      /\ \A t \in Rollouts : t # r => queue'[t] = queue[t] /\ done'[t] = done[t]
  BY <1>1, <1>2
<1>5. samples_on_the_fly \in Nat
  BY CounterIsNat
<1>6. x \in Nat
  BY <1>2, Samples
<1> HIDE DEF g
<1>7. ASSUME NEW h \in Nat, Holds(queue[r], done[r], h)
      PROVE  Holds(queue'[r], done'[r], h - x) /\ h - x \in Nat
  <2> HIDE DEF q, d
  <2>1. Holds(q, d, h)
    BY <1>7 DEF q, d
  <2> HIDE DEF k
  <2>2. k = Len(q)
    BY DEF k
  <2>3. (k = Len(q) => Holds(<<>>, d, h - x)) /\ h - x \in Nat
    BY <1>2, <1>3, <2>1, HoldsServed
  <2> QED BY <1>4, <2>2, <2>3
<1> HIDE DEF x
<1>8. ASSUME NEW h \in Nat, h - x \in Nat
      PROVE  samples_on_the_fly' + h + Len(rollout_buffer) + Len(batch)
               = samples_on_the_fly + (h - x) + Len(rollout_buffer') + Len(batch')
  <2> DEFINE s == samples_on_the_fly
             a == Len(rollout_buffer)
             b == Len(batch)
  <2>1. s \in Nat /\ a \in Nat /\ b \in Nat
    BY <1>2, <1>5
  <2>2. Len(rollout_buffer') = a /\ Len(batch') = b /\ samples_on_the_fly' = s - x
    BY <1>1
  <2> HIDE DEF s, a, b
  <2>3. (s - x) + h + a + b = s + (h - x) + a + b
    BY <1>6, <2>1
  <2> QED BY <2>2, <2>3 DEF s, a, b
<1>9. samples_on_the_fly' \in Int
  BY <1>1, <1>5, <1>6
<1> QED BY <1>4, <1>7, <1>8, <1>9, BalanceMoves

(* A post hands its samples over: the fresh ones to the buffer, the others *)
(* out of the counter.                                                     *)
LEMMA ReportBalanced ==
  ASSUME FlowInv, FlowInv', Balanced, NEW r \in Rollouts, ReportRollouts(r)
  PROVE  Balanced'
<1> DEFINE q == queue[r]
           d == done[r]
           x == Head(d).count
<1>1. /\ q \in Seq(Nat) /\ Len(q) \in Nat /\ d \in Seq(Generation) /\ d # <<>>
      /\ queue \in [Rollouts -> Seq(Nat)] /\ done \in [Rollouts -> Seq(Generation)]
      /\ rollout_buffer \in Seq(Nat) /\ batch \in Seq(Nat)
  <2>1. d # <<>>
    BY DEF ReportRollouts
  <2> QED BY <2>1 DEF FlowInv, FlowType
<1>2. Head(d) \in Generation /\ x \in Nat
  <2>1. Head(d) \in Generation
    BY <1>1, HeadTailProperties
  <2> QED BY <2>1 DEF Generation
<1>3. PICK kept \in 0 .. x :
        /\ samples_on_the_fly' = samples_on_the_fly - (x - kept)
        /\ try_trigger_data_fetch_and_training(
             rollout_buffer \o [i \in 1 .. kept |-> Head(d).version], batch = <<>>)
  BY DEF ReportRollouts
<1>4. done' = [done EXCEPT ![r] = Tail(@)] /\ queue' = queue
  BY DEF ReportRollouts
<1> DEFINE new == [i \in 1 .. kept |-> Head(d).version]
           buf == rollout_buffer \o new
<1>5. kept \in Nat /\ x - kept \in Nat
  BY <1>2, <1>3
<1>6. new \in Seq(Nat) /\ Len(new) = kept
  <2>1. Head(d).version \in Nat
    BY <1>2 DEF Generation
  <2> QED BY <1>5, <2>1
<1> HIDE DEF new
<1>7. buf \in Seq(Nat) /\ Len(buf) = Len(rollout_buffer) + kept
  BY <1>1, <1>6, ConcatProperties
<1>8. try_trigger_data_fetch_and_training(buf, batch = <<>>)
  BY <1>3 DEF new
<1> HIDE DEF buf
<1>9. Len(rollout_buffer') + Len(batch') = Len(rollout_buffer) + kept + Len(batch)
  <2>1. (batch = <<>>) \in BOOLEAN
    OBVIOUS
  <2>2. Len(rollout_buffer') + Len(batch')
          = Len(buf) + (IF batch = <<>> THEN 0 ELSE Len(batch))
    BY <1>7, <1>8, <2>1, TriggerSizes
  <2>3. (IF batch = <<>> THEN 0 ELSE Len(batch)) = Len(batch)
    BY <1>1
  <2> QED BY <1>7, <2>2, <2>3
<1>10. /\ queue'[r] = q /\ done'[r] = Tail(d)
       /\ \A t \in Rollouts : t # r => queue'[t] = queue[t] /\ done'[t] = done[t]
  BY <1>1, <1>4
<1>11. samples_on_the_fly \in Nat
  BY CounterIsNat
<1> HIDE DEF q, d
<1>12. ASSUME NEW h \in Nat, Holds(queue[r], done[r], h)
       PROVE  Holds(queue'[r], done'[r], h - x) /\ h - x \in Nat
  <2>1. Holds(q, d, h)
    BY <1>12 DEF q, d
  <2> QED BY <1>1, <1>10, <2>1, HoldsPosted
<1> HIDE DEF x
<1>13. ASSUME NEW h \in Nat, h - x \in Nat
       PROVE  samples_on_the_fly' + h + Len(rollout_buffer) + Len(batch)
                = samples_on_the_fly + (h - x) + Len(rollout_buffer') + Len(batch')
  <2> DEFINE s == samples_on_the_fly
             a == Len(rollout_buffer)
             b == Len(batch)
             e == Len(rollout_buffer')
             f == Len(batch')
  <2>1. s \in Nat /\ a \in Nat /\ b \in Nat /\ e \in Nat /\ f \in Nat
    BY <1>1, <1>11 DEF FlowInv, FlowType
  <2>2. e + f = a + kept + b /\ samples_on_the_fly' = s - (x - kept)
    BY <1>3, <1>9
  <2> HIDE DEF s, a, b, e, f
  <2>3. (s - (x - kept)) + h + a + b = s + (h - x) + (a + kept + b)
    BY <1>2, <1>5, <2>1
  <2>4. s + (h - x) + e + f = s + (h - x) + (e + f)
    BY <1>2, <2>1
  <2> QED BY <2>2, <2>3, <2>4 DEF s, a, b, e, f
<1>14. samples_on_the_fly' \in Int
  BY <1>3, <1>5, <1>11
<1> QED BY <1>10, <1>12, <1>13, <1>14, BalanceMoves

(* A step that moves no sample.                                            *)
LEMMA IdleBalanced ==
  ASSUME Balanced, UNCHANGED <<samples_on_the_fly, rollout_buffer, batch, queue, done>>
  PROVE  Balanced'
BY DEF Balanced, Holds, AddsUp

(* At the start nothing is in flight.                                      *)
LEMMA BalancedInit == Init => Balanced
<1> SUFFICES ASSUME Init PROVE Balanced
  OBVIOUS
<1> DEFINE held == [r \in Rollouts |-> 0]
<1>1. held \in [Rollouts -> Nat] /\ SumFunction(held) = 0
  BY FlowAssumption, SumZero
<1>2. \A r \in Rollouts : queue[r] = <<>> /\ done[r] = <<>> /\ held[r] = 0
  BY DEF Init
<1>3. \A r \in Rollouts : Holds(queue[r], done[r], held[r])
  BY <1>2, HoldsNothing
<1>4. samples_on_the_fly = 0 /\ Len(rollout_buffer) = 0 /\ Len(batch) = 0
  BY DEF Init
<1> HIDE DEF held
<1>5. samples_on_the_fly = SumFunction(held) + Len(rollout_buffer) + Len(batch)
  BY <1>1, <1>4
<1> QED BY <1>1, <1>3, <1>5 DEF Balanced

(* Every step keeps the balance.                                           *)
LEMMA BalancedStep == FlowInv /\ Balanced /\ [Next]_vars => Balanced'
<1> SUFFICES ASSUME FlowInv, Balanced, [Next]_vars PROVE Balanced'
  OBVIOUS
<1>1. FlowInv'
  BY FlowStep
<1>2. CASE TrainAck
  BY <1>1, <1>2, TrainAckBalanced
<1>3. CASE WeightSync \/ Finished \/ UNCHANGED vars
  BY <1>3, IdleBalanced DEF WeightSync, Finished, vars, flowVars
<1>4. ASSUME NEW r \in Rollouts, RequestNewPrompts(r) PROVE Balanced'
  BY <1>1, <1>4, RequestBalanced
<1>5. ASSUME NEW r \in Rollouts, OneStepGeneration(r) PROVE Balanced'
  BY <1>1, <1>5, GenerationBalanced
<1>6. ASSUME NEW r \in Rollouts, DropStaleBatch(r) PROVE Balanced'
  BY <1>1, <1>6, DropBalanced
<1>7. ASSUME NEW r \in Rollouts, ReportRollouts(r) PROVE Balanced'
  BY <1>1, <1>7, ReportBalanced
<1>8. ASSUME NEW r \in Rollouts, Depart(r) PROVE Balanced'
  BY <1>8, IdleBalanced DEF Depart, flowVars
<1> QED BY <1>2, <1>3, <1>4, <1>5, <1>6, <1>7, <1>8 DEF Next

(* The throttle's counter neither leaks nor counts twice: in every state   *)
(* samples_on_the_fly is what the workers hold, fetched or generated, plus *)
(* what is buffered and what is in training, whatever was lost, dropped at *)
(* the gate or filtered.                                                   *)
THEOREM SamplesBalanced == Spec => []Balanced
<1> QED BY FlowInit, FlowStep, BalancedInit, BalancedStep, PTL DEF Spec

-----------------------------------------------------------------------------
(* Types *)

(* What the steps and the balance leave of the type invariant.             *)
TalliesTyped ==
  /\ prompt_num \in [0 .. Prompts -> Nat]
  /\ members \in SUBSET Rollouts
  /\ lost \in Nat /\ stale \in Nat

(* A fetch counts prompts per version.                                     *)
LEMMA RequestTallies ==
  ASSUME FlowInv, TalliesTyped, NEW r \in Rollouts, RequestNewPrompts(r)
  PROVE  TalliesTyped'
<1> DEFINE n == IF FetchBatch <= prompts THEN FetchBatch ELSE prompts
<1>1. n \in Nat
  BY FlowAssumption DEF FlowInv, FlowType
<1>2. PICK tags \in [1 .. n -> 0 .. Prompts] :
        prompt_num' = counted(tags, n) \/ prompt_num' = prompt_num
  BY DEF RequestNewPrompts
<1> HIDE DEF n
<1>3. ASSUME NEW v \in 0 .. Prompts
      PROVE  prompt_num[v] + Cardinality({j \in 1 .. n : tags[j] = v}) \in Nat
  <2>1. IsFiniteSet(1 .. n)
    BY <1>1, FS_Interval
  <2>2. IsFiniteSet({j \in 1 .. n : tags[j] = v})
    BY <2>1, FS_Subset
  <2>3. Cardinality({j \in 1 .. n : tags[j] = v}) \in Nat
    BY <2>2, FS_CardinalityType
  <2>4. prompt_num[v] \in Nat
    BY DEF TalliesTyped
  <2> QED BY <2>3, <2>4
<1>4. counted(tags, n) \in [0 .. Prompts -> Nat]
  BY <1>3 DEF counted
<1>5. prompt_num' \in [0 .. Prompts -> Nat]
  BY <1>2, <1>4 DEF TalliesTyped
<1> QED BY <1>5 DEF TalliesTyped, RequestNewPrompts

(* What is given up is counted in whole samples.                           *)
LEMMA GivenUpTallies ==
  ASSUME FlowInv, TalliesTyped, NEW r \in Rollouts,
         OneStepGeneration(r) \/ DropStaleBatch(r) \/ ReportRollouts(r)
  PROVE  TalliesTyped'
<1>0. lost \in Nat /\ stale \in Nat
  BY DEF TalliesTyped
<1>1. UNCHANGED <<prompt_num, members>>
  BY DEF OneStepGeneration, DropStaleBatch, ReportRollouts
<1>2. CASE OneStepGeneration(r)
  <2>1. PICK k \in 0 .. Len(queue[r]) : lost' = lost + k * NGen /\ stale' = stale
    BY <1>2 DEF OneStepGeneration
  <2>2. queue[r] \in Seq(Nat)
    BY DEF FlowInv, FlowType
  <2>3. k \in Nat
    BY <2>1, <2>2
  <2>4. k * NGen \in Nat
    BY <2>3, Samples
  <2>5. lost' \in Nat /\ stale' \in Nat
    BY <1>0, <2>1, <2>4
  <2> QED BY <1>1, <2>5 DEF TalliesTyped
<1>3. CASE DropStaleBatch(r)
  <2>1. stale' = stale + Len(queue[r]) * NGen /\ lost' = lost
    BY <1>3 DEF DropStaleBatch
  <2>2. Len(queue[r]) \in Nat
    BY DEF FlowInv, FlowType
  <2>3. Len(queue[r]) * NGen \in Nat
    BY <2>2, Samples
  <2>4. lost' \in Nat /\ stale' \in Nat
    BY <1>0, <2>1, <2>3
  <2> QED BY <1>1, <2>4 DEF TalliesTyped
<1>4. CASE ReportRollouts(r)
  <2> DEFINE x == Head(done[r]).count
  <2>1. PICK kept \in 0 .. x : stale' = stale + (x - kept) /\ lost' = lost
    BY <1>4 DEF ReportRollouts
  <2>2. done[r] \in Seq(Generation) /\ done[r] # <<>>
    BY <1>4 DEF ReportRollouts, FlowInv, FlowType
  <2>3. Head(done[r]) \in Generation
    BY <2>2, HeadTailProperties
  <2>4. x \in Nat
    BY <2>3 DEF Generation
  <2> HIDE DEF x
  <2>5. lost' \in Nat /\ stale' \in Nat
    BY <1>0, <2>1, <2>4
  <2> QED BY <1>1, <2>5 DEF TalliesTyped
<1> QED BY <1>2, <1>3, <1>4

(* Every step keeps the tallies typed.                                     *)
LEMMA TalliesStep == FlowInv /\ TalliesTyped /\ [Next]_vars => TalliesTyped'
<1> SUFFICES ASSUME FlowInv, TalliesTyped, [Next]_vars PROVE TalliesTyped'
  OBVIOUS
<1>1. CASE TrainAck \/ WeightSync \/ Finished \/ UNCHANGED vars
  BY <1>1 DEF TalliesTyped, TrainAck, WeightSync, Finished, vars
<1>2. ASSUME NEW r \in Rollouts, RequestNewPrompts(r) PROVE TalliesTyped'
  BY <1>2, RequestTallies
<1>3. ASSUME NEW r \in Rollouts, OneStepGeneration(r) \/ DropStaleBatch(r) \/ ReportRollouts(r)
      PROVE  TalliesTyped'
  BY <1>3, GivenUpTallies
<1>4. ASSUME NEW r \in Rollouts, Depart(r) PROVE TalliesTyped'
  BY <1>4 DEF Depart, TalliesTyped
<1> QED BY <1>1, <1>2, <1>3, <1>4 DEF Next

(* Type correctness of the sample flow for every configuration.  That the  *)
(* counter is never negative needs the balance: it is decremented by what  *)
(* was lost, dropped, filtered or trained, and nothing else bounds those.  *)
THEOREM FlowTypeCorrect == Spec => []TypeOK
<1> DEFINE I == FlowInv /\ Balanced /\ TalliesTyped
<1>1. Init => I
  <2>1. Init => TalliesTyped
    BY DEF Init, TalliesTyped
  <2> QED BY <2>1, FlowInit, BalancedInit
<1>2. I /\ [Next]_vars => I'
  BY FlowStep, BalancedStep, TalliesStep
<1>3. I => TypeOK
  <2> SUFFICES ASSUME FlowInv, Balanced, TalliesTyped PROVE TypeOK
    OBVIOUS
  <2>1. samples_on_the_fly \in Nat
    BY CounterIsNat
  <2> QED BY <2>1 DEF TypeOK, TalliesTyped, FlowInv, FlowType
<1> HIDE DEF I
<1> QED BY <1>1, <1>2, <1>3, PTL DEF Spec
=============================================================================
