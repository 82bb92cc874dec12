---------------------- MODULE RolloutSchedulerProofs ----------------------
(***************************************************************************)
(* The weight-sync fence of the asynchronous rollout scheduler, proved for *)
(* every number of tasks, prompts and weight steps, for both kinds of      *)
(* backend (sharing the live model, or isolating generations with leases)  *)
(* and both roles of the replica.                                          *)
(*                                                                         *)
(* FenceInv is inductive: FenceInit gives the initial state, and for each  *)
(* part P of it the lemma PStep says that every step keeps P, action by    *)
(* action.  The few actions that need an argument of their own have a      *)
(* lemma, PAfterAction, before it.                                         *)
(*                                                                         *)
(* The second part is admission: Admitted, which needs nothing of the      *)
(* fence, bounds what the scheduler holds at any time.                     *)
(*                                                                         *)
(* The third part is types: the steps of the commands, the budget of       *)
(* prompts and validations, and what each queue may carry.  The fourth is  *)
(* the end of a worker: where a prompt can be between its fetch and its    *)
(* report, and that the end is signalled when none is left there.          *)
(***************************************************************************)
EXTENDS RolloutScheduler, FiniteSetTheorems, SequenceTheorems, WellFoundedInduction, TLAPS

-----------------------------------------------------------------------------
(* The steps that need an argument *)

(* _drain_until_idle only closes the dispatch gate further.               *)
LEMMA FlagsAgreeAfterDrainPoll == FenceInv /\ DrainPoll => FlagsAgree'
<1> SUFFICES ASSUME FenceInv, DrainPoll PROVE FlagsAgree'
  OBVIOUS
<1>1. UNCHANGED <<isolates, leader, running, accepting, poisoned, failed, hold,
                  weight_synced, mpc>>
  BY DEF DrainPoll, cfgVars, syncVars
<1>2. paused' = paused \/ paused' = TRUE
  BY DEF DrainPoll
<1>3. paused' \in BOOLEAN /\ (paused => paused')
  BY <1>2 DEF FenceInv, FlagsAgree
<1>4. FlagsAgree
  BY DEF FenceInv
<1>5. QED
  BY <1>1, <1>3, <1>4 DEF FlagsAgree, Live, InSync

(* The three ways of entering the fence: refused because the scheduler is *)
(* poisoned, holding the leases back, or closing for a drain.             *)
LEMMA FlagsAgreeAfterQuiesce == FenceInv /\ Quiesce => FlagsAgree'
<1> SUFFICES ASSUME FenceInv, Quiesce PROVE FlagsAgree'
  OBVIOUS
<1>1. UNCHANGED <<isolates, leader, running, poisoned, failed, weight_synced>> /\ mpc = "fence"
  BY DEF Quiesce, cfgVars
<1>2. FlagsAgree /\ ~pending_mismatch
  BY <1>1 DEF FenceInv, FenceHolds, pending_mismatch, InSync
<1>3. CASE ~isolates /\ poisoned
  <2>1. UNCHANGED <<accepting, paused, hold>> /\ mpc' = "dead"
    BY <1>2, <1>3 DEF Quiesce, Dies
  <2>2. QED
    BY <1>1, <1>2, <1>3, <2>1 DEF FlagsAgree, Live, InSync, Transaction
<1>4. CASE isolates
  <2>1. /\ accepting' = accepting /\ paused' \in BOOLEAN /\ (paused => paused')
        /\ hold' = TRUE /\ mpc' = "write"
    BY <1>2, <1>4 DEF Quiesce, pause, FlagsAgree
  <2>2. QED
    BY <1>1, <1>2, <1>4, <2>1 DEF FlagsAgree, Live, InSync, Transaction
<1>5. CASE ~isolates /\ ~poisoned
  <2>1. /\ paused' \in BOOLEAN /\ accepting' = FALSE
        /\ hold' = hold /\ mpc' \in {"write", "draining"}
    BY <1>2, <1>5 DEF Quiesce, close_for_drain, FlagsAgree
  <2>2. QED
    BY <1>1, <1>2, <1>5, <2>1 DEF FlagsAgree, Live, InSync, Transaction
<1>6. QED
  BY <1>3, <1>4, <1>5, <1>2 DEF FlagsAgree

(* Publishing the version changes no flag of the scheduler; it records that*)
(* a sync has happened.                                                   *)
LEMMA FlagsAgreeAfterPublishVersion == FenceInv /\ PublishVersion => FlagsAgree'
<1> SUFFICES ASSUME FenceInv, PublishVersion PROVE FlagsAgree'
  OBVIOUS
<1>1. UNCHANGED <<isolates, leader, running, accepting, paused, poisoned, failed, hold>>
  BY DEF PublishVersion, cfgVars, flagVars
<1>2. mpc = "publish" /\ mpc' = "resume" /\ weight_synced' = TRUE
  BY SchedulerAssumption
  DEF FenceInv, PublishVersion, CommandsInOrder, SyncCommand, Steps, InSync, Transaction
<1>3. FlagsAgree
  BY DEF FenceInv
<1>4. QED
  BY <1>1, <1>2, <1>3 DEF FlagsAgree, Live, InSync, Transaction

(* Leaving the fence: a poisoned scheduler refuses and stays closed, any  *)
(* other one is opened completely.                                        *)
LEMMA FlagsAgreeAfterResume == FenceInv /\ Resume => FlagsAgree'
<1> SUFFICES ASSUME FenceInv, Resume PROVE FlagsAgree'
  OBVIOUS
<1>1. UNCHANGED <<isolates, leader, running, poisoned, failed, weight_synced>> /\ hold' = FALSE
      /\ mpc = "resume"
  BY DEF Resume, cfgVars, flagVars
<1>2. FlagsAgree /\ running /\ weight_synced
  BY <1>1 DEF FenceInv, FlagsAgree, Live, LiveIsVersion
<1>3. accepting \/ paused
  BY <1>1, <1>2 DEF FenceInv, FlagsAgree, FenceHolds, Live, Transaction
<1>4. CASE poisoned
  <2>1. UNCHANGED <<accepting, paused>> /\ mpc' = "dead"
    BY <1>4, <1>2 DEF Resume, Dies, resume_refused, flagVars, FlagsAgree
  <2>2. QED
    BY <1>1, <1>2, <1>4, <2>1 DEF FlagsAgree, Live, InSync, Transaction
<1>5. CASE ~poisoned
  <2>1. paused' = FALSE /\ accepting' = TRUE /\ mpc' \in {"val_feed", "report"}
    BY <1>3, <1>5 DEF Resume, resume_refused
  <2>2. QED
    BY <1>1, <1>2, <1>5, <2>1 DEF FlagsAgree, Live, InSync, Transaction
<1>6. QED
  BY <1>4, <1>5, <1>2 DEF FlagsAgree

(* A STOP is never taken between a P2R and its R2R, so it finds no        *)
(* transaction open; any other command starts or continues one.           *)
LEMMA FlagsAgreeAfterConsumeCommand == FenceInv /\ ConsumeCommand => FlagsAgree'
<1> SUFFICES ASSUME FenceInv, ConsumeCommand PROVE FlagsAgree'
  OBVIOUS
<1>1. CASE cmd'.type = "STOP"
  <2>1. Head(commands) = commands[1]
    BY DEF ConsumeCommand, CommandsInOrder, FenceInv
  <2>2. mpc = "loop"
    BY <1>1, <2>1 DEF ConsumeCommand, CommandsInOrder, FenceInv, InSync, Transaction
  <2>3. QED
    BY <1>1, <2>2
    DEF FenceInv, ConsumeCommand, FlagsAgree, Live, InSync, Transaction, cfgVars, flagVars
<1>2. CASE cmd'.type # "STOP"
  BY <1>2
  DEF FenceInv, ConsumeCommand, FlagsAgree, FenceHolds, Live, InSync, Transaction, cfgVars
<1>3. QED
  BY <1>1, <1>2

(* The first resume comes after the first published version.              *)
LEMMA NothingEarlyAfterResume == FenceInv /\ Resume => NothingEarly'
  BY DEF FenceInv, Resume, Dies, resume_refused, NothingEarly, LiveIsVersion, Busy,
         Quiet, loopVars, taskVars

(* The controller appends the sync of its next step, for a leader as a P2R*)
(* followed by the R2R of the same step: old commands keep their place    *)
(* (<1>6) and the new ones come after them (<1>7).                        *)
LEMMA CommandsInOrderAfterPublishSync == FenceInv /\ PublishSync => CommandsInOrder'
<1> SUFFICES ASSUME FenceInv, PublishSync PROVE CommandsInOrder'
  OBVIOUS
<1>1. CommandsInOrder /\ Live
  BY DEF FenceInv, PublishSync, Live
<1>2. UNCHANGED <<version, leader, mpc, cmd>> /\ published' = published + 1
      /\ published \in Nat /\ published \in Steps
  BY <1>1, SchedulerAssumption DEF PublishSync, CommandsInOrder, cfgVars, Steps
<1> DEFINE P2R == [type |-> "P2R", step |-> published, stop |-> FALSE]
           R2R(stop) == [type |-> "R2R", step |-> published, stop |-> stop]
           n == Len(commands)
           m == IF leader THEN 2 ELSE 1
<1>3. PICK stop \in BOOLEAN :
        commands' = commands \o (IF leader THEN <<P2R, R2R(stop)>> ELSE <<R2R(stop)>>)
  BY Zenon DEF PublishSync
<1>4. /\ n \in Nat /\ commands' \in Seq(Command) /\ Len(commands') = n + m
      /\ \A i \in 1 .. n : commands'[i] = commands[i] /\ commands[i] \in Command
      /\ commands'[n + m].type = "R2R" /\ commands'[n + m].step = published
      /\ leader => commands'[n + 1].type = "P2R" /\ commands'[n + 1].step = published
  <2>1. P2R \in Command /\ R2R(stop) \in Command /\ commands \in Seq(Command)
    BY <1>1, <1>2 DEF Command, SyncCommand, CommandsInOrder
  <2>2. CASE leader
    <3>1. commands' = commands \o <<P2R, R2R(stop)>>
      BY <1>3, <2>2
    <3>2. QED
      BY <2>1, <2>2, <3>1
  <2>3. CASE ~leader
    <3>1. commands' = commands \o <<R2R(stop)>>
      BY <1>3, <2>3
    <3>2. QED
      BY <2>1, <2>3, <3>1
  <2>4. QED
    BY <2>2, <2>3
<1> HIDE DEF n
<1>5. m \in 1 .. 2 /\ (leader => m = 2)
  OBVIOUS
<1>6. ASSUME NEW i \in 1 .. n, commands'[i].type # "STOP" PROVE CommandInOrder(i)'
  <2>1. CommandInOrder(i) /\ commands[i] \in Command /\ commands[i].type # "STOP"
    BY <1>1, <1>4, <1>6 DEF CommandsInOrder, n
  <2>2. commands'[i] = commands[i] /\ (i > 1 => commands'[i - 1] = commands[i - 1])
        /\ (i < n => commands'[i + 1] = commands[i + 1])
        /\ \A j \in 1 .. i - 1 : commands'[j] = commands[j]
    <3>1. n \in Nat /\ \A j \in 1 .. n : commands'[j] = commands[j]
      BY <1>4
    <3>2. QED
      BY <3>1
  <2>3. commands[i].step \in Nat
    BY <2>1 DEF Command, SyncCommand, Steps
  <2>4. version' <= commands'[i].step /\ commands'[i].step < published'
    BY <1>2, <2>1, <2>2, <2>3 DEF CommandInOrder
  <2>5. commands'[i].type = "P2R" =>
          /\ leader /\ i < Len(commands')
          /\ commands'[i + 1].type = "R2R" /\ commands'[i + 1].step = commands'[i].step
    BY <1>4, <1>5, <2>1, <2>2 DEF CommandInOrder, n
  <2>6. leader /\ commands'[i].type = "R2R" =>
          IF i = 1 THEN InSync /\ cmd.type = "P2R" ELSE commands'[i - 1].type = "P2R"
    BY <2>1, <2>2 DEF CommandInOrder
  <2>7. \A j \in 1 .. i - 1 : commands'[j].type # "STOP" =>
          commands'[j].step <= commands'[i].step
    BY <2>1, <2>2 DEF CommandInOrder
  <2>8. QED
    BY <1>2, <2>1, <2>2, <2>4, <2>5, <2>6, <2>7 DEF CommandInOrder, InSync
<1>7. ASSUME NEW i \in n + 1 .. n + m PROVE CommandInOrder(i)'
  <2>1. commands'[i].step = published /\ commands'[i].type \in {"P2R", "R2R"}
        /\ (commands'[i].type = "P2R" => leader /\ i = n + 1)
        /\ (leader /\ commands'[i].type = "R2R" => i = n + 2)
    BY <1>4, <1>5
  <2>2. \A j \in 1 .. i - 1 : commands'[j].type # "STOP" => commands'[j].step <= published
    <3>1. \A j \in 1 .. n : commands[j].type # "STOP" =>
            commands[j].step < published /\ commands[j].step \in Nat
      BY <1>1, <1>4 DEF CommandsInOrder, CommandInOrder, Command, SyncCommand, Steps, n
    <3>2. QED
      BY <1>2, <1>4, <1>5, <3>1
  <2>3. version <= published /\ (InSync => cmd.step <= published)
    BY <1>1, <1>2, SchedulerAssumption DEF CommandsInOrder, SyncCommand, Steps
  <2>4. QED
    BY <1>2, <1>4, <1>5, <2>1, <2>2, <2>3 DEF CommandInOrder, InSync
<1>8. commands # <<>> => commands' # <<>> /\ commands'[1] = commands[1]
  BY <1>1, <1>4 DEF CommandsInOrder, n
<1>9. /\ (Live => \A i \in 1 .. Len(commands) : commands[i].type # "STOP" => CommandInOrder(i))'
      /\ version' \in Steps /\ published' \in Nat /\ version' <= published'
  BY <1>1, <1>2, <1>4, <1>5, <1>6, <1>7, SchedulerAssumption DEF CommandsInOrder, Steps
<1>10. QED
  BY <1>1, <1>2, <1>4, <1>8, <1>9, SchedulerAssumption
  DEF CommandsInOrder, InSync, SyncCommand, Steps

(* Taking the head shifts the queue by one (<1>8), and what was known of  *)
(* the first entry becomes known of the command in progress (<1>9, <1>10).*)
LEMMA CommandsInOrderAfterConsumeCommand == FenceInv /\ ConsumeCommand => CommandsInOrder'
<1> SUFFICES ASSUME FenceInv, ConsumeCommand PROVE CommandsInOrder'
  OBVIOUS
<1>1. CommandsInOrder /\ Live
  BY DEF FenceInv, ConsumeCommand, Live
<1>2. /\ commands \in Seq(Command) /\ commands # <<>> /\ cmd' = commands[1]
      /\ commands' \in Seq(Command) /\ Len(commands') = Len(commands) - 1
      /\ Len(commands) \in Nat \ {0} /\ Len(commands') \in Nat
      /\ \A i \in 1 .. Len(commands') : commands'[i] = commands[i + 1]
      /\ \A i \in 1 .. Len(commands) : commands[i] \in Command
  BY <1>1 DEF CommandsInOrder, ConsumeCommand
<1>3. UNCHANGED <<version, published, leader>>
  BY DEF ConsumeCommand, cfgVars
<1>4. mpc = "await_r2r" =>
        cmd.type = "P2R" /\ leader /\ cmd'.type = "R2R" /\ cmd'.step = cmd.step
  BY <1>1, <1>2 DEF CommandsInOrder, InSync, Transaction
<1>5. mpc \in {"loop", "await_r2r"}
      /\ (cmd'.type = "STOP" => mpc' = "report") /\ (cmd'.type # "STOP" => mpc' = "fence")
  BY DEF ConsumeCommand
<1>6. /\ InSync' <=> cmd'.type # "STOP"
      /\ InSync <=> mpc = "await_r2r"
  BY <1>5 DEF InSync, Transaction
<1>7. cmd'.type # "STOP" => cmd' \in SyncCommand /\ CommandInOrder(1)
  BY <1>1, <1>2 DEF CommandsInOrder, Command
<1>8. ASSUME NEW i \in 1 .. Len(commands'), commands'[i].type # "STOP" PROVE CommandInOrder(i)'
  <2>1. CommandInOrder(i + 1) /\ commands'[i] = commands[i + 1] /\ commands[i + 1] \in Command
    BY <1>1, <1>2, <1>8 DEF CommandsInOrder
  <2>2. /\ \A j \in 1 .. i - 1 : commands'[j] = commands[j + 1]
        /\ i > 1 => commands'[i - 1] = commands[i]
        /\ i < Len(commands') => commands'[i + 1] = commands[i + 2]
    BY <1>2
  <2>3. cmd'.type # "STOP" => cmd'.step <= commands'[i].step
    BY <1>2, <2>1 DEF CommandInOrder
  <2>4. \A j \in 1 .. i - 1 : commands'[j].type # "STOP" =>
          commands'[j].step <= commands'[i].step
    BY <2>1, <2>2 DEF CommandInOrder
  <2>5. commands'[i].type = "P2R" =>
          /\ leader /\ i < Len(commands')
          /\ commands'[i + 1].type = "R2R" /\ commands'[i + 1].step = commands'[i].step
    BY <1>2, <2>1, <2>2 DEF CommandInOrder
  <2>6. leader /\ commands'[i].type = "R2R" =>
          IF i = 1 THEN cmd'.type = "P2R" ELSE commands'[i - 1].type = "P2R"
    BY <1>2, <2>1, <2>2 DEF CommandInOrder
  <2>7. version <= commands'[i].step /\ commands'[i].step < published
    BY <2>1 DEF CommandInOrder
  <2>8. QED
    BY <1>3, <1>6, <2>3, <2>4, <2>5, <2>6, <2>7 DEF CommandInOrder
<1>9. cmd'.type # "STOP" => version <= cmd'.step /\ cmd'.step < published
  BY <1>2, <1>7 DEF CommandInOrder
<1>10. cmd'.type = "P2R" =>
         leader /\ commands' # <<>> /\ commands'[1].type = "R2R" /\ commands'[1].step = cmd'.step
  BY <1>2, <1>7 DEF CommandInOrder
<1>11. QED
  BY <1>1, <1>2, <1>3, <1>5, <1>6, <1>7, <1>8, <1>9, <1>10 DEF CommandsInOrder

-----------------------------------------------------------------------------
(* Every part of the invariant is kept by every step *)

(* Every step keeps the scheduler's flags consistent with each other; in   *)
(* particular neither _poison nor the fence leaves a poisoned scheduler open.*)
LEMMA FlagsAgreeStep == FenceInv /\ [Next]_vars => FlagsAgree'
<1> SUFFICES ASSUME FenceInv, [Next]_vars PROVE FlagsAgree'
  OBVIOUS
<1>1. CASE WorkerWake \/ WorkerEnds \/ GetNowait \/ CreateTask \/
           WorkerSleep
  BY <1>1
  DEF FenceInv, WorkerWake, WorkerEnds, GetNowait, CreateTask, WorkerSleep,
      FlagsAgree, Live, InSync, cfgVars, flagVars, syncVars
<1>2. CASE DrainPoll
  BY <1>2, FlagsAgreeAfterDrainPoll
<1>3. CASE PublishSync
  BY <1>3
  DEF FenceInv, PublishSync, FlagsAgree, Live, InSync, cfgVars, flagVars
<1>4. CASE PublishStop
  BY <1>4
  DEF FenceInv, PublishStop, FlagsAgree, Live, InSync, cfgVars, flagVars
<1>5. CASE QuiesceReturns
  BY <1>5
  DEF FenceInv, QuiesceReturns, FlagsAgree, Live, InSync, Transaction,
      cfgVars, flagVars
<1>6. CASE ConsumeCommand
  BY <1>6, FlagsAgreeAfterConsumeCommand
<1>7. CASE Quiesce
  BY <1>7, FlagsAgreeAfterQuiesce
<1>8. CASE QuiesceFails
  BY <1>8
  DEF FenceInv, QuiesceFails, stay_closed, Dies, FlagsAgree, FenceHolds, Live,
      cfgVars, syncVars
<1>9. CASE QuiesceTimeout
  BY <1>9
  DEF FenceInv, QuiesceTimeout, stay_closed, Dies, FlagsAgree, FenceHolds,
      Live, cfgVars, syncVars
<1>10. CASE TransferStarts \/ TransferDone
  BY <1>10
  DEF FenceInv, TransferStarts, TransferDone, FlagsAgree, Live, InSync,
      Transaction, cfgVars, flagVars
<1>11. CASE PublishVersion
  BY <1>11, FlagsAgreeAfterPublishVersion
<1>12. CASE Resume
  BY <1>12, FlagsAgreeAfterResume
<1>13. CASE ShutDown
  BY <1>13 DEF FenceInv, ShutDown, FlagsAgree, Live, cfgVars, syncVars
<1>14. CASE ReportRollouts
  BY <1>14
  DEF FenceInv, ReportRollouts, FlagsAgree, Live, InSync, Transaction,
      cfgVars, flagVars, syncVars
<1>15. CASE CheckConsumed
  BY <1>15
  DEF FenceInv, CheckConsumed, FlagsAgree, Live, InSync, Transaction, cfgVars,
      flagVars, syncVars
<1>16. CASE RequestPrompts \/ GateWaits
  BY <1>16
  DEF FenceInv, RequestPrompts, GateWaits, FlagsAgree, Live, InSync,
      Transaction, cfgVars, flagVars, syncVars
<1>17. CASE CollectResults
  BY <1>17
  DEF FenceInv, CollectResults, FlagsAgree, Live, InSync, Transaction,
      cfgVars, flagVars, syncVars
<1>18. CASE PutRolloutBatch
  BY <1>18
  DEF FenceInv, PutRolloutBatch, admissible, FlagsAgree, NothingEarly, Live,
      InSync, Transaction, cfgVars, flagVars, syncVars
<1>19. CASE ValidationCollect
  BY <1>19
  DEF FenceInv, ValidationCollect, FlagsAgree, Live, InSync, Transaction,
      cfgVars, flagVars, syncVars
<1>20. CASE ValidationFeed
  BY <1>20
  DEF FenceInv, ValidationFeed, admissible, FlagsAgree, NothingEarly, Live,
      InSync, Transaction, cfgVars, flagVars, syncVars
<1>21. ASSUME NEW t \in Tasks,
             GenerateStart(t) \/ AcquireLease(t) \/ GenerateDone(t)
      PROVE FlagsAgree'
  BY <1>21
  DEF FenceInv, GenerateStart, AcquireLease, GenerateDone, FlagsAgree, Live,
      InSync, cfgVars, flagVars, syncVars
<1>22. ASSUME NEW t \in Tasks, GenerateFails(t) PROVE FlagsAgree'
  BY <1>22
  DEF FenceInv, GenerateFails, poison, FlagsAgree, NothingEarly, Live, Quiet,
      Busy, cfgVars, syncVars
<1>23. CASE UNCHANGED vars
  BY <1>23
  DEF FenceInv, FlagsAgree, Live, InSync, vars, cfgVars, flagVars, syncVars
<1>24. QED
  BY <1>1, <1>2, <1>3, <1>4, <1>5, <1>6, <1>7, <1>8, <1>9, <1>10, <1>11,
     <1>12, <1>13, <1>14, <1>15, <1>16, <1>17, <1>18, <1>19, <1>20, <1>21,
     <1>22, <1>23
  DEF Next, Worker, Main, Generation, Ended

(* No step admits a prompt before the first weight sync has finished.      *)
LEMMA NothingEarlyStep == FenceInv /\ [Next]_vars => NothingEarly'
<1> SUFFICES ASSUME FenceInv, [Next]_vars PROVE NothingEarly'
  OBVIOUS
<1>1. CASE WorkerWake \/ WorkerEnds \/ CreateTask \/ WorkerSleep \/
           DrainPoll
  BY <1>1
  DEF FenceInv, WorkerWake, WorkerEnds, CreateTask, WorkerSleep, DrainPoll,
      NothingEarly, Quiet, Busy, syncVars, taskVars
<1>2. CASE GetNowait
  BY <1>2 DEF FenceInv, GetNowait, may_launch, NothingEarly, syncVars
<1>3. CASE PublishSync \/ PublishStop
  BY <1>3
  DEF FenceInv, PublishSync, PublishStop, NothingEarly, Quiet, Busy, loopVars,
      taskVars
<1>4. CASE ConsumeCommand \/ Quiesce \/ QuiesceReturns \/ QuiesceFails \/
           QuiesceTimeout
  BY <1>4
  DEF FenceInv, ConsumeCommand, Quiesce, Dies, QuiesceReturns, QuiesceFails,
      stay_closed, QuiesceTimeout, NothingEarly, Quiet, Busy, loopVars,
      taskVars, syncVars
<1>5. CASE TransferStarts \/ TransferDone \/ PublishVersion
  BY <1>5
  DEF FenceInv, TransferStarts, TransferDone, PublishVersion, Dies,
      NothingEarly, Quiet, Busy, loopVars, taskVars
<1>6. CASE Resume
  BY <1>6, NothingEarlyAfterResume
<1>7. CASE ShutDown \/ ReportRollouts \/ CheckConsumed \/ RequestPrompts
  BY <1>7
  DEF FenceInv, ShutDown, ReportRollouts, CheckConsumed, RequestPrompts,
      NothingEarly, Quiet, Busy, loopVars, syncVars, taskVars
<1>8. CASE GateWaits \/ PutRolloutBatch \/ CollectResults
  BY <1>8
  DEF FenceInv, GateWaits, PutRolloutBatch, CollectResults, NothingEarly,
      syncVars
<1>9. CASE ValidationFeed \/ ValidationCollect
  BY <1>9
  DEF FenceInv, ValidationFeed, ValidationCollect, NothingEarly, syncVars
<1>10. ASSUME NEW t \in Tasks,
             GenerateStart(t) \/ AcquireLease(t) \/ GenerateDone(t) \/ GenerateFails(t)
      PROVE NothingEarly'
  BY <1>10
  DEF FenceInv, GenerateStart, AcquireLease, GenerateDone, GenerateFails,
      NothingEarly, Quiet, Busy, syncVars
<1>11. CASE UNCHANGED vars
  BY <1>11
  DEF FenceInv, NothingEarly, Quiet, Busy, vars, taskVars, loopVars, syncVars
<1>12. QED
  BY <1>1, <1>2, <1>3, <1>4, <1>5, <1>6, <1>7, <1>8, <1>9, <1>10, <1>11
  DEF Next, Worker, Main, Generation, Ended

(* Every step keeps a weight-sync transaction fenced: only the resume that *)
(* ends it opens the scheduler.                                            *)
LEMMA FenceHoldsStep == FenceInv /\ [Next]_vars => FenceHolds'
<1> SUFFICES ASSUME FenceInv, [Next]_vars PROVE FenceHolds'
  OBVIOUS
<1>1. CASE GetNowait
  BY <1>1
  DEF FenceInv, GetNowait, FenceHolds, InSync, Quiet, Busy, cfgVars, flagVars,
      taskVars, syncVars
<1>2. CASE CreateTask
  BY <1>2
  DEF FenceInv, CreateTask, FenceHolds, InSync, Quiet, Busy, cfgVars,
      flagVars, syncVars
<1>3. CASE WorkerSleep
  BY <1>3
  DEF FenceInv, WorkerSleep, FenceHolds, InSync, Quiet, Busy, cfgVars,
      flagVars, taskVars, syncVars
<1>4. CASE WorkerWake
  BY <1>4
  DEF FenceInv, WorkerWake, Finished, FenceHolds, InSync, Quiet, Busy,
      LoopFree, cfgVars, flagVars, syncVars
<1>5. CASE WorkerEnds
  BY <1>5
  DEF FenceInv, WorkerEnds, FenceHolds, Transaction, Quiet, Busy, LoopFree,
      cfgVars, flagVars, taskVars, syncVars
<1>6. CASE DrainPoll
  BY <1>6
  DEF FenceInv, DrainPoll, Drained, Finished, FenceHolds, Transaction, Quiet,
      Busy, LoopFree, cfgVars, taskVars, syncVars
<1>7. CASE PublishSync
  BY <1>7
  DEF FenceInv, PublishSync, FenceHolds, InSync, Quiet, Busy, cfgVars,
      flagVars, loopVars, taskVars
<1>8. CASE PublishStop
  BY <1>8
  DEF FenceInv, PublishStop, FenceHolds, InSync, Quiet, Busy, cfgVars,
      flagVars, loopVars, taskVars
<1>9. CASE QuiesceFails \/ QuiesceTimeout
  BY <1>9
  DEF FenceInv, QuiesceFails, stay_closed, Dies, QuiesceTimeout, FenceHolds,
      Transaction, Busy, taskVars, syncVars
<1>10. CASE ConsumeCommand
  BY <1>10
  DEF FenceInv, ConsumeCommand, FlagsAgree, FenceHolds, CommandsInOrder, Live,
      InSync, Transaction, Quiet, Busy, cfgVars, flagVars, loopVars, taskVars
<1>11. CASE Quiesce
  BY <1>11, SchedulerAssumption
  DEF FenceInv, Quiesce, close_for_drain, Dies, FenceHolds, CommandsInOrder,
      InSync, Transaction, Quiet, Busy, Steps, SyncCommand, cfgVars, taskVars
<1>12. CASE QuiesceReturns
  BY <1>12, SchedulerAssumption
  DEF FenceInv, QuiesceReturns, Dies, FenceHolds, CommandsInOrder, InSync,
      Transaction, Quiet, Busy, Steps, SyncCommand, cfgVars, flagVars,
      taskVars
<1>13. CASE TransferStarts \/ TransferDone \/ PublishVersion
  BY <1>13
  DEF FenceInv, TransferStarts, TransferDone, PublishVersion, Dies,
      FenceHolds, InSync, Transaction, Quiet, Busy, cfgVars, flagVars,
      loopVars, taskVars
<1>14. CASE Resume
  BY <1>14
  DEF FenceInv, Resume, Dies, resume_refused, FenceHolds, Transaction, Busy,
      flagVars, loopVars, taskVars
<1>15. CASE ShutDown \/ ReportRollouts \/ CheckConsumed \/ RequestPrompts
  BY <1>15
  DEF FenceInv, ShutDown, ReportRollouts, Dies, CheckConsumed, RequestPrompts,
      FenceHolds, Transaction, Quiet, Busy, cfgVars, loopVars, syncVars,
      taskVars, flagVars
<1>16. CASE GateWaits \/ PutRolloutBatch
  BY <1>16
  DEF FenceInv, GateWaits, PutRolloutBatch, Dies, FenceHolds, Transaction,
      Quiet, Busy, cfgVars, flagVars, loopVars, syncVars, taskVars
<1>17. CASE CollectResults
  BY <1>17
  DEF FenceInv, CollectResults, FenceHolds, Transaction, Quiet, Busy, cfgVars,
      flagVars, taskVars, syncVars
<1>18. CASE ValidationFeed \/ ValidationCollect
  BY <1>18
  DEF FenceInv, ValidationFeed, Dies, ValidationCollect, FenceHolds,
      Transaction, Quiet, Busy, cfgVars, flagVars, taskVars, syncVars
<1>19. ASSUME NEW t \in Tasks, GenerateDone(t) PROVE FenceHolds'
  BY <1>19
  DEF FenceInv, GenerateDone, FenceHolds, InSync, Quiet, Busy, cfgVars,
      flagVars, syncVars
<1>20. ASSUME NEW t \in Tasks, GenerateStart(t) PROVE FenceHolds'
  BY <1>20
  DEF FenceInv, GenerateStart, FenceHolds, TasksTracked, InSync, Quiet, Busy,
      cfgVars, flagVars, syncVars
<1>21. ASSUME NEW t \in Tasks, AcquireLease(t) PROVE FenceHolds'
  BY <1>21
  DEF FenceInv, AcquireLease, FenceHolds, TasksTracked, Busy, cfgVars,
      syncVars
<1>22. ASSUME NEW t \in Tasks, GenerateFails(t) PROVE FenceHolds'
  BY <1>22
  DEF FenceInv, GenerateFails, poison, FenceHolds, InSync, Quiet, Busy,
      cfgVars, syncVars
<1>23. CASE UNCHANGED vars
  BY <1>23
  DEF FenceInv, FenceHolds, InSync, Quiet, Busy, vars, cfgVars, flagVars,
      taskVars, loopVars, syncVars
<1>24. QED
  BY <1>1, <1>2, <1>3, <1>4, <1>5, <1>6, <1>7, <1>8, <1>9, <1>10, <1>11,
     <1>12, <1>13, <1>14, <1>15, <1>16, <1>17, <1>18, <1>19, <1>20, <1>21,
     <1>22, <1>23
  DEF Next, Worker, Main, Generation, Ended

(* Commands stay in order: publishing and consuming are the two steps that *)
(* move them, and each has its own lemma above.                            *)
LEMMA CommandsInOrderStep == FenceInv /\ [Next]_vars => CommandsInOrder'
<1> SUFFICES ASSUME FenceInv, [Next]_vars PROVE CommandsInOrder'
  OBVIOUS
<1>1. CASE WorkerWake \/ WorkerEnds \/ GetNowait \/ CreateTask \/
           WorkerSleep \/ DrainPoll
  BY <1>1
  DEF FenceInv, WorkerWake, WorkerEnds, GetNowait, CreateTask, WorkerSleep,
      DrainPoll, CommandsInOrder, CommandInOrder, Live, InSync, cfgVars,
      syncVars
<1>2. CASE PublishSync
  BY <1>2, CommandsInOrderAfterPublishSync
<1>3. CASE PublishStop
  BY <1>3 DEF FenceInv, PublishStop, CommandsInOrder, InSync, Command
<1>4. CASE Quiesce \/ QuiesceReturns \/ QuiesceFails \/ QuiesceTimeout
  BY <1>4
  DEF FenceInv, Quiesce, Dies, QuiesceReturns, QuiesceFails, stay_closed,
      QuiesceTimeout, CommandsInOrder, CommandInOrder, Live, InSync,
      Transaction, cfgVars, syncVars
<1>5. CASE ConsumeCommand
  BY <1>5, CommandsInOrderAfterConsumeCommand
<1>6. CASE TransferStarts \/ TransferDone \/ Resume
  BY <1>6
  DEF FenceInv, TransferStarts, TransferDone, Resume, Dies, CommandsInOrder,
      CommandInOrder, Live, InSync, Transaction, cfgVars
<1>7. CASE PublishVersion
  BY <1>7
  DEF FenceInv, PublishVersion, CommandsInOrder, CommandInOrder, Live, InSync,
      Transaction, Steps, SyncCommand, cfgVars
<1>8. CASE ShutDown \/ ReportRollouts \/ CheckConsumed \/ RequestPrompts
  BY <1>8
  DEF FenceInv, ShutDown, ReportRollouts, Dies, CheckConsumed, RequestPrompts,
      CommandsInOrder, CommandInOrder, Live, InSync, Transaction, syncVars,
      cfgVars
<1>9. CASE GateWaits \/ PutRolloutBatch
  BY <1>9
  DEF FenceInv, GateWaits, PutRolloutBatch, Dies, CommandsInOrder,
      CommandInOrder, Live, InSync, Transaction, cfgVars, syncVars
<1>10. CASE CollectResults
  BY <1>10
  DEF FenceInv, CollectResults, CommandsInOrder, CommandInOrder, Live, InSync,
      Transaction, cfgVars, syncVars
<1>11. CASE ValidationFeed \/ ValidationCollect
  BY <1>11
  DEF FenceInv, ValidationFeed, Dies, ValidationCollect, CommandsInOrder,
      CommandInOrder, Live, InSync, Transaction, cfgVars, syncVars
<1>12. ASSUME NEW t \in Tasks,
             GenerateStart(t) \/ AcquireLease(t) \/ GenerateDone(t) \/ GenerateFails(t)
      PROVE CommandsInOrder'
  BY <1>12
  DEF FenceInv, GenerateStart, AcquireLease, GenerateDone, GenerateFails,
      CommandsInOrder, CommandInOrder, Live, InSync, cfgVars, syncVars
<1>13. CASE UNCHANGED vars
  BY <1>13
  DEF FenceInv, CommandsInOrder, CommandInOrder, Live, InSync, vars, cfgVars,
      syncVars
<1>14. QED
  BY <1>1, <1>2, <1>3, <1>4, <1>5, <1>6, <1>7, <1>8, <1>9, <1>10, <1>11,
     <1>12, <1>13
  DEF Next, Worker, Main, Generation, Ended

(* The live model follows the command in progress, and the version follows *)
(* the live model before the fence is opened.                              *)
LEMMA LiveIsVersionStep == FenceInv /\ [Next]_vars => LiveIsVersion'
<1> SUFFICES ASSUME FenceInv, [Next]_vars PROVE LiveIsVersion'
  OBVIOUS
<1>1. CASE WorkerWake \/ WorkerEnds \/ GetNowait \/ CreateTask \/
           WorkerSleep \/ DrainPoll
  BY <1>1
  DEF FenceInv, WorkerWake, WorkerEnds, GetNowait, CreateTask, WorkerSleep,
      DrainPoll, LiveIsVersion, cfgVars, syncVars
<1>2. CASE PublishSync
  BY <1>2 DEF FenceInv, PublishSync, LiveIsVersion, cfgVars
<1>3. CASE PublishStop
  BY <1>3 DEF FenceInv, PublishStop, LiveIsVersion, cfgVars
<1>4. CASE QuiesceFails \/ QuiesceTimeout
  BY <1>4
  DEF FenceInv, QuiesceFails, stay_closed, Dies, QuiesceTimeout,
      LiveIsVersion, syncVars
<1>5. CASE ConsumeCommand
  BY <1>5
  DEF FenceInv, ConsumeCommand, CommandsInOrder, CommandInOrder,
      LiveIsVersion, Live, InSync, Transaction, cfgVars
<1>6. CASE Quiesce
  BY <1>6
  DEF FenceInv, Quiesce, pending_mismatch, Dies, LiveIsVersion, cfgVars
<1>7. CASE QuiesceReturns
  BY <1>7
  DEF FenceInv, QuiesceReturns, Dies, FenceHolds, LiveIsVersion, Transaction,
      cfgVars
<1>8. CASE PublishVersion \/ Resume
  BY <1>8 DEF FenceInv, PublishVersion, Dies, Resume, LiveIsVersion
<1>9. CASE TransferStarts
  BY <1>9
  DEF FenceInv, TransferStarts, WritesLive, FenceHolds, LiveIsVersion,
      Transaction, cfgVars
<1>10. CASE TransferDone
  BY <1>10
  DEF FenceInv, TransferDone, WritesLive, transferred, FenceHolds,
      CommandsInOrder, LiveIsVersion, InSync, Transaction, SyncCommand
<1>11. CASE ShutDown \/ ReportRollouts \/ CheckConsumed \/ RequestPrompts
  BY <1>11
  DEF FenceInv, ShutDown, ReportRollouts, Dies, CheckConsumed, RequestPrompts,
      LiveIsVersion, syncVars
<1>12. CASE GateWaits \/ PutRolloutBatch
  BY <1>12
  DEF FenceInv, GateWaits, PutRolloutBatch, Dies, LiveIsVersion, syncVars
<1>13. CASE CollectResults
  BY <1>13 DEF FenceInv, CollectResults, LiveIsVersion, syncVars
<1>14. CASE ValidationFeed \/ ValidationCollect
  BY <1>14
  DEF FenceInv, ValidationFeed, Dies, ValidationCollect, LiveIsVersion,
      syncVars
<1>15. ASSUME NEW t \in Tasks,
             GenerateStart(t) \/ AcquireLease(t) \/ GenerateDone(t) \/ GenerateFails(t)
      PROVE LiveIsVersion'
  BY <1>15
  DEF FenceInv, GenerateStart, AcquireLease, GenerateDone, GenerateFails,
      LiveIsVersion, cfgVars, syncVars
<1>16. CASE UNCHANGED vars
  BY <1>16 DEF FenceInv, LiveIsVersion, vars, cfgVars, syncVars
<1>17. QED
  BY <1>1, <1>2, <1>3, <1>4, <1>5, <1>6, <1>7, <1>8, <1>9, <1>10, <1>11,
     <1>12, <1>13, <1>14, <1>15, <1>16
  DEF Next, Worker, Main, Generation, Ended

(* A task keeps the stamp and the lease it was created with.               *)
LEMMA TasksTrackedStep == FenceInv /\ [Next]_vars => TasksTracked'
<1> SUFFICES ASSUME FenceInv, [Next]_vars PROVE TasksTracked'
  OBVIOUS
<1>1. CASE WorkerWake \/ WorkerEnds \/ GetNowait \/ CreateTask \/
           WorkerSleep \/ DrainPoll
  BY <1>1
  DEF FenceInv, WorkerWake, WorkerEnds, GetNowait, CreateTask, WorkerSleep,
      DrainPoll, TasksTracked, Ran, cfgVars, syncVars, taskVars
<1>2. CASE PublishSync
  BY <1>2
  DEF FenceInv, PublishSync, TasksTracked, Ran, cfgVars, loopVars, taskVars
<1>3. CASE PublishStop
  BY <1>3
  DEF FenceInv, PublishStop, TasksTracked, Ran, cfgVars, loopVars, taskVars
<1>4. CASE ConsumeCommand \/ Quiesce \/ QuiesceReturns \/ QuiesceFails \/
           QuiesceTimeout
  BY <1>4
  DEF FenceInv, ConsumeCommand, Quiesce, QuiesceReturns, QuiesceFails,
      stay_closed, QuiesceTimeout, TasksTracked, Ran, cfgVars, loopVars,
      taskVars, syncVars
<1>5. CASE TransferStarts \/ TransferDone \/ Resume
  BY <1>5
  DEF FenceInv, TransferStarts, TransferDone, Resume, TasksTracked, Ran,
      cfgVars, loopVars, taskVars
<1>6. CASE PublishVersion
  BY <1>6
  DEF FenceInv, PublishVersion, CommandsInOrder, TasksTracked, InSync,
      Transaction, Ran, Steps, SyncCommand, cfgVars, loopVars, taskVars
<1>7. CASE ShutDown \/ ReportRollouts \/ CheckConsumed \/ RequestPrompts
  BY <1>7
  DEF FenceInv, ShutDown, ReportRollouts, CheckConsumed, RequestPrompts,
      TasksTracked, Ran, cfgVars, loopVars, syncVars, taskVars
<1>8. CASE GateWaits \/ PutRolloutBatch
  BY <1>8
  DEF FenceInv, GateWaits, PutRolloutBatch, TasksTracked, Ran, cfgVars,
      loopVars, syncVars, taskVars
<1>9. CASE CollectResults
  BY <1>9
  DEF FenceInv, CollectResults, TasksTracked, Ran, cfgVars, taskVars, syncVars
<1>10. CASE ValidationFeed \/ ValidationCollect
  BY <1>10
  DEF FenceInv, ValidationFeed, ValidationCollect, TasksTracked, Ran, cfgVars,
      taskVars, syncVars
<1>11. ASSUME NEW t \in Tasks,
             AcquireLease(t) \/ GenerateDone(t) \/ GenerateFails(t)
      PROVE TasksTracked'
  BY <1>11
  DEF FenceInv, AcquireLease, GenerateDone, GenerateFails, TasksTracked, Ran,
      cfgVars, syncVars
<1>12. ASSUME NEW t \in Tasks, GenerateStart(t) PROVE TasksTracked'
  BY <1>12
  DEF FenceInv, GenerateStart, FenceHolds, CommandsInOrder, TasksTracked, Ran,
      Steps, cfgVars, syncVars
<1>13. CASE UNCHANGED vars
  BY <1>13
  DEF FenceInv, TasksTracked, Ran, vars, cfgVars, taskVars, loopVars, syncVars
<1>14. QED
  BY <1>1, <1>2, <1>3, <1>4, <1>5, <1>6, <1>7, <1>8, <1>9, <1>10, <1>11,
     <1>12, <1>13
  DEF Next, Worker, Main, Generation, Ended

(* No step starts a generation on torn weights or writes under one: the    *)
(* writing steps are fenced, the starting ones need an open fence.         *)
LEMMA GenerationsSeeOneModelStep == FenceInv /\ [Next]_vars => GenerationsSeeOneModel'
<1> SUFFICES ASSUME FenceInv, [Next]_vars PROVE GenerationsSeeOneModel'
  OBVIOUS
<1>1. CASE WorkerWake \/ WorkerEnds \/ GetNowait
  BY <1>1
  DEF FenceInv, WorkerWake, WorkerEnds, GetNowait, GenerationsSeeOneModel,
      Ran, cfgVars, syncVars, taskVars
<1>2. CASE CreateTask
  BY <1>2
  DEF FenceInv, CreateTask, GenerationsSeeOneModel, Ran, cfgVars, syncVars
<1>3. CASE WorkerSleep
  BY <1>3
  DEF FenceInv, WorkerSleep, GenerationsSeeOneModel, Ran, cfgVars, taskVars,
      syncVars
<1>4. CASE DrainPoll
  BY <1>4
  DEF FenceInv, DrainPoll, GenerationsSeeOneModel, Ran, cfgVars, taskVars,
      syncVars
<1>5. CASE PublishSync
  BY <1>5
  DEF FenceInv, PublishSync, GenerationsSeeOneModel, Ran, cfgVars, loopVars,
      taskVars
<1>6. CASE PublishStop
  BY <1>6
  DEF FenceInv, PublishStop, GenerationsSeeOneModel, Ran, cfgVars, loopVars,
      taskVars
<1>7. CASE ConsumeCommand \/ Quiesce \/ QuiesceReturns \/ QuiesceFails \/
           QuiesceTimeout
  BY <1>7
  DEF FenceInv, ConsumeCommand, Quiesce, QuiesceReturns, QuiesceFails,
      stay_closed, QuiesceTimeout, GenerationsSeeOneModel, Ran, cfgVars,
      loopVars, taskVars, syncVars
<1>8. CASE PublishVersion \/ Resume
  BY <1>8
  DEF FenceInv, PublishVersion, Resume, GenerationsSeeOneModel, Ran, cfgVars,
      loopVars, taskVars
<1>9. CASE TransferStarts
  BY <1>9
  DEF FenceInv, TransferStarts, FenceHolds, GenerationsSeeOneModel,
      Transaction, Quiet, Busy, Ran, cfgVars, loopVars, taskVars
<1>10. CASE TransferDone
  BY <1>10
  DEF FenceInv, TransferDone, FenceHolds, GenerationsSeeOneModel, Transaction,
      Quiet, Busy, Ran, cfgVars, loopVars, taskVars
<1>11. CASE ShutDown \/ ReportRollouts \/ CheckConsumed \/ RequestPrompts
  BY <1>11
  DEF FenceInv, ShutDown, ReportRollouts, CheckConsumed, RequestPrompts,
      GenerationsSeeOneModel, Ran, cfgVars, loopVars, syncVars, taskVars
<1>12. CASE GateWaits \/ PutRolloutBatch
  BY <1>12
  DEF FenceInv, GateWaits, PutRolloutBatch, GenerationsSeeOneModel, Ran,
      cfgVars, loopVars, syncVars, taskVars
<1>13. CASE CollectResults
  BY <1>13
  DEF FenceInv, CollectResults, GenerationsSeeOneModel, Ran, cfgVars,
      taskVars, syncVars
<1>14. CASE ValidationFeed \/ ValidationCollect
  BY <1>14
  DEF FenceInv, ValidationFeed, ValidationCollect, GenerationsSeeOneModel,
      Ran, cfgVars, taskVars, syncVars
<1>15. ASSUME NEW t \in Tasks, GenerateDone(t) PROVE GenerationsSeeOneModel'
  BY <1>15
  DEF FenceInv, GenerateDone, GenerationsSeeOneModel, Ran, cfgVars, syncVars
<1>16. ASSUME NEW t \in Tasks, GenerateFails(t) PROVE GenerationsSeeOneModel'
  BY <1>16
  DEF FenceInv, GenerateFails, GenerationsSeeOneModel, Ran, cfgVars, syncVars
<1>17. ASSUME NEW t \in Tasks, GenerateStart(t) PROVE GenerationsSeeOneModel'
  BY <1>17
  DEF FenceInv, GenerateStart, NothingEarly, FenceHolds, CommandsInOrder,
      LiveIsVersion, TasksTracked, GenerationsSeeOneModel, Quiet, Busy, Ran,
      cfgVars, syncVars
<1>18. ASSUME NEW t \in Tasks, AcquireLease(t) PROVE GenerationsSeeOneModel'
  BY <1>18
  DEF FenceInv, AcquireLease, NothingEarly, FenceHolds, CommandsInOrder,
      LiveIsVersion, TasksTracked, GenerationsSeeOneModel, Quiet, Busy, Ran,
      cfgVars
<1>19. CASE UNCHANGED vars
  BY <1>19
  DEF FenceInv, GenerationsSeeOneModel, Ran, vars, cfgVars, taskVars,
      loopVars, syncVars
<1>20. QED
  BY <1>1, <1>2, <1>3, <1>4, <1>5, <1>6, <1>7, <1>8, <1>9, <1>10, <1>11,
     <1>12, <1>13, <1>14, <1>15, <1>16, <1>17, <1>18, <1>19
  DEF Next, Worker, Main, Generation, Ended

(* No step makes the stamp of a task newer than the weights it runs with.  *)
LEMMA StampIsHonestStep == FenceInv /\ [Next]_vars => StampIsHonest'
<1> SUFFICES ASSUME FenceInv, [Next]_vars PROVE StampIsHonest'
  OBVIOUS
<1>1. CASE WorkerWake \/ WorkerEnds \/ GetNowait
  BY <1>1
  DEF FenceInv, WorkerWake, WorkerEnds, GetNowait, StampIsHonest, Ran,
      cfgVars, taskVars
<1>2. CASE CreateTask
  BY <1>2 DEF FenceInv, CreateTask, StampIsHonest, Ran, cfgVars
<1>3. CASE WorkerSleep
  BY <1>3 DEF FenceInv, WorkerSleep, StampIsHonest, Ran, cfgVars, taskVars
<1>4. CASE DrainPoll
  BY <1>4 DEF FenceInv, DrainPoll, StampIsHonest, Ran, cfgVars, taskVars
<1>5. CASE PublishSync
  BY <1>5
  DEF FenceInv, PublishSync, StampIsHonest, Ran, cfgVars, loopVars, taskVars
<1>6. CASE PublishStop
  BY <1>6
  DEF FenceInv, PublishStop, StampIsHonest, Ran, cfgVars, loopVars, taskVars
<1>7. CASE ConsumeCommand \/ Quiesce \/ QuiesceReturns \/ QuiesceFails \/
           QuiesceTimeout
  BY <1>7
  DEF FenceInv, ConsumeCommand, Quiesce, QuiesceReturns, QuiesceFails,
      stay_closed, QuiesceTimeout, StampIsHonest, Ran, cfgVars, loopVars,
      taskVars
<1>8. CASE TransferStarts \/ TransferDone \/ PublishVersion \/ Resume
  BY <1>8
  DEF FenceInv, TransferStarts, TransferDone, PublishVersion, Resume,
      StampIsHonest, Ran, cfgVars, loopVars, taskVars
<1>9. CASE ShutDown \/ ReportRollouts \/ CheckConsumed \/ RequestPrompts
  BY <1>9
  DEF FenceInv, ShutDown, ReportRollouts, CheckConsumed, RequestPrompts,
      StampIsHonest, Ran, cfgVars, loopVars, taskVars
<1>10. CASE GateWaits \/ PutRolloutBatch
  BY <1>10
  DEF FenceInv, GateWaits, PutRolloutBatch, StampIsHonest, Ran, cfgVars,
      loopVars, taskVars
<1>11. CASE CollectResults
  BY <1>11 DEF FenceInv, CollectResults, StampIsHonest, Ran, cfgVars, taskVars
<1>12. CASE ValidationFeed \/ ValidationCollect
  BY <1>12
  DEF FenceInv, ValidationFeed, ValidationCollect, StampIsHonest, Ran,
      cfgVars, taskVars
<1>13. ASSUME NEW t \in Tasks, GenerateDone(t) PROVE StampIsHonest'
  BY <1>13 DEF FenceInv, GenerateDone, StampIsHonest, Ran, cfgVars
<1>14. ASSUME NEW t \in Tasks, GenerateFails(t) PROVE StampIsHonest'
  BY <1>14 DEF FenceInv, GenerateFails, StampIsHonest, Ran, cfgVars
<1>15. ASSUME NEW t \in Tasks, GenerateStart(t) PROVE StampIsHonest'
  BY <1>15
  DEF FenceInv, GenerateStart, NothingEarly, FenceHolds, CommandsInOrder,
      LiveIsVersion, TasksTracked, StampIsHonest, Quiet, Busy, Ran, Steps,
      cfgVars
<1>16. ASSUME NEW t \in Tasks, AcquireLease(t) PROVE StampIsHonest'
  BY <1>16
  DEF FenceInv, AcquireLease, NothingEarly, FenceHolds, LiveIsVersion,
      TasksTracked, StampIsHonest, Quiet, Busy, Ran, cfgVars
<1>17. CASE UNCHANGED vars
  BY <1>17 DEF FenceInv, StampIsHonest, Ran, vars, cfgVars, taskVars, loopVars
<1>18. QED
  BY <1>1, <1>2, <1>3, <1>4, <1>5, <1>6, <1>7, <1>8, <1>9, <1>10, <1>11,
     <1>12, <1>13, <1>14, <1>15, <1>16, <1>17
  DEF Next, Worker, Main, Generation, Ended

-----------------------------------------------------------------------------
(* The theorems *)

(* The scheduler starts closed, idle and unsynced, with no command queued. *)
LEMMA FenceInit == Init => FenceInv
<1> SUFFICES ASSUME Init PROVE FenceInv
  OBVIOUS
<1>1. FlagsAgree
  BY DEF Init, FlagsAgree, Live, InSync, Transaction
<1>2. NothingEarly /\ FenceHolds
  BY DEF Init, NothingEarly, FenceHolds, Quiet, Busy, Transaction
<1>3. CommandsInOrder
  <2>1. commands \in Seq(Command) /\ Len(commands) = 0
    BY DEF Init
  <2>2. version \in Steps /\ published \in Nat /\ version <= published
    BY SchedulerAssumption DEF Init, Steps
  <2>3. mpc = "loop"
    BY DEF Init
  <2>4. QED
    BY <2>1, <2>2, <2>3 DEF CommandsInOrder, InSync, Transaction
<1>4. LiveIsVersion
  BY DEF Init, LiveIsVersion
<1>5. TasksTracked /\ GenerationsSeeOneModel /\ StampIsHonest
  BY DEF Init, TasksTracked, GenerationsSeeOneModel, StampIsHonest, Ran
<1>6. QED
  BY <1>1, <1>2, <1>3, <1>4, <1>5 DEF FenceInv

(* The weight-sync protocol of _quiesce_async_scheduler_for_weight_sync,   *)
(* the transfer, the published version and                                 *)
(* _resume_async_scheduler_after_weight_sync keep the whole fence          *)
(* invariant, whatever the event loop of the scheduler does meanwhile.     *)
THEOREM FenceCorrect == Spec => []FenceInv
<1>1. FenceInv /\ [Next]_vars => FenceInv'
  BY FlagsAgreeStep, NothingEarlyStep, FenceHoldsStep, CommandsInOrderStep,
     LiveIsVersionStep, TasksTrackedStep, GenerationsSeeOneModelStep,
     StampIsHonestStep
  DEF FenceInv
<1>2. QED
  BY FenceInit, <1>1, PTL DEF Spec

(* "No generation observes a partially written model": the promise of      *)
(* _quiesce_async_scheduler_for_weight_sync.                               *)
THEOREM OneModelPerGeneration == Spec => []GenerationsSeeOneModel
<1>1. FenceInv => GenerationsSeeOneModel
  BY DEF FenceInv
<1>2. QED
  BY FenceCorrect, <1>1, PTL

(* The version _generate_single stamps on a sample is never newer than the *)
(* weights that produced it, and without leases it is exactly theirs.      *)
THEOREM HonestStamps == Spec => []StampIsHonest
<1>1. FenceInv => StampIsHonest
  BY DEF FenceInv
<1>2. QED
  BY FenceCorrect, <1>1, PTL

(* A poisoned scheduler (_poison) never admits nor dispatches again, in    *)
(* whichever order the failure meets the fence, the drain and the resume.  *)
THEOREM ClosedAfterFailure == Spec => []FailClosed
<1>1. FenceInv => FailClosed
  BY DEF FenceInv, FlagsAgree, FailClosed
<1>2. QED
  BY FenceCorrect, <1>1, PTL

(* The main loop dies only of a failure it was told of: no assertion and   *)
(* no precondition of the weight-sync path fails by itself.                *)
THEOREM DeathMeansFailure == Spec => []DiesOnlyOfFailure
<1>1. FenceInv => DiesOnlyOfFailure
  BY DEF FenceInv, FlagsAgree, DiesOnlyOfFailure
<1>2. QED
  BY FenceCorrect, <1>1, PTL

-----------------------------------------------------------------------------
(* Admission *)

(* What the scheduler holds: queued, just taken off the queue, active.     *)
Load == Len(task_queue) + Cardinality(active) + (IF popped = None THEN 0 ELSE 1)

LoadTypes ==
  /\ task_queue \in Seq(Int) /\ prompt_queue \in Seq(Int) /\ IsFiniteSet(active)
  /\ fetched \in 0 .. Prompts /\ val_fed \in Int /\ val_left \in Int

(* The batch in _prompt_queue counts from the moment it is fetched: the    *)
(* room was measured then.  A validation takes the room while such a batch *)
(* waits, and gives all of it back before the batch can be put.            *)
Room ==
  /\ Cardinality(active) <= MaxConcurrent
  /\ popped # None => Cardinality(active) < MaxConcurrent
  /\ Load <= MaxConcurrent + 1
  /\ Len(prompt_queue) <= MaxConcurrent
  /\ ~Validating /\ mpc # "dead" => Load + Len(prompt_queue) <= MaxConcurrent + 1

Admitted == LoadTypes /\ Room

(* Nothing has been admitted when the worker starts.                       *)
LEMMA AdmittedInit == Init => Admitted
<1>. SUFFICES ASSUME Init PROVE Admitted
  OBVIOUS
<1>1. /\ task_queue = <<>> /\ prompt_queue = <<>> /\ active = {} /\ popped = None
      /\ fetched = 0 /\ val_fed = 0 /\ val_left = 0
  BY DEF Init
<1>2. IsFiniteSet(active) /\ Cardinality(active) = 0
  BY <1>1, FS_EmptySet
<1>3. Len(task_queue) = 0 /\ Len(prompt_queue) = 0
  BY <1>1
<1>4. LoadTypes
  BY <1>1, <1>2, SchedulerAssumption DEF LoadTypes
<1>5. Room
  BY <1>1, <1>2, <1>3, SchedulerAssumption DEF Room, Load
<1>. QED
  BY <1>4, <1>5 DEF Admitted

(* The sizes Load adds up are natural numbers.                             *)
LEMMA Sizes ==
  ASSUME LoadTypes
  PROVE  /\ Len(task_queue) \in Nat /\ Len(prompt_queue) \in Nat
         /\ Cardinality(active) \in Nat /\ Load \in Nat
<1>1. Len(task_queue) \in Nat /\ Len(prompt_queue) \in Nat
  BY LenProperties DEF LoadTypes
<1>2. Cardinality(active) \in Nat
  BY FS_CardinalityType DEF LoadTypes
<1>. QED
  BY <1>1, <1>2 DEF Load

(* A step that leaves queues and tasks alone, and ends no validation.      *)
LEMMA AdmittedKept ==
  ASSUME Admitted,
         UNCHANGED <<task_queue, prompt_queue, active, popped, fetched, val_fed>>,
         val_left' \in Int, Validating /\ mpc' # "dead" => Validating',
         mpc = "dead" => mpc' = "dead"
  PROVE  Admitted'
<1>1. LoadTypes'
  BY DEF Admitted, LoadTypes
<1>2. Load' = Load
  BY DEF Load
<1>3. Room'
  BY <1>2 DEF Admitted, Room
<1>. QED
  BY <1>1, <1>3 DEF Admitted

(* _worker_loop drops the tasks that have finished.                        *)
LEMMA AdmittedAfterWake == Admitted /\ WorkerWake => Admitted'
<1>. SUFFICES ASSUME Admitted, WorkerWake PROVE Admitted'
  OBVIOUS
<1>1. /\ UNCHANGED <<task_queue, prompt_queue, popped, fetched, val_fed, val_left, mpc>>
      /\ active' \in SUBSET active
  BY DEF WorkerWake, feedVars, valVars
<1>2. LoadTypes
  BY DEF Admitted
<1>3. IsFiniteSet(active') /\ Cardinality(active') <= Cardinality(active)
  BY <1>1, <1>2, FS_Subset DEF LoadTypes
<1>4. LoadTypes'
  BY <1>1, <1>2, <1>3 DEF LoadTypes
<1>5. Cardinality(active') \in Nat
  BY <1>3, FS_CardinalityType
<1>6. Load' \in Nat /\ Load' <= Load
  BY <1>1, <1>2, <1>3, <1>5, Sizes DEF Load
<1>7. Validating' = Validating
  BY <1>1 DEF Validating
<1>8. Room
  BY DEF Admitted
<1>9. Room'
  BY <1>1, <1>2, <1>3, <1>5, <1>6, <1>7, <1>8, Sizes, SchedulerAssumption DEF Room
<1>. QED
  BY <1>4, <1>9 DEF Admitted

(* get_nowait: a task leaves the queue only when there is room for it.     *)
LEMMA AdmittedAfterGet == Admitted /\ GetNowait => Admitted'
<1>. SUFFICES ASSUME Admitted, GetNowait PROVE Admitted'
  OBVIOUS
<1>1. /\ UNCHANGED <<prompt_queue, active, fetched, val_fed, val_left, mpc>>
      /\ popped = None /\ task_queue # <<>> /\ task_queue' = Tail(task_queue)
      /\ Cardinality(active) < MaxConcurrent
  BY DEF GetNowait, may_launch, taskVars, feedVars, valVars
<1>2. LoadTypes /\ Room
  BY DEF Admitted
<1>3. task_queue' \in Seq(Int) /\ Len(task_queue') = Len(task_queue) - 1
  BY <1>1, <1>2, HeadTailProperties DEF LoadTypes
<1>4. LoadTypes'
  BY <1>1, <1>2, <1>3 DEF LoadTypes
<1>5. Load' \in Nat /\ Load' <= Load
  BY <1>1, <1>2, <1>3, <1>4, Sizes DEF Load
<1>6. Validating' = Validating
  BY <1>1 DEF Validating
<1>7. Room'
  BY <1>1, <1>2, <1>4, <1>5, <1>6, Sizes, SchedulerAssumption DEF Room
<1>. QED
  BY <1>4, <1>7 DEF Admitted

(* The task that was taken off becomes active.                             *)
LEMMA AdmittedAfterCreate == Admitted /\ CreateTask => Admitted'
<1>. SUFFICES ASSUME Admitted, CreateTask PROVE Admitted'
  OBVIOUS
<1>1. /\ UNCHANGED <<task_queue, prompt_queue, fetched, val_fed, val_left, mpc>>
      /\ popped # None /\ popped' = None /\ active' = active \cup {popped}
  BY DEF CreateTask, feedVars, valVars
<1>2. LoadTypes /\ Room
  BY DEF Admitted
<1>3. /\ IsFiniteSet(active') /\ Cardinality(active') \in Nat
      /\ Cardinality(active') <= Cardinality(active) + 1
  <2>1. IsFiniteSet(active) /\ Cardinality(active) \in Nat
    BY <1>2, Sizes DEF LoadTypes
  <2>2. /\ IsFiniteSet(active \cup {popped})
        /\ Cardinality(active \cup {popped})
             = IF popped \in active THEN Cardinality(active) ELSE Cardinality(active) + 1
    BY <2>1, FS_AddElement
  <2>. QED
    BY <1>1, <2>1, <2>2
<1>4. LoadTypes'
  BY <1>1, <1>2, <1>3 DEF LoadTypes
<1>5. Load' \in Nat /\ Load' <= Load
  BY <1>1, <1>2, <1>3, Sizes DEF Load
<1>6. Validating' = Validating
  BY <1>1 DEF Validating
<1>7. Room'
  BY <1>1, <1>2, <1>3, <1>5, <1>6, Sizes, SchedulerAssumption DEF Room
<1>. QED
  BY <1>4, <1>7 DEF Admitted

(* The smaller of two integers.                                            *)
LEMMA LeastProperties ==
  ASSUME NEW a \in Int, NEW b \in Int
  PROVE  Least(a, b) \in Int /\ Least(a, b) <= a /\ Least(a, b) <= b
         /\ (Least(a, b) = a \/ Least(a, b) = b)
  BY DEF Least

(* request_prompts_count asks for no more than the room that is left.      *)
LEMMA RoomLeft ==
  ASSUME LoadTypes
  PROVE  /\ request_prompts_count(BatchSize) \in Int
         /\ request_prompts_count(BatchSize)
              <= MaxConcurrent - Len(task_queue) - Cardinality(active)
<1>. DEFINE room == MaxConcurrent - Len(task_queue) - Cardinality(active)
<1>1. room \in Int /\ BatchSize \in Int
  BY Sizes, SchedulerAssumption
<1>2. request_prompts_count(BatchSize) = Least(BatchSize, room)
  BY DEF request_prompts_count
<1>. HIDE DEF room
<1>3. request_prompts_count(BatchSize) \in Int /\ request_prompts_count(BatchSize) <= room
  BY <1>1, <1>2, LeastProperties
<1>. QED
  BY <1>3 DEF room

(* A batch of n consecutive numbers, as fetched or fed.                    *)
LEMMA BatchProperties ==
  ASSUME NEW n \in Nat, NEW k \in Int
  PROVE  /\ [i \in 1 .. n |-> k + i] \in Seq(Int)
         /\ Len([i \in 1 .. n |-> k + i]) = n
  OBVIOUS

(* The request is cut to the room that is left when it is made.            *)
LEMMA AdmittedAfterRequest == Admitted /\ RequestPrompts => Admitted'
<1>. SUFFICES ASSUME Admitted, RequestPrompts PROVE Admitted'
  OBVIOUS
<1>. DEFINE want == request_prompts_count(BatchSize)
            n == IF prompt_queue = <<>> THEN Least(want, Prompts - fetched) ELSE 0
<1>1. /\ UNCHANGED <<task_queue, active, popped, val_fed, val_left>> /\ mpc = "feed"
      /\ IF want <= 0
         THEN mpc' = "collect" /\ UNCHANGED <<fetched, prompt_queue, is_end>>
         ELSE /\ prompt_queue' = prompt_queue \o [i \in 1 .. n |-> fetched + i]
              /\ fetched' = fetched + n
              /\ mpc' = "put"
  BY DEF RequestPrompts, loopVars, taskVars, valVars
<1>2. LoadTypes /\ Room /\ fetched \in 0 .. Prompts
  BY DEF Admitted, LoadTypes
<1>3. ~Validating /\ ~Validating' /\ mpc' # "dead" /\ mpc # "dead"
  BY <1>1 DEF Validating
<1>4. CASE want <= 0
  BY <1>1, <1>2, <1>3, <1>4, AdmittedKept DEF LoadTypes
<1>5. CASE ~(want <= 0)
  <2>1. /\ want \in Int
        /\ want <= MaxConcurrent - Len(task_queue) - Cardinality(active)
    BY <1>2, RoomLeft
  <2>. HIDE DEF want
  <2>2. n \in Nat /\ n <= want /\ fetched + n \in 0 .. Prompts
    <3>1. want \in Nat /\ Prompts - fetched \in Nat
      BY <2>1, <1>2, <1>5, SchedulerAssumption
    <3>2. n = 0 \/ n = Least(want, Prompts - fetched)
      OBVIOUS
    <3>. QED
      BY <1>2, <3>1, <3>2, SchedulerAssumption DEF Least
  <2>3. prompt_queue # <<>> => n = 0
    OBVIOUS
  <2>. HIDE DEF n
  <2>4. /\ [i \in 1 .. n |-> fetched + i] \in Seq(Int)
        /\ Len([i \in 1 .. n |-> fetched + i]) = n
    BY <2>2, <1>2, SchedulerAssumption, BatchProperties
  <2>5. /\ prompt_queue' \in Seq(Int) /\ Len(prompt_queue') = Len(prompt_queue) + n
    <3>. DEFINE got == [i \in 1 .. n |-> fetched + i]
    <3>1. got \in Seq(Int) /\ Len(got) = n /\ prompt_queue' = prompt_queue \o got
      BY <1>1, <1>5, <2>4
    <3>. HIDE DEF got
    <3>2. prompt_queue \in Seq(Int)
      BY <1>2 DEF LoadTypes
    <3>. QED
      BY <3>1, <3>2, ConcatProperties
  <2>6. LoadTypes'
    BY <1>1, <1>2, <1>5, <2>2, <2>5 DEF LoadTypes
  <2>7. Load' = Load /\ Load <= Len(task_queue) + Cardinality(active) + 1
    BY <1>1, <1>2, Sizes DEF Load
  <2>8. /\ prompt_queue = <<>> => Len(prompt_queue) = 0
    OBVIOUS
  <2>9. /\ Len(prompt_queue') <= MaxConcurrent
        /\ Load' + Len(prompt_queue') <= MaxConcurrent + 1
    <3>1. CASE prompt_queue = <<>>
      BY <3>1, <1>2, <2>1, <2>2, <2>5, <2>7, <2>8, Sizes, SchedulerAssumption
    <3>2. CASE prompt_queue # <<>>
      BY <3>2, <1>2, <1>3, <2>3, <2>5, <2>7, Sizes, SchedulerAssumption DEF Room
    <3>. QED
      BY <3>1, <3>2
  <2>10. Room'
    BY <1>1, <1>2, <1>3, <2>7, <2>9 DEF Room
  <2>. QED
    BY <2>6, <2>10 DEF Admitted
<1>. QED
  BY <1>4, <1>5

(* The batch moves to the scheduler's queue, or is dropped.                *)
LEMMA AdmittedAfterPut == Admitted /\ PutRolloutBatch => Admitted'
<1>. SUFFICES ASSUME Admitted, PutRolloutBatch PROVE Admitted'
  OBVIOUS
<1>1. UNCHANGED <<active, popped, fetched, val_fed, val_left>> /\ mpc = "put"
  BY DEF PutRolloutBatch, taskVars, valVars
<1>2. LoadTypes /\ Room
  BY DEF Admitted
<1>3. ~Validating /\ ~Validating' /\ mpc # "dead"
  BY <1>1 DEF Validating, PutRolloutBatch, Dies
<1>4. \/ UNCHANGED <<prompt_queue, task_queue>>
      \/ prompt_queue' = <<>> /\ task_queue' = task_queue
      \/ prompt_queue' = <<>> /\ task_queue' = task_queue \o prompt_queue
  BY DEF PutRolloutBatch
<1>5. /\ task_queue' \in Seq(Int) /\ prompt_queue' \in Seq(Int)
      /\ Len(task_queue') \in Nat /\ Len(prompt_queue') \in Nat
      /\ Len(task_queue') + Len(prompt_queue') <= Len(task_queue) + Len(prompt_queue)
      /\ Len(prompt_queue') <= Len(prompt_queue)
  <2>1. <<>> \in Seq(Int) /\ Len(<<>>) = 0
    OBVIOUS
  <2>2. /\ task_queue \o prompt_queue \in Seq(Int)
        /\ Len(task_queue \o prompt_queue) = Len(task_queue) + Len(prompt_queue)
    BY <1>2, ConcatProperties DEF LoadTypes
  <2>. QED
    <3>1. /\ task_queue \in Seq(Int) /\ prompt_queue \in Seq(Int)
          /\ Len(task_queue) \in Nat /\ Len(prompt_queue) \in Nat
      BY <1>2, Sizes DEF LoadTypes
    <3>2. CASE UNCHANGED <<prompt_queue, task_queue>>
      BY <3>1, <3>2
    <3>3. CASE prompt_queue' = <<>> /\ task_queue' = task_queue
      BY <2>1, <3>1, <3>3
    <3>4. CASE prompt_queue' = <<>> /\ task_queue' = task_queue \o prompt_queue
      BY <2>1, <2>2, <3>1, <3>4
    <3>. QED
      BY <1>4, <3>2, <3>3, <3>4
<1>6. LoadTypes'
  BY <1>1, <1>2, <1>5 DEF LoadTypes
<1>7. Load' \in Nat /\ Load' + Len(prompt_queue') <= Load + Len(prompt_queue)
  BY <1>1, <1>2, <1>5, Sizes DEF Load
<1>8. Room'
  BY <1>1, <1>2, <1>3, <1>5, <1>7, Sizes, SchedulerAssumption DEF Room
<1>. QED
  BY <1>6, <1>8 DEF Admitted

(* Validation prompts are admitted into the same room.                     *)
LEMMA AdmittedAfterFeed == Admitted /\ ValidationFeed => Admitted'
<1>. SUFFICES ASSUME Admitted, ValidationFeed PROVE Admitted'
  OBVIOUS
<1>. DEFINE n == Least(request_prompts_count(BatchSize), val_left)
<1>1. /\ UNCHANGED <<active, popped, fetched, prompt_queue>> /\ mpc = "val_feed"
      /\ IF n <= 0
         THEN mpc' = "val_collect" /\ UNCHANGED <<task_queue, val_fed, val_left>>
         ELSE /\ task_queue' = IF admissible
                               THEN task_queue \o [i \in 1 .. n |-> Prompts + val_fed + i]
                               ELSE task_queue
              /\ val_fed' = val_fed + n /\ val_left' = val_left - n
              /\ IF admissible THEN mpc' = "val_collect" ELSE mpc' = "dead"
  BY DEF ValidationFeed, taskVars, feedVars, Dies
<1>2. LoadTypes /\ Room
  BY DEF Admitted
<1>3. /\ n \in Int
      /\ n <= MaxConcurrent - Len(task_queue) - Cardinality(active)
  <2>. DEFINE want == request_prompts_count(BatchSize)
              room == MaxConcurrent - Len(task_queue) - Cardinality(active)
  <2>1. want \in Int /\ room \in Int /\ want <= room /\ val_left \in Int
    BY <1>2, RoomLeft, Sizes, SchedulerAssumption DEF LoadTypes
  <2>2. n = Least(want, val_left)
    OBVIOUS
  <2>. HIDE DEF want, room, n
  <2>3. n \in Int /\ n <= want
    BY <2>1, <2>2, LeastProperties
  <2>4. n <= room
    BY <2>1, <2>3
  <2>. QED
    BY <2>3, <2>4 DEF room
<1>. HIDE DEF n
<1>4. CASE n <= 0
  BY <1>1, <1>2, <1>4, AdmittedKept DEF LoadTypes, Validating
<1>5. CASE ~(n <= 0)
  <2>1. n \in Nat /\ val_fed \in Int /\ Prompts + val_fed \in Int
    BY <1>2, <1>3, <1>5, SchedulerAssumption DEF LoadTypes
  <2>2. /\ [i \in 1 .. n |-> Prompts + val_fed + i] \in Seq(Int)
        /\ Len([i \in 1 .. n |-> Prompts + val_fed + i]) = n
    BY <2>1, BatchProperties
  <2>. DEFINE fed == [i \in 1 .. n |-> Prompts + val_fed + i]
  <2>. HIDE DEF fed
  <2>3. task_queue \o fed \in Seq(Int) /\ Len(task_queue \o fed) = Len(task_queue) + n
    <3>1. fed \in Seq(Int) /\ Len(fed) = n /\ task_queue \in Seq(Int)
      BY <1>2, <2>2 DEF LoadTypes, fed
    <3>. QED
      BY <3>1, ConcatProperties
  <2>4. task_queue' = task_queue \/ task_queue' = task_queue \o fed
    BY <1>1, <1>5 DEF fed
  <2>5. task_queue' \in Seq(Int) /\ Len(task_queue') <= Len(task_queue) + n
    <3>1. task_queue \in Seq(Int) /\ Len(task_queue) \in Nat
      BY <1>2, Sizes DEF LoadTypes
    <3>2. CASE task_queue' = task_queue
      BY <2>1, <3>1, <3>2
    <3>3. CASE task_queue' = task_queue \o fed
      BY <2>1, <2>3, <3>1, <3>3
    <3>. QED
      BY <2>4, <3>2, <3>3
  <2>6. LoadTypes'
    BY <1>1, <1>2, <1>3, <1>5, <2>1, <2>5 DEF LoadTypes
  <2>7. Load' \in Nat /\ Load' <= Len(task_queue) + n + Cardinality(active) + 1
    <3>1. /\ Len(task_queue') \in Nat /\ Len(task_queue) \in Nat
          /\ Cardinality(active) \in Nat
      BY <1>2, <2>5, Sizes
    <3>. DEFINE taken == IF popped = None THEN 0 ELSE 1
    <3>2. taken \in {0, 1} /\ Load' = Len(task_queue') + Cardinality(active) + taken
      BY <1>1 DEF Load
    <3>. HIDE DEF taken
    <3>. QED
      BY <2>1, <2>5, <3>1, <3>2
  <2>8. Load' <= MaxConcurrent + 1
    BY <1>2, <1>3, <2>1, <2>7, Sizes, SchedulerAssumption
  <2>9. Validating' \/ mpc' = "dead"
    BY <1>1, <1>5 DEF Validating
  <2>10. Room'
    BY <1>1, <1>2, <2>8, <2>9 DEF Room
  <2>. QED
    BY <2>6, <2>10 DEF Admitted
<1>. QED
  BY <1>4, <1>5

(* A validation ends with the scheduler idle: a batch that has waited      *)
(* since before it finds all of its room again.                            *)
LEMMA AdmittedAfterCollect == Admitted /\ ValidationCollect => Admitted'
<1>. SUFFICES ASSUME Admitted, ValidationCollect PROVE Admitted'
  OBVIOUS
<1>1. /\ UNCHANGED <<task_queue, prompt_queue, active, popped, fetched, val_fed, val_left>>
      /\ mpc = "val_collect"
  BY DEF ValidationCollect, taskVars
<1>2. LoadTypes /\ Room
  BY DEF Admitted
<1>3. LoadTypes' /\ Load' = Load
  BY <1>1, <1>2 DEF LoadTypes, Load
<1>4. CASE is_idle
  <2>1. Len(task_queue) = 0
    BY <1>4 DEF is_idle
  <2>2. Cardinality(active) = 0
    BY <1>4, FS_EmptySet DEF is_idle
  <2>3. Load <= 1
    BY <2>1, <2>2 DEF Load
  <2>4. Room'
    BY <1>1, <1>2, <1>3, <2>3, Sizes, SchedulerAssumption DEF Room
  <2>. QED
    BY <1>3, <2>4 DEF Admitted
<1>5. CASE ~is_idle
  <2>1. mpc' = "val_feed"
    BY <1>5 DEF ValidationCollect
  <2>. QED
    BY <1>1, <1>2, <2>1, AdmittedKept DEF Validating, LoadTypes
<1>. QED
  BY <1>4, <1>5

(* Every other step leaves the queues and the tasks as they are.           *)
LEMMA AdmittedAfterOthers ==
  ASSUME Admitted,
         \/ WorkerEnds \/ WorkerSleep \/ ConsumeCommand \/ ShutDown \/ Quiesce
         \/ QuiesceReturns \/ QuiesceFails \/ TransferStarts \/ TransferDone
         \/ PublishVersion \/ Resume \/ ReportRollouts \/ CheckConsumed \/ GateWaits
         \/ CollectResults \/ DrainPoll \/ QuiesceTimeout \/ PublishSync \/ PublishStop
         \/ UNCHANGED vars
         \/ \E t \in Tasks : Generation(t) \/ GenerateFails(t)
  PROVE  Admitted'
<1>0. val_left \in Int
  BY DEF Admitted, LoadTypes
<1>1. CASE Resume
  <2>1. /\ UNCHANGED <<task_queue, prompt_queue, active, popped, fetched, val_fed>>
        /\ mpc = "resume"
    BY <1>1 DEF Resume, BeginValidation, loopVars, taskVars, valVars
  <2>2. val_left' = ValPrompts \/ val_left' = val_left
    BY <1>1 DEF Resume, BeginValidation, valVars
  <2>. QED
    BY <1>0, <2>1, <2>2, AdmittedKept, SchedulerAssumption DEF Validating
<1>2. CASE \/ WorkerEnds \/ WorkerSleep \/ DrainPoll \/ PublishSync \/ PublishStop
           \/ UNCHANGED vars
           \/ \E t \in Tasks : Generation(t) \/ GenerateFails(t)
  <2>1. UNCHANGED <<task_queue, prompt_queue, active, popped, fetched, val_fed, val_left, mpc>>
    BY <1>2 DEF WorkerEnds, WorkerSleep, DrainPoll, PublishSync, PublishStop, Generation,
                GenerateStart, AcquireLease, GenerateDone, GenerateFails, vars, loopVars,
                taskVars, feedVars, valVars
  <2>. QED
    BY <1>0, <2>1, AdmittedKept DEF Validating
<1>3. CASE \/ ConsumeCommand \/ ShutDown \/ Quiesce \/ TransferStarts \/ TransferDone
           \/ QuiesceReturns \/ QuiesceFails \/ QuiesceTimeout
  <2>1. UNCHANGED <<task_queue, prompt_queue, active, popped, fetched, val_fed, val_left>>
    BY <1>3 DEF ConsumeCommand, ShutDown, Quiesce, QuiesceReturns, QuiesceFails,
                QuiesceTimeout, stay_closed, TransferStarts, TransferDone, loopVars,
                taskVars, feedVars, valVars
  <2>2. mpc \in {"loop", "fence", "draining", "write", "writing", "await_r2r"}
    BY <1>3 DEF ConsumeCommand, ShutDown, Quiesce, QuiesceReturns, QuiesceFails,
                QuiesceTimeout, TransferStarts, TransferDone
  <2>. QED
    BY <1>0, <2>1, <2>2, AdmittedKept DEF Validating
<1>4. CASE PublishVersion \/ ReportRollouts \/ CheckConsumed \/ GateWaits \/ CollectResults
  <2>1. UNCHANGED <<task_queue, prompt_queue, active, popped, fetched, val_fed, val_left>>
    BY <1>4 DEF PublishVersion, ReportRollouts, CheckConsumed, GateWaits, CollectResults,
                loopVars, taskVars, feedVars, valVars
  <2>2. mpc \in {"publish", "report", "loop", "check", "put", "collect"}
    BY <1>4 DEF PublishVersion, ReportRollouts, CheckConsumed, GateWaits, CollectResults
  <2>. QED
    BY <1>0, <2>1, <2>2, AdmittedKept DEF Validating
<1>. QED
  BY <1>1, <1>2, <1>3, <1>4

(* The admission arithmetic is inductive by itself: it needs nothing of    *)
(* the fence.                                                              *)
LEMMA AdmittedStep == Admitted /\ [Next]_vars => Admitted'
<1>. SUFFICES ASSUME Admitted, [Next]_vars PROVE Admitted'
  OBVIOUS
<1>1. CASE \/ WorkerWake \/ GetNowait \/ CreateTask \/ RequestPrompts \/ PutRolloutBatch
           \/ ValidationFeed \/ ValidationCollect
  BY <1>1, AdmittedAfterWake, AdmittedAfterGet, AdmittedAfterCreate, AdmittedAfterRequest,
     AdmittedAfterPut, AdmittedAfterFeed, AdmittedAfterCollect
<1>. QED
  BY <1>1, AdmittedAfterOthers DEF Next, Worker, Main, Ended

(* Admission control (_stream_generation_feed_prompts measures the room,   *)
(* the worker loop fills it one await at a time, validation shares it):    *)
(* there are never more than max_concurrent_requests active tasks, nor     *)
(* more than one task beyond them in the scheduler.                        *)
THEOREM AdmissionKept == Spec => []AdmissionBound
<1>1. Admitted => AdmissionBound
  BY DEF Admitted, Room, Load, AdmissionBound
<1>2. QED
  BY AdmittedInit, AdmittedStep, <1>1, PTL DEF Spec

-----------------------------------------------------------------------------
(* The order of the steps: a weight sync never repeats one.  CommandsInOrder *)
(* says that steps do not go back; the round of a step is also the last one *)
(* that mentions it.                                                        *)

IsSync(i) == commands[i].type # "STOP"

(* Once the R2R of a step is taken, or published as a version, every sync  *)
(* still to come is for a later step.                                      *)
StepsAdvance ==
  /\ \A i, j \in 1 .. Len(commands) :
       i < j /\ commands[i].type = "R2R" /\ IsSync(j) => commands[i].step < commands[j].step
  /\ InSync /\ cmd.type = "R2R" =>
       \A i \in 1 .. Len(commands) : IsSync(i) => cmd.step < commands[i].step
  /\ weight_synced =>
       /\ version < published
       /\ \A i \in 1 .. Len(commands) : IsSync(i) => version < commands[i].step
       /\ InSync => IF mpc = "resume" THEN version = cmd.step ELSE version < cmd.step

(* No command is queued at the start.                                      *)
LEMMA StepsAdvanceInit == Init => StepsAdvance
  BY DEF Init, StepsAdvance, InSync, Transaction

(* A step that stays in its transaction, or ends it, changes no order.     *)
LEMMA StepsAdvanceKept ==
  ASSUME StepsAdvance, UNCHANGED <<commands, published, version, weight_synced>>,
         InSync' => InSync /\ cmd' = cmd /\ (mpc' = "resume" <=> mpc = "resume")
  PROVE  StepsAdvance'
  BY DEF StepsAdvance, IsSync

(* The controller appends the sync of a step beyond all that are queued.   *)
LEMMA StepsAdvanceAfterPublishSync ==
  FenceInv /\ StepsAdvance /\ PublishSync => StepsAdvance'
<1> SUFFICES ASSUME FenceInv, StepsAdvance, PublishSync PROVE StepsAdvance'
  OBVIOUS
<1>1. CommandsInOrder /\ Live
  BY DEF FenceInv, PublishSync, Live
<1>2. UNCHANGED <<version, leader, mpc, cmd, weight_synced>> /\ published' = published + 1
      /\ published \in Nat /\ published \in Steps /\ version \in Nat /\ commands \in Seq(Command)
  BY <1>1, SchedulerAssumption DEF PublishSync, CommandsInOrder, cfgVars, Steps
<1> DEFINE P2R == [type |-> "P2R", step |-> published, stop |-> FALSE]
           R2R(stop) == [type |-> "R2R", step |-> published, stop |-> stop]
           n == Len(commands)
           m == IF leader THEN 2 ELSE 1
<1>3. PICK stop \in BOOLEAN :
        commands' = commands \o (IF leader THEN <<P2R, R2R(stop)>> ELSE <<R2R(stop)>>)
  BY Zenon DEF PublishSync
<1>4. /\ n \in Nat /\ m \in 1 .. 2 /\ Len(commands') = n + m
      /\ \A i \in 1 .. n : commands'[i] = commands[i]
      /\ commands'[n + m].type = "R2R" /\ commands'[n + m].step = published
      /\ m = 2 => commands'[n + 1].type = "P2R" /\ commands'[n + 1].step = published
  <2>1. CASE leader
    <3>1. commands' = commands \o <<P2R, R2R(stop)>>
      BY <1>3, <2>1
    <3>2. QED
      BY <1>2, <2>1, <3>1
  <2>2. CASE ~leader
    <3>1. commands' = commands \o <<R2R(stop)>>
      BY <1>3, <2>2
    <3>2. QED
      BY <1>2, <2>2, <3>1
  <2>3. QED
    BY <2>1, <2>2
<1> HIDE DEF m
<1>5. \A i \in 1 .. n : IsSync(i) => commands[i].step < published /\ commands[i].step \in Nat
  BY <1>1, <1>2
  DEF CommandsInOrder, CommandInOrder, IsSync, Command, SyncCommand, Steps
<1>6. \A i \in 1 .. Len(commands') : \/ i \in 1 .. n /\ commands'[i] = commands[i]
                                     \/ i \in n + 1 .. n + m /\ commands'[i].step = published
  BY <1>4
<1>7. \A i \in n + 1 .. n + m : commands'[i].type = "R2R" => i = n + m
  BY <1>4
<1> HIDE DEF n
<1>8. ASSUME NEW i \in 1 .. Len(commands'), NEW j \in 1 .. Len(commands'), i < j,
             commands'[i].type = "R2R", IsSync(j)'
      PROVE  commands'[i].step < commands'[j].step
  <2>1. i \in 1 .. n
    BY <1>4, <1>6, <1>7, <1>8
  <2>2. commands'[i] = commands[i] /\ IsSync(i) /\ commands[i].step < published
    BY <1>4, <1>5, <1>8, <2>1 DEF IsSync
  <2>3. CASE j \in 1 .. n
    BY <2>1, <2>2, <2>3, <1>4, <1>8 DEF StepsAdvance, IsSync, n
  <2>4. CASE j \notin 1 .. n
    BY <2>2, <2>4, <1>6
  <2>5. QED
    BY <2>3, <2>4
<1>9. ASSUME InSync', cmd'.type = "R2R", NEW i \in 1 .. Len(commands'), IsSync(i)'
      PROVE  cmd'.step < commands'[i].step
  <2>1. InSync /\ cmd.type = "R2R" /\ cmd' = cmd /\ cmd.step < published
    BY <1>1, <1>2, <1>9 DEF InSync, CommandsInOrder
  <2>2. CASE i \in 1 .. n
    BY <1>4, <1>9, <2>1, <2>2 DEF StepsAdvance, IsSync, n
  <2>3. CASE i \notin 1 .. n
    BY <1>6, <2>1, <2>3
  <2>4. QED
    BY <2>2, <2>3
<1>10. ASSUME weight_synced'
       PROVE  /\ version' < published'
              /\ \A i \in 1 .. Len(commands') : IsSync(i)' => version' < commands'[i].step
              /\ InSync' => IF mpc' = "resume" THEN version' = cmd'.step ELSE version' < cmd'.step
  <2>1. version < published /\ (InSync' <=> InSync)
    BY <1>2, <1>10 DEF StepsAdvance, InSync
  <2>2. ASSUME NEW i \in 1 .. Len(commands'), IsSync(i)' PROVE version < commands'[i].step
    <3>1. CASE i \in 1 .. n
      BY <1>2, <1>4, <1>10, <2>2, <3>1 DEF StepsAdvance, IsSync, n
    <3>2. CASE i \notin 1 .. n
      BY <1>6, <2>1, <3>2
    <3>3. QED
      BY <3>1, <3>2
  <2>3. QED
    BY <1>2, <1>10, <2>1, <2>2 DEF StepsAdvance
<1>11. QED
  BY <1>8, <1>9, <1>10 DEF StepsAdvance

(* Taking a command moves the bound on the queue to the command taken.     *)
LEMMA StepsAdvanceAfterConsumeCommand ==
  FenceInv /\ StepsAdvance /\ ConsumeCommand => StepsAdvance'
<1> SUFFICES ASSUME FenceInv, StepsAdvance, ConsumeCommand PROVE StepsAdvance'
  OBVIOUS
<1>1. CommandsInOrder
  BY DEF FenceInv
<1>2. /\ commands \in Seq(Command) /\ commands # <<>> /\ cmd' = commands[1]
      /\ Len(commands') = Len(commands) - 1
      /\ Len(commands) \in Nat \ {0} /\ Len(commands') \in Nat
      /\ \A i \in 1 .. Len(commands') : commands'[i] = commands[i + 1]
  BY <1>1 DEF CommandsInOrder, ConsumeCommand
<1>3. UNCHANGED <<version, published, weight_synced>>
  BY DEF ConsumeCommand
<1>4. InSync' => cmd'.type # "STOP" /\ mpc' # "resume" /\ IsSync(1)
  BY <1>2 DEF ConsumeCommand, InSync, Transaction, IsSync
<1>5. \A i \in 1 .. Len(commands') :
        i + 1 \in 1 .. Len(commands) /\ (IsSync(i)' <=> IsSync(i + 1))
  BY <1>2 DEF IsSync
<1>6. \A i, j \in 1 .. Len(commands') :
        i < j /\ commands'[i].type = "R2R" /\ IsSync(j)' => commands'[i].step < commands'[j].step
  BY <1>2, <1>5 DEF StepsAdvance
<1>7. InSync' /\ cmd'.type = "R2R" =>
        \A i \in 1 .. Len(commands') : IsSync(i)' => cmd'.step < commands'[i].step
  BY <1>2, <1>5 DEF StepsAdvance
<1>8. weight_synced' =>
        /\ version' < published'
        /\ \A i \in 1 .. Len(commands') : IsSync(i)' => version' < commands'[i].step
        /\ InSync' => version' < cmd'.step
  BY <1>2, <1>3, <1>4, <1>5 DEF StepsAdvance
<1>9. QED
  BY <1>4, <1>6, <1>7, <1>8 DEF StepsAdvance

(* Publishing the version of a round: what is queued is beyond it.         *)
LEMMA StepsAdvanceAfterPublishVersion ==
  FenceInv /\ StepsAdvance /\ PublishVersion => StepsAdvance'
<1> SUFFICES ASSUME FenceInv, StepsAdvance, PublishVersion PROVE StepsAdvance'
  OBVIOUS
<1>1. /\ mpc = "publish" /\ InSync /\ cmd \in SyncCommand /\ cmd.type = "R2R"
      /\ version \in Nat /\ cmd.step \in Nat /\ version <= cmd.step /\ cmd.step < published
  BY DEF PublishVersion, FenceInv, CommandsInOrder, InSync, Transaction, SyncCommand, Steps
<1>2. version' = cmd.step /\ mpc' = "resume" /\ UNCHANGED <<commands, cmd, published>>
  BY <1>1 DEF PublishVersion
<1>3. QED
  BY <1>1, <1>2 DEF StepsAdvance, IsSync

(* Every step keeps the order of the steps.                                *)
LEMMA StepsAdvanceStep == FenceInv /\ StepsAdvance /\ [Next]_vars => StepsAdvance'
<1> SUFFICES ASSUME FenceInv, StepsAdvance, [Next]_vars PROVE StepsAdvance'
  OBVIOUS
<1>1. CASE PublishSync \/ ConsumeCommand \/ PublishVersion
  BY <1>1, StepsAdvanceAfterPublishSync, StepsAdvanceAfterConsumeCommand,
     StepsAdvanceAfterPublishVersion
<1>2. CASE PublishStop
  <2>1. /\ UNCHANGED <<published, version, weight_synced, cmd, mpc>>
        /\ commands' = <<[type |-> "STOP"]>>
    BY <1>2 DEF PublishStop
  <2>2. \A i \in 1 .. Len(commands') : commands'[i].type = "STOP"
    BY <2>1
  <2>3. QED
    BY <2>1, <2>2 DEF StepsAdvance, IsSync, InSync
<1>3. CASE Worker \/ DrainPoll \/ Ended \/ UNCHANGED vars
           \/ \E t \in Tasks : Generation(t) \/ GenerateFails(t)
  <2>1. UNCHANGED <<commands, published, version, weight_synced, cmd, mpc>>
    BY <1>3 DEF Worker, WorkerWake, WorkerEnds, GetNowait, CreateTask, WorkerSleep, DrainPoll,
                Ended, vars, Generation, GenerateStart, AcquireLease, GenerateDone,
                GenerateFails, syncVars
  <2>2. QED
    BY <2>1, StepsAdvanceKept DEF InSync
<1>4. CASE Quiesce \/ QuiesceReturns \/ QuiesceFails \/ QuiesceTimeout \/ TransferStarts
           \/ TransferDone
  <2>1. /\ UNCHANGED <<commands, published, version, weight_synced, cmd>>
        /\ mpc \in {"fence", "draining", "write", "writing"} /\ mpc' # "resume"
    BY <1>4 DEF Quiesce, QuiesceReturns, QuiesceFails, QuiesceTimeout, stay_closed,
                TransferStarts, TransferDone, Dies, syncVars
  <2>2. QED
    BY <2>1, StepsAdvanceKept DEF InSync, Transaction
<1>5. CASE ShutDown \/ Resume \/ ReportRollouts \/ CheckConsumed \/ RequestPrompts
           \/ PutRolloutBatch \/ GateWaits
  <2>1. UNCHANGED <<commands, published, version, weight_synced>>
    BY <1>5 DEF ShutDown, Resume, ReportRollouts, CheckConsumed, RequestPrompts,
                PutRolloutBatch, GateWaits, syncVars
  <2>2. mpc' \in {"report", "check", "feed", "put", "collect", "val_feed", "stopped", "dead"}
    BY <1>5 DEF ShutDown, Resume, ReportRollouts, CheckConsumed, RequestPrompts,
                PutRolloutBatch, GateWaits, Dies
  <2>3. QED
    BY <2>1, <2>2, StepsAdvanceKept DEF InSync, Transaction
<1>6. CASE CollectResults \/ ValidationFeed \/ ValidationCollect
  <2>1. UNCHANGED <<commands, published, version, weight_synced>>
    BY <1>6 DEF CollectResults, ValidationFeed, ValidationCollect, syncVars
  <2>2. mpc' \in {"loop", "report", "val_feed", "val_collect", "dead"}
    BY <1>6 DEF CollectResults, ValidationFeed, ValidationCollect, Dies
  <2>3. QED
    BY <2>1, <2>2, StepsAdvanceKept DEF InSync, Transaction
<1>7. QED
  BY <1>1, <1>2, <1>3, <1>4, <1>5, <1>6 DEF Next, Main

-----------------------------------------------------------------------------
(* The budget of validation prompts *)

(* The steps whose validation has begun, or was passed over.               *)
Begun == {s \in ValidateAt : s < version \/ (s = version /\ mpc # "resume")}

(* Validations are fed one after the other: what has been fed, and what is *)
(* left of the current one, never exceeds one share per validation begun.  *)
(* Without StepsAdvance a step could be validated twice.                   *)
Budget ==
  /\ validation_flag \in BOOLEAN /\ val_fed \in Nat /\ val_left \in Nat
  /\ val_fed + val_left <= ValPrompts * Cardinality(Begun)
  /\ ~weight_synced => val_fed = 0 /\ val_left = 0 /\ ~validation_flag
  /\ ~Validating /\ mpc # "dead" =>
       val_left = 0 /\ (validation_flag => mpc = "resume" /\ version \in ValidateAt)

(* The begun validations are a part of the planned ones.                   *)
LEMMA BegunFinite ==
  /\ IsFiniteSet(Begun) /\ Cardinality(Begun) \in Nat
  /\ Cardinality(ValidateAt) \in Nat /\ Cardinality(Begun) <= Cardinality(ValidateAt)
<1>1. Begun \in SUBSET ValidateAt /\ IsFiniteSet(ValidateAt)
  BY SchedulerAssumption DEF Begun
<1>2. IsFiniteSet(Begun) /\ Cardinality(Begun) <= Cardinality(ValidateAt)
  BY <1>1, FS_Subset
<1>3. QED
  BY <1>1, <1>2, FS_CardinalityType

(* More validations, more prompts.                                         *)
LEMMA Shares ==
  ASSUME NEW v \in Nat, NEW a \in Nat, NEW b \in Nat, a <= b
  PROVE  v * a \in Nat /\ v * b \in Nat /\ v * a <= v * b /\ v * (a + 1) = v * a + v
  OBVIOUS

(* No validation has begun.                                                *)
LEMMA BudgetInit == Init => Budget
<1> SUFFICES ASSUME Init PROVE Budget
  OBVIOUS
<1>1. ValPrompts * Cardinality(Begun) \in Nat
  BY BegunFinite, SchedulerAssumption, Shares
<1>2. /\ validation_flag = FALSE /\ val_fed = 0 /\ val_left = 0 /\ weight_synced = FALSE
      /\ mpc = "loop"
  BY DEF Init
<1> DEFINE share == ValPrompts * Cardinality(Begun)
<1>3. val_fed + val_left <= share
  <2> HIDE DEF share
  <2>1. share \in Nat
    BY <1>1 DEF share
  <2>2. QED
    BY <1>2, <2>1
<1>4. QED
  BY <1>2, <1>3 DEF Budget, Validating

(* A step that feeds nothing and leaves no validation out.                 *)
LEMMA BudgetKept ==
  ASSUME Budget, UNCHANGED <<val_fed, val_left, validation_flag, version, weight_synced>>,
         mpc' = "resume" <=> mpc = "resume", mpc = "dead" => mpc' = "dead",
         Validating => Validating' \/ mpc' = "dead"
  PROVE  Budget'
<1>1. Begun' = Begun
  BY DEF Begun
<1>2. QED
  BY <1>1 DEF Budget

(* The version moves to a step whose validation has not begun.             *)
LEMMA BudgetAfterPublishVersion ==
  FenceInv /\ StepsAdvance /\ Budget /\ PublishVersion => Budget'
<1> SUFFICES ASSUME FenceInv, StepsAdvance, Budget, PublishVersion PROVE Budget'
  OBVIOUS
<1>1. /\ mpc = "publish" /\ InSync /\ version \in Nat /\ cmd.step \in Nat
      /\ version <= cmd.step /\ weight_synced \in BOOLEAN
  BY DEF PublishVersion, FenceInv, FlagsAgree, CommandsInOrder, InSync, Transaction, SyncCommand,
         Steps
<1>2. /\ version' = cmd.step /\ mpc' = "resume" /\ weight_synced' = TRUE
      /\ UNCHANGED <<val_fed, val_left>>
      /\ validation_flag' = (validation_flag \/ cmd.step \in ValidateAt)
  BY <1>1 DEF PublishVersion
<1>3. ~Validating /\ ~Validating' /\ val_left = 0 /\ ~validation_flag
  BY <1>1, <1>2 DEF Budget, Validating
<1>4. /\ Cardinality(Begun) \in Nat /\ Cardinality(Begun') \in Nat /\ IsFiniteSet(Begun')
  <2>1. Begun' \in SUBSET ValidateAt
    BY DEF Begun
  <2>2. QED
    BY <2>1, BegunFinite, SchedulerAssumption, FS_Subset, FS_CardinalityType
<1>5. val_fed <= ValPrompts * Cardinality(Begun')
  <2>1. CASE weight_synced
    <3>1. version < cmd.step
      BY <1>1, <2>1 DEF StepsAdvance
    <3>2. \A s \in ValidateAt : s \in Nat
      BY SchedulerAssumption DEF Steps
    <3>3. Begun \in SUBSET Begun'
      BY <1>1, <1>2, <3>1, <3>2 DEF Begun
    <3>4. Cardinality(Begun) <= Cardinality(Begun')
      BY <1>4, <3>3, FS_Subset
    <3>5. ValPrompts * Cardinality(Begun) <= ValPrompts * Cardinality(Begun')
          /\ ValPrompts * Cardinality(Begun) \in Nat /\ ValPrompts * Cardinality(Begun') \in Nat
      BY <1>4, <3>4, SchedulerAssumption, Shares
    <3>6. QED
      BY <1>3, <3>5 DEF Budget
  <2>2. CASE ~weight_synced
    <3>1. ValPrompts * Cardinality(Begun') \in Nat
      BY <1>4, SchedulerAssumption, Shares
    <3>2. QED
      BY <2>2, <3>1 DEF Budget
  <2>3. QED
    BY <2>1, <2>2
<1>6. QED
  BY <1>1, <1>2, <1>3, <1>5 DEF Budget

(* do_validation starts with a share of its own.                           *)
LEMMA BudgetAfterResume == FenceInv /\ StepsAdvance /\ Budget /\ Resume => Budget'
<1> SUFFICES ASSUME FenceInv, StepsAdvance, Budget, Resume PROVE Budget'
  OBVIOUS
<1>1. mpc = "resume" /\ weight_synced /\ ~Validating
  BY DEF Resume, FenceInv, LiveIsVersion, Validating
<1>2. val_left = 0 /\ (validation_flag => version \in ValidateAt)
  BY <1>1 DEF Budget
<1>3. UNCHANGED <<version, weight_synced, val_fed, validation_flag>> /\ mpc' # "resume"
  BY DEF Resume, BeginValidation, valVars, Dies
<1>4. Begun' = Begun \cup (ValidateAt \cap {version})
  BY <1>1, <1>3, SchedulerAssumption DEF Begun
<1>5. version \notin Begun
  <2>1. version \in Int
    BY DEF FenceInv, CommandsInOrder, Steps
  <2>2. QED
    BY <1>1, <2>1 DEF Begun
<1>6. CASE validation_flag /\ mpc' = "val_feed"
  <2>1. val_left' = ValPrompts
    BY <1>6 DEF Resume, BeginValidation, Dies
  <2>2. Begun' = Begun \cup {version}
    BY <1>2, <1>4, <1>6
  <2>3. Cardinality(Begun') = Cardinality(Begun) + 1
    BY <1>5, <2>2, BegunFinite, FS_AddElement
  <2>4. ValPrompts * Cardinality(Begun') = ValPrompts * Cardinality(Begun) + ValPrompts
        /\ ValPrompts * Cardinality(Begun) \in Nat
    BY <2>3, BegunFinite, SchedulerAssumption, Shares
  <2>5. val_fed' + val_left' <= ValPrompts * Cardinality(Begun')
    BY <1>2, <1>3, <2>1, <2>4, SchedulerAssumption DEF Budget
  <2>6. QED
    BY <1>1, <1>3, <1>6, <2>1, <2>5, SchedulerAssumption DEF Budget, Validating
<1>7. CASE ~(validation_flag /\ mpc' = "val_feed")
  <2>1. val_left' = val_left /\ (mpc' = "dead" \/ (mpc' = "report" /\ ~validation_flag))
    BY <1>7 DEF Resume, BeginValidation, Dies, valVars
  <2>2. /\ Cardinality(Begun) <= Cardinality(Begun')
        /\ Cardinality(Begun) \in Nat /\ Cardinality(Begun') \in Nat
    <3>1. Begun \in SUBSET Begun' /\ Begun' \in SUBSET ValidateAt
      BY <1>4 DEF Begun
    <3>2. IsFiniteSet(Begun')
      BY <3>1, SchedulerAssumption, FS_Subset
    <3>3. QED
      BY <3>1, <3>2, BegunFinite, FS_Subset, FS_CardinalityType
  <2>3. ValPrompts * Cardinality(Begun) <= ValPrompts * Cardinality(Begun')
        /\ ValPrompts * Cardinality(Begun) \in Nat /\ ValPrompts * Cardinality(Begun') \in Nat
    BY <2>2, SchedulerAssumption, Shares
  <2>4. QED
    BY <1>1, <1>2, <1>3, <2>1, <2>3 DEF Budget, Validating
<1>8. QED
  BY <1>6, <1>7

(* The batch of a validation is no larger than what is left of it.         *)
LEMMA Cut ==
  ASSUME Admitted, Budget
  PROVE  /\ Least(request_prompts_count(BatchSize), val_left) \in Int
         /\ Least(request_prompts_count(BatchSize), val_left) <= val_left
<1>1. request_prompts_count(BatchSize) \in Int
  BY RoomLeft DEF Admitted
<1>2. val_left \in Int
  BY DEF Budget
<1>3. QED
  BY <1>1, <1>2, LeastProperties

(* Prompts that are fed are no longer left.                                *)
LEMMA BudgetAfterFeed == FenceInv /\ Admitted /\ Budget /\ ValidationFeed => Budget'
<1> SUFFICES ASSUME FenceInv, Admitted, Budget, ValidationFeed PROVE Budget'
  OBVIOUS
<1> DEFINE n == Least(request_prompts_count(BatchSize), val_left)
<1>1. /\ UNCHANGED <<validation_flag, version, weight_synced>> /\ mpc = "val_feed"
      /\ mpc' \in {"val_collect", "dead"}
      /\ \/ UNCHANGED <<val_fed, val_left>>
         \/ ~(n <= 0) /\ val_fed' = val_fed + n /\ val_left' = val_left - n
  BY DEF ValidationFeed, syncVars, Dies
<1>2. n \in Int /\ n <= val_left
  BY Cut DEF Budget
<1> HIDE DEF n
<1>3. weight_synced
  BY <1>1 DEF FenceInv, NothingEarly, FlagsAgree
<1>4. Begun' = Begun
  BY <1>1 DEF Begun
<1>5. val_fed' \in Nat /\ val_left' \in Nat /\ val_fed' + val_left' = val_fed + val_left
  BY <1>1, <1>2 DEF Budget
<1>6. QED
  BY <1>1, <1>3, <1>4, <1>5 DEF Budget, Validating

(* A validation is over when nothing of it is left.                        *)
LEMMA BudgetAfterCollect == FenceInv /\ Budget /\ ValidationCollect => Budget'
<1> SUFFICES ASSUME FenceInv, Budget, ValidationCollect PROVE Budget'
  OBVIOUS
<1>1. /\ UNCHANGED <<version, weight_synced, val_fed, val_left>> /\ mpc = "val_collect"
      /\ \/ mpc' = "val_feed" /\ validation_flag' = validation_flag
         \/ mpc' = "report" /\ validation_flag' = FALSE /\ val_left = 0
  BY DEF ValidationCollect, syncVars
<1>2. weight_synced
  BY <1>1 DEF FenceInv, NothingEarly, FlagsAgree
<1>3. Begun' = Begun
  BY <1>1 DEF Begun
<1>4. QED
  BY <1>1, <1>2, <1>3 DEF Budget, Validating

(* Every step keeps to the budget.                                         *)
LEMMA BudgetStep ==
  FenceInv /\ Admitted /\ StepsAdvance /\ Budget /\ [Next]_vars => Budget'
<1> SUFFICES ASSUME FenceInv, Admitted, StepsAdvance, Budget, [Next]_vars PROVE Budget'
  OBVIOUS
<1>1. CASE PublishVersion \/ Resume \/ ValidationFeed \/ ValidationCollect
  BY <1>1, BudgetAfterPublishVersion, BudgetAfterResume, BudgetAfterFeed, BudgetAfterCollect
<1>2. CASE Worker \/ DrainPoll \/ PublishSync \/ PublishStop \/ Ended \/ UNCHANGED vars
           \/ \E t \in Tasks : Generation(t) \/ GenerateFails(t)
  <2>1. UNCHANGED <<val_fed, val_left, validation_flag, version, weight_synced, mpc>>
    BY <1>2 DEF Worker, WorkerWake, WorkerEnds, GetNowait, CreateTask, WorkerSleep, DrainPoll,
                PublishSync, PublishStop, Ended, vars, Generation, GenerateStart, AcquireLease,
                GenerateDone, GenerateFails, syncVars, valVars
  <2>2. QED
    BY <2>1, BudgetKept DEF Validating
<1>3. CASE ConsumeCommand \/ ShutDown \/ Quiesce \/ QuiesceReturns \/ QuiesceFails
           \/ QuiesceTimeout \/ TransferStarts \/ TransferDone
  <2>1. /\ UNCHANGED <<val_fed, val_left, validation_flag, version, weight_synced>>
        /\ mpc \in {"loop", "fence", "draining", "write", "writing", "await_r2r"}
        /\ mpc' # "resume"
    BY <1>3 DEF ConsumeCommand, ShutDown, Quiesce, QuiesceReturns, QuiesceFails, QuiesceTimeout,
                stay_closed, TransferStarts, TransferDone, Dies, syncVars, valVars
  <2>2. QED
    BY <2>1, BudgetKept DEF Validating
<1>4. CASE ReportRollouts \/ CheckConsumed \/ RequestPrompts \/ PutRolloutBatch \/ GateWaits
           \/ CollectResults
  <2>1. UNCHANGED <<val_fed, val_left, validation_flag, version, weight_synced>>
    BY <1>4 DEF ReportRollouts, CheckConsumed, RequestPrompts, PutRolloutBatch, GateWaits,
                CollectResults, syncVars, valVars
  <2>2. mpc \in {"report", "loop", "check", "feed", "put", "collect"} /\ mpc' # "resume"
    BY <1>4 DEF ReportRollouts, CheckConsumed, RequestPrompts, PutRolloutBatch, GateWaits,
                CollectResults, Dies
  <2>3. QED
    BY <2>1, <2>2, BudgetKept DEF Validating
<1>5. QED
  BY <1>1, <1>2, <1>3, <1>4 DEF Next, Main

-----------------------------------------------------------------------------
(* What CollectResults hands to the reward dispatcher *)

(* The recursion in CollectResults, spelled out.                           *)
UsableBody(queue, valid, g, n) ==
  CASE n = 0 -> <<>>
    [] n > 0 /\ queue[n] \in valid -> Append(g[n - 1], queue[n])
    [] OTHER -> g[n - 1]
UsableFn(queue, valid) ==
  CHOOSE g : g = [n \in 0 .. Len(queue) |-> UsableBody(queue, valid, g, n)]
Usable(queue, valid) == UsableFn(queue, valid)[Len(queue)]

(* Typed queues stay typed when they are joined or cut.                    *)
LEMMA QueueOps ==
  ASSUME NEW S, NEW a \in Seq(S), NEW b \in Seq(S)
  PROVE  /\ a \o b \in Seq(S) /\ RangeOf(a) \subseteq S
         /\ RangeOf(a \o b) = RangeOf(a) \cup RangeOf(b)
         /\ a # <<>> => Head(a) \in S /\ Tail(a) \in Seq(S)
                        /\ RangeOf(a) = {Head(a)} \cup RangeOf(Tail(a))
         /\ \A x \in S : Append(a, x) \in Seq(S) /\ RangeOf(Append(a, x)) = RangeOf(a) \cup {x}
<1>1. a \o b \in Seq(S) /\ Len(a \o b) = Len(a) + Len(b)
      /\ \A i \in 1 .. Len(a) + Len(b) :
           (a \o b)[i] = IF i <= Len(a) THEN a[i] ELSE b[i - Len(a)]
  BY ConcatProperties
<1>2. Len(a) \in Nat /\ Len(b) \in Nat /\ DOMAIN a = 1 .. Len(a) /\ DOMAIN b = 1 .. Len(b)
      /\ DOMAIN (a \o b) = 1 .. Len(a) + Len(b)
  BY <1>1, LenProperties
<1>3. RangeOf(a \o b) = RangeOf(a) \cup RangeOf(b)
  <2>1. ASSUME NEW i \in 1 .. Len(a) PROVE a[i] \in RangeOf(a \o b)
    BY <1>1, <1>2 DEF RangeOf
  <2>2. ASSUME NEW i \in 1 .. Len(b) PROVE b[i] \in RangeOf(a \o b)
    <3>1. Len(a) + i \in 1 .. Len(a) + Len(b) /\ (a \o b)[Len(a) + i] = b[i]
      BY <1>1, <1>2
    <3>2. QED
      BY <1>2, <3>1 DEF RangeOf
  <2>3. ASSUME NEW i \in 1 .. Len(a) + Len(b)
        PROVE  (a \o b)[i] \in RangeOf(a) \cup RangeOf(b)
    <3>1. CASE i <= Len(a)
      BY <1>1, <1>2, <3>1 DEF RangeOf
    <3>2. CASE ~(i <= Len(a))
      <4>1. i - Len(a) \in 1 .. Len(b) /\ (a \o b)[i] = b[i - Len(a)]
        BY <1>1, <1>2, <3>2
      <4>2. QED
        BY <1>2, <4>1 DEF RangeOf
    <3>3. QED
      BY <3>1, <3>2
  <2>4. QED
    BY <1>2, <2>1, <2>2, <2>3 DEF RangeOf
<1>4. RangeOf(a) \subseteq S
  BY <1>2 DEF RangeOf
<1>5. ASSUME a # <<>>
      PROVE  Head(a) \in S /\ Tail(a) \in Seq(S) /\ RangeOf(a) = {Head(a)} \cup RangeOf(Tail(a))
  <2>1. /\ Head(a) = a[1] /\ Head(a) \in S /\ Tail(a) \in Seq(S) /\ Len(Tail(a)) = Len(a) - 1
        /\ Len(a) >= 1 /\ \A i \in 1 .. Len(Tail(a)) : Tail(a)[i] = a[i + 1]
    BY <1>5
  <2>2. DOMAIN Tail(a) = 1 .. Len(a) - 1
    BY <2>1
  <2>3. ASSUME NEW i \in 1 .. Len(a) PROVE a[i] \in {Head(a)} \cup RangeOf(Tail(a))
    <3>1. CASE i = 1
      BY <2>1, <3>1
    <3>2. CASE i # 1
      <4>1. i - 1 \in 1 .. Len(a) - 1 /\ Tail(a)[i - 1] = a[i]
        BY <1>2, <2>1, <3>2
      <4>2. QED
        BY <2>2, <4>1 DEF RangeOf
    <3>3. QED
      BY <3>1, <3>2
  <2>4. ASSUME NEW i \in 1 .. Len(a) - 1 PROVE Tail(a)[i] \in RangeOf(a)
    <3>1. i + 1 \in 1 .. Len(a) /\ Tail(a)[i] = a[i + 1]
      BY <1>2, <2>1
    <3>2. QED
      BY <1>2, <3>1 DEF RangeOf
  <2>5. Head(a) \in RangeOf(a)
    BY <1>2, <2>1 DEF RangeOf
  <2>6. QED
    BY <1>2, <2>1, <2>2, <2>3, <2>4, <2>5 DEF RangeOf
<1>6. ASSUME NEW x \in S
      PROVE  Append(a, x) \in Seq(S) /\ RangeOf(Append(a, x)) = RangeOf(a) \cup {x}
  BY DEF RangeOf
<1>7. QED
  BY <1>1, <1>3, <1>4, <1>5, <1>6

(* A nonempty set of naturals has a least element.                         *)
LEMMA LeastNumber ==
  ASSUME NEW T, T # {}, T \subseteq Nat
  PROVE  \E n \in T : \A m \in T : ~(m < n)
<1>1. PICK n \in T : \A m \in T : ~(<<m, n>> \in OpToRel(<, Nat))
  BY NatLessThanWellFounded, WFMin
<1>. QED
  BY <1>1 DEF OpToRel

(* The recursion is well founded: there is such a function.                *)
LEMMA UsableDefined ==
  ASSUME NEW queue, Len(queue) \in Nat, NEW valid
  PROVE  UsableFn(queue, valid)
           = [n \in 0 .. Len(queue) |-> UsableBody(queue, valid, UsableFn(queue, valid), n)]
<1>. DEFINE P(k) == \E g : g = [n \in 0 .. k |-> UsableBody(queue, valid, g, n)]
            T == {k \in Nat : ~P(k)}
<1>1. P(0)
  <2>. DEFINE g == [n \in 0 .. 0 |-> <<>>]
  <2>1. \A n \in 0 .. 0 : UsableBody(queue, valid, g, n) = <<>>
    BY DEF UsableBody
  <2>2. g = [n \in 0 .. 0 |-> UsableBody(queue, valid, g, n)]
    BY <2>1
  <2>. QED
    BY <2>2
<1>2. ASSUME NEW k \in Nat, P(k) PROVE P(k + 1)
  <2>1. PICK g : g = [n \in 0 .. k |-> UsableBody(queue, valid, g, n)]
    BY <1>2
  <2>. DEFINE h == [n \in 0 .. k + 1 |-> UsableBody(queue, valid, g, n)]
  <2>2. ASSUME NEW n \in 0 .. k PROVE h[n] = g[n]
    <3>1. n \in 0 .. k + 1
      OBVIOUS
    <3>2. g[n] = UsableBody(queue, valid, g, n)
      BY <2>1
    <3>. QED
      BY <3>1, <3>2
  <2>3. ASSUME NEW n \in 0 .. k + 1
        PROVE  UsableBody(queue, valid, g, n) = UsableBody(queue, valid, h, n)
    <3>1. CASE n = 0
      BY <3>1 DEF UsableBody
    <3>2. CASE n > 0
      <4>1. n - 1 \in 0 .. k
        BY <3>2
      <4>2. h[n - 1] = g[n - 1]
        BY <2>2, <4>1
      <4>. HIDE DEF h
      <4>. QED
        BY <3>2, <4>2 DEF UsableBody
    <3>. QED
      BY <3>1, <3>2
  <2>4. h = [n \in 0 .. k + 1 |-> UsableBody(queue, valid, h, n)]
    BY <2>3
  <2>. HIDE DEF h
  <2>. QED
    BY <2>4
<1>3. T = {}
  <2>. SUFFICES ASSUME T # {} PROVE FALSE
    OBVIOUS
  <2>1. T \subseteq Nat
    OBVIOUS
  <2>. HIDE DEF T, P
  <2>2. PICK k \in T : \A j \in T : ~(j < k)
    BY <2>1, LeastNumber
  <2>3. k \in Nat /\ ~P(k) /\ k # 0
    BY <1>1, <2>2 DEF T
  <2>4. k - 1 \in Nat /\ k - 1 < k /\ k = (k - 1) + 1
    BY <2>3
  <2>5. P(k - 1)
    BY <2>2, <2>4 DEF T
  <2>. QED
    BY <1>2, <2>3, <2>4, <2>5
<1>4. P(Len(queue))
  BY <1>3
<1>. QED
  BY <1>4 DEF UsableFn

(* It filters the queue: exactly the valid results get through.            *)
LEMMA UsableProperties ==
  ASSUME NEW S, NEW queue \in Seq(S), NEW valid, valid \subseteq RangeOf(queue)
  PROVE  Usable(queue, valid) \in Seq(S) /\ RangeOf(Usable(queue, valid)) = valid
<1>. DEFINE N == Len(queue)
            g == UsableFn(queue, valid)
            Seen(n) == {queue[i] : i \in 1 .. n}
            Q(n) == g[n] \in Seq(S) /\ RangeOf(g[n]) = valid \cap Seen(n)
            T == {n \in 0 .. N : ~Q(n)}
<1>1. N \in Nat /\ \A i \in 1 .. N : queue[i] \in S
  BY LenProperties, ElementOfSeq
<1>2. g = [n \in 0 .. N |-> UsableBody(queue, valid, g, n)]
  BY <1>1, UsableDefined
<1>3. Usable(queue, valid) = g[N]
  BY DEF Usable
<1>4. RangeOf(queue) = Seen(N)
  BY DEF RangeOf
<1>. HIDE DEF g, N
<1>5. Q(0)
  <2>1. g[0] = <<>>
    BY <1>1, <1>2 DEF UsableBody
  <2>2. Seen(0) = {} /\ RangeOf(<<>>) = {} /\ <<>> \in Seq(S)
    BY DEF RangeOf
  <2>. QED
    BY <2>1, <2>2
<1>6. ASSUME NEW n \in 1 .. N, Q(n - 1) PROVE Q(n)
  <2>. DEFINE was == g[n - 1]
  <2>1. was \in Seq(S) /\ RangeOf(was) = valid \cap Seen(n - 1)
    BY <1>6
  <2>2. Seen(n) = Seen(n - 1) \cup {queue[n]}
    <3>1. \A i : i \in 1 .. n <=> i \in 1 .. n - 1 \/ i = n
      BY <1>1
    <3>. QED
      BY <3>1
  <2>3. g[n] = UsableBody(queue, valid, g, n) /\ n # 0 /\ n > 0
    <3>1. n \in 0 .. N
      BY <1>1
    <3>. QED
      BY <1>1, <1>2, <3>1
  <2>4. CASE queue[n] \in valid
    <3>1. g[n] = Append(was, queue[n])
      BY <2>3, <2>4 DEF UsableBody
    <3>2. queue[n] \in S
      BY <1>1
    <3>. HIDE DEF was, Seen
    <3>3. /\ Append(was, queue[n]) \in Seq(S)
          /\ RangeOf(Append(was, queue[n])) = RangeOf(was) \cup {queue[n]}
      BY <2>1, <3>2, QueueOps
    <3>. QED
      BY <2>1, <2>2, <2>4, <3>1, <3>3
  <2>5. CASE queue[n] \notin valid
    <3>1. g[n] = was
      BY <2>3, <2>5 DEF UsableBody
    <3>. HIDE DEF was, Seen
    <3>. QED
      BY <2>1, <2>2, <2>5, <3>1
  <2>. QED
    BY <2>4, <2>5
<1>7. T = {}
  <2>. SUFFICES ASSUME T # {} PROVE FALSE
    OBVIOUS
  <2>1. T \subseteq Nat
    BY <1>1
  <2>. HIDE DEF T, Q
  <2>2. PICK k \in T : \A j \in T : ~(j < k)
    BY <2>1, LeastNumber
  <2>3. k \in 0 .. N /\ ~Q(k) /\ k # 0
    BY <1>5, <2>2 DEF T
  <2>4. k \in 1 .. N /\ k - 1 \in 0 .. N /\ k - 1 < k
    BY <1>1, <2>3
  <2>5. Q(k - 1)
    BY <2>2, <2>4 DEF T
  <2>. QED
    BY <1>6, <2>3, <2>4, <2>5
<1>8. Q(N)
  <2>1. N \in 0 .. N
    BY <1>1
  <2>. HIDE DEF Q
  <2>. QED
    BY <1>7, <2>1
<1>. QED
  BY <1>3, <1>4, <1>8

(* CollectResults in terms of it.                                          *)
LEMMA Collected ==
  ASSUME CollectResults
  PROVE  \E valid \in SUBSET RangeOf(complete_queue) :
           LET seen == accounted \cup (RangeOf(complete_queue) \ valid)
           IN IF consume_end /\ ~end_sent
              THEN accounted' = seen \cup RangeOf(rewards) \cup valid /\ rewards' = <<>>
              ELSE accounted' = seen /\ rewards' = rewards \o Usable(complete_queue, valid)
  BY Zenon DEF CollectResults, Usable, UsableFn, UsableBody

-----------------------------------------------------------------------------
(* Type correctness: TypeOK, in the four parts of the system, on top of    *)
(* what is known of the flags, the commands, the sizes and the budget.     *)

Statuses == {"none", "created", "waiting", "running", "done", "failed"}
Places == {"loop", "report", "check", "feed", "put", "collect", "fence", "draining",
           "write", "writing", "publish", "resume", "await_r2r",
           "val_feed", "val_collect", "stopped", "dead"}

QueuesTyped ==
  /\ task_queue \in Seq(Tasks) /\ complete_queue \in Seq(Tasks)
  /\ popped \in Tasks \cup {None} /\ active \subseteq Tasks
  /\ prompt_queue \in Seq(Tasks) /\ rewards \in Seq(Tasks) /\ accounted \subseteq Tasks

LoopTyped ==
  /\ gen \in [Tasks -> Statuses]
  /\ stamp \in [Tasks -> Steps \cup {None}]
  /\ weights \in [Tasks -> Steps \cup {None, Unsynced, Torn}]
  /\ wpc \in {"idle", "dispatch", "ended"}
  /\ drain \in {"none", "polling", "drained", "failed"}

SyncTyped ==
  /\ published \in 0 .. LastStep + 1 /\ cmd \in Command \cup {None}
  /\ pending \in Steps \cup {None} /\ live \in Steps \cup {Unsynced, Torn}

MainTyped ==
  /\ shutdown \in BOOLEAN /\ mpc \in Places
  /\ is_end \in BOOLEAN /\ fetch_end \in BOOLEAN /\ consume_end \in BOOLEAN
  /\ end_sent \in BOOLEAN /\ val_prompts \in Nat /\ val_payloads \in Nat

(* What the steps need to know of the state they start from.               *)
Sound ==
  /\ FenceInv /\ Admitted /\ StepsAdvance /\ Budget
  /\ QueuesTyped /\ LoopTyped /\ SyncTyped /\ MainTyped

(* The parts make up TypeOK.                                               *)
LEMMA SoundTypes == Sound => TypeOK
<1> SUFFICES ASSUME Sound PROVE TypeOK
  OBVIOUS
<1>1. /\ isolates \in BOOLEAN /\ leader \in BOOLEAN
      /\ running \in BOOLEAN /\ accepting \in BOOLEAN /\ paused \in BOOLEAN
      /\ poisoned \in BOOLEAN /\ failed \in BOOLEAN /\ hold \in BOOLEAN
      /\ weight_synced \in BOOLEAN
  BY DEF Sound, FenceInv, FlagsAgree
<1>2. version \in Steps /\ commands \in Seq(Command)
  BY DEF Sound, FenceInv, CommandsInOrder
<1>3. fetched \in 0 .. Prompts
  BY DEF Sound, Admitted, LoadTypes
<1>4. validation_flag \in BOOLEAN /\ val_fed \in Nat /\ val_left \in Nat
  BY DEF Sound, Budget
<1>5. QueuesTyped /\ LoopTyped /\ SyncTyped /\ MainTyped
  BY DEF Sound
<1>6. QED
  BY <1>1, <1>2, <1>3, <1>4, <1>5
  DEF TypeOK, QueuesTyped, LoopTyped, SyncTyped, MainTyped, Statuses, Places

(* Task numbers: training prompts first, then the validations.             *)
LEMMA TaskNumbers ==
  ASSUME Sound
  PROVE  /\ \A i \in 1 .. Prompts : i \in Tasks
         /\ \A i \in 1 .. val_fed + val_left : Prompts + i \in Tasks
         /\ Tasks \subseteq Nat /\ None \notin Tasks
<1> DEFINE all == ValPrompts * Cardinality(ValidateAt)
<1>1. all \in Nat /\ val_fed + val_left <= all /\ val_fed \in Nat /\ val_left \in Nat
  <2> DEFINE begun == ValPrompts * Cardinality(Begun)
  <2>1. begun \in Nat /\ all \in Nat /\ begun <= all
    BY BegunFinite, Shares, SchedulerAssumption
  <2>2. val_fed + val_left <= begun /\ val_fed \in Nat /\ val_left \in Nat
    BY DEF Sound, Budget
  <2> HIDE DEF begun, all
  <2>3. QED
    BY <2>1, <2>2
<1>2. Tasks = 1 .. Prompts + all
  BY DEF Tasks
<1> HIDE DEF all
<1>3. QED
  BY <1>1, <1>2, SchedulerAssumption

(* A batch of consecutive numbers is a queue of them.                      *)
LEMMA BatchOf ==
  ASSUME NEW S, NEW n \in Nat, NEW k \in Int, \A i \in 1 .. n : k + i \in S
  PROVE  /\ [i \in 1 .. n |-> k + i] \in Seq(S)
         /\ RangeOf([i \in 1 .. n |-> k + i]) = {k + i : i \in 1 .. n}
  BY DEF RangeOf

(* The tasks' coroutines, the worker loop and the drain.                   *)
LEMMA LoopTypedStep == Sound /\ [Next]_vars => LoopTyped'
<1> SUFFICES ASSUME Sound, [Next]_vars PROVE LoopTyped'
  OBVIOUS
<1>1. LoopTyped /\ version \in Steps /\ live \in Steps \cup {Unsynced, Torn}
  BY DEF Sound, FenceInv, CommandsInOrder, SyncTyped
<1>2. gen' \in [Tasks -> Statuses]
  BY TasksTrackedStep DEF Sound, TasksTracked, Statuses
<1>3. ASSUME NEW t \in Tasks, Generation(t) \/ GenerateFails(t) PROVE LoopTyped'
  <2>1. /\ stamp' = stamp \/ stamp' = [stamp EXCEPT ![t] = version]
        /\ weights' = weights \/ weights' = [weights EXCEPT ![t] = live]
        /\ UNCHANGED <<wpc, drain>>
    BY <1>3 DEF Generation, GenerateStart, AcquireLease, GenerateDone, GenerateFails
  <2>2. QED
    BY <1>1, <1>2, <2>1 DEF LoopTyped
<1>4. CASE Worker \/ DrainPoll
  <2>1. UNCHANGED <<stamp, weights>>
    BY <1>4 DEF Worker, WorkerWake, WorkerEnds, GetNowait, CreateTask, WorkerSleep, DrainPoll,
                taskVars
  <2>2. /\ wpc' \in {wpc, "idle", "dispatch", "ended"}
        /\ drain' \in {drain, "failed", "drained"}
    BY <1>4 DEF Worker, WorkerWake, WorkerEnds, GetNowait, CreateTask, WorkerSleep, DrainPoll
  <2>3. QED
    BY <1>1, <1>2, <2>1, <2>2 DEF LoopTyped
<1>5. CASE Quiesce \/ QuiesceReturns \/ QuiesceFails \/ QuiesceTimeout
  <2>1. UNCHANGED <<stamp, weights, wpc>> /\ drain' \in {drain, "polling", "none"}
    BY <1>5 DEF Quiesce, QuiesceReturns, QuiesceFails, QuiesceTimeout, stay_closed, taskVars
  <2>2. QED
    BY <1>1, <1>2, <2>1 DEF LoopTyped
<1>6. CASE ConsumeCommand \/ ShutDown \/ TransferStarts \/ TransferDone \/ PublishVersion
           \/ Resume \/ ReportRollouts \/ CheckConsumed \/ RequestPrompts \/ PublishSync
           \/ PublishStop \/ GateWaits \/ Ended \/ UNCHANGED vars
  <2>1. UNCHANGED loopVars
    BY <1>6 DEF ConsumeCommand, ShutDown, TransferStarts, TransferDone, PublishVersion, Resume,
                ReportRollouts, CheckConsumed, RequestPrompts, PublishSync, PublishStop,
                GateWaits, Ended, vars
  <2>2. QED
    BY <1>1, <1>2, <2>1 DEF LoopTyped, loopVars, taskVars
<1>7. CASE PutRolloutBatch \/ CollectResults \/ ValidationFeed \/ ValidationCollect
  <2>1. UNCHANGED <<stamp, weights, wpc, drain>>
    BY <1>7 DEF PutRolloutBatch, CollectResults, ValidationFeed, ValidationCollect, taskVars
  <2>2. QED
    BY <1>1, <1>2, <2>1 DEF LoopTyped
<1>8. QED
  BY <1>3, <1>4, <1>5, <1>6, <1>7 DEF Next, Main

(* The weight-sync state.                                                  *)
LEMMA SyncTypedStep == Sound /\ [Next]_vars => SyncTyped'
<1> SUFFICES ASSUME Sound, [Next]_vars PROVE SyncTyped'
  OBVIOUS
<1>1. SyncTyped /\ commands \in Seq(Command)
  BY DEF Sound, FenceInv, CommandsInOrder
<1>2. InSync => cmd.step \in Steps
  BY DEF Sound, FenceInv, CommandsInOrder, SyncCommand
<1>3. CASE PublishSync
  <2>1. published' \in 0 .. LastStep + 1
    BY <1>1, <1>3, SchedulerAssumption DEF PublishSync, SyncTyped
  <2>2. QED
    BY <1>1, <1>3, <2>1 DEF PublishSync, SyncTyped
<1>4. CASE ConsumeCommand
  <2>1. cmd' \in Command
    BY <1>1, <1>4 DEF ConsumeCommand
  <2>2. QED
    BY <1>1, <1>4, <2>1 DEF ConsumeCommand, SyncTyped
<1>5. CASE Quiesce \/ QuiesceReturns \/ QuiesceFails \/ QuiesceTimeout \/ TransferStarts
           \/ TransferDone \/ PublishVersion \/ Resume
  <2>1. InSync /\ UNCHANGED <<published, cmd>>
    BY <1>5 DEF Quiesce, QuiesceReturns, QuiesceFails, QuiesceTimeout, stay_closed, syncVars,
                TransferStarts, TransferDone, PublishVersion, Resume, InSync, Transaction
  <2>2. pending' \in {pending, cmd.step, None} /\ live' \in {live, cmd.step, Torn}
    BY <1>5 DEF Quiesce, QuiesceReturns, QuiesceFails, QuiesceTimeout, stay_closed, syncVars,
                TransferStarts, TransferDone, transferred, PublishVersion, Resume
  <2>3. QED
    BY <1>1, <1>2, <2>1, <2>2 DEF SyncTyped
<1>6. CASE Worker \/ DrainPoll \/ ShutDown \/ ReportRollouts \/ CheckConsumed
           \/ RequestPrompts \/ PutRolloutBatch \/ GateWaits \/ CollectResults
           \/ ValidationFeed \/ ValidationCollect \/ Ended \/ UNCHANGED vars
           \/ \E t \in Tasks : Generation(t) \/ GenerateFails(t)
  <2>1. UNCHANGED syncVars
    BY <1>6 DEF Worker, WorkerWake, WorkerEnds, GetNowait, CreateTask, WorkerSleep, DrainPoll,
                ShutDown, ReportRollouts, CheckConsumed, RequestPrompts, PutRolloutBatch,
                GateWaits, CollectResults, ValidationFeed, ValidationCollect, Ended, vars,
                Generation, GenerateStart, AcquireLease, GenerateDone, GenerateFails
  <2>2. QED
    BY <1>1, <2>1 DEF SyncTyped, syncVars
<1>7. CASE PublishStop
  BY <1>1, <1>7 DEF PublishStop, SyncTyped
<1>8. QED
  BY <1>3, <1>4, <1>5, <1>6, <1>7 DEF Next, Main

(* Where the main thread stands and what it remembers.                     *)
LEMMA MainTypedStep == Sound /\ [Next]_vars => MainTyped'
<1> SUFFICES ASSUME Sound, [Next]_vars PROVE MainTyped'
  OBVIOUS
<1>1. MainTyped
  BY DEF Sound
<1>2. CASE Worker \/ DrainPoll \/ PublishSync \/ PublishStop \/ Ended \/ UNCHANGED vars
           \/ \E t \in Tasks : Generation(t) \/ GenerateFails(t)
  <2>1. UNCHANGED <<mpc, feedVars, valVars>>
    BY <1>2 DEF Worker, WorkerWake, WorkerEnds, GetNowait, CreateTask, WorkerSleep, DrainPoll,
                PublishSync, PublishStop, Ended, vars, Generation, GenerateStart, AcquireLease,
                GenerateDone, GenerateFails
  <2>2. QED
    BY <1>1, <2>1 DEF MainTyped, feedVars, valVars
<1>3. CASE Quiesce \/ QuiesceReturns \/ QuiesceFails \/ QuiesceTimeout \/ TransferStarts
           \/ TransferDone \/ PublishVersion \/ ShutDown \/ GateWaits
  <2>1. UNCHANGED <<feedVars, val_prompts, val_payloads>>
    BY <1>3 DEF Quiesce, QuiesceReturns, QuiesceFails, QuiesceTimeout, stay_closed,
                TransferStarts, TransferDone, PublishVersion, ShutDown, GateWaits, valVars
  <2>2. mpc' \in {"dead", "write", "draining", "writing", "await_r2r", "publish", "resume",
                  "stopped", "collect"}
    BY <1>3 DEF Quiesce, QuiesceReturns, QuiesceFails, QuiesceTimeout, stay_closed, Dies,
                TransferStarts, TransferDone, PublishVersion, ShutDown, GateWaits
  <2>3. QED
    BY <1>1, <2>1, <2>2 DEF MainTyped, feedVars, Places
<1>4. CASE ConsumeCommand
  <2>1. mpc' \in {"report", "fence"} /\ shutdown' \in {TRUE, shutdown}
        /\ UNCHANGED <<is_end, fetch_end, consume_end, end_sent, val_prompts, val_payloads>>
    BY <1>4 DEF ConsumeCommand, valVars
  <2>2. QED
    BY <1>1, <2>1 DEF MainTyped, Places
<1>5. CASE Resume
  <2>1. cmd.stop \in BOOLEAN
    BY <1>5 DEF Resume, Sound, FenceInv, CommandsInOrder, InSync, Transaction, SyncCommand
  <2>2. /\ mpc' \in {"dead", "val_feed", "report"} /\ shutdown' \in {shutdown, cmd.stop}
        /\ val_prompts' \in {val_prompts, 0} /\ val_payloads' \in {val_payloads, 0}
        /\ UNCHANGED <<is_end, fetch_end, consume_end, end_sent>>
    BY <1>5 DEF Resume, BeginValidation, Dies, valVars
  <2>3. QED
    BY <1>1, <2>1, <2>2 DEF MainTyped, Places
<1>6. CASE ReportRollouts \/ CheckConsumed \/ RequestPrompts \/ PutRolloutBatch
           \/ CollectResults
  <2>1. /\ mpc' \in {"dead", "check", "collect", "feed", "put", "loop"}
        /\ UNCHANGED <<shutdown, val_prompts, val_payloads>>
    BY <1>6 DEF ReportRollouts, CheckConsumed, RequestPrompts, PutRolloutBatch, CollectResults,
                Dies, valVars
  <2>2. /\ is_end' = is_end \/ is_end' \in BOOLEAN
        /\ fetch_end' = fetch_end \/ fetch_end' = is_end
        /\ consume_end' = consume_end \/ consume_end' \in BOOLEAN
        /\ end_sent' = end_sent \/ end_sent' = (end_sent \/ consume_end)
    BY <1>6 DEF ReportRollouts, CheckConsumed, RequestPrompts, PutRolloutBatch, CollectResults
  <2>3. QED
    BY <1>1, <2>1, <2>2 DEF MainTyped, Places
<1>7. CASE ValidationFeed
  <2>1. mpc' \in {"val_collect", "dead"} /\ UNCHANGED <<feedVars, val_payloads>>
    BY <1>7 DEF ValidationFeed, Dies
  <2>2. val_prompts' \in Nat
    <3> DEFINE n == Least(request_prompts_count(BatchSize), val_left)
    <3>1. n \in Int
      BY Cut DEF Sound, Budget
    <3>2. val_prompts' = val_prompts \/ (~(n <= 0) /\ val_prompts' = val_prompts + n)
      BY <1>7 DEF ValidationFeed
    <3> HIDE DEF n
    <3>3. QED
      BY <1>1, <3>1, <3>2 DEF MainTyped
  <2>3. QED
    BY <1>1, <2>1, <2>2 DEF MainTyped, feedVars, Places
<1>8. CASE ValidationCollect
  <2>1. Len(complete_queue) \in Nat
    BY LenProperties DEF Sound, QueuesTyped
  <2>2. /\ mpc' \in {"report", "val_feed"} /\ val_payloads' = val_payloads + Len(complete_queue)
        /\ UNCHANGED <<shutdown, is_end, fetch_end, consume_end, end_sent, val_prompts>>
    BY <1>8 DEF ValidationCollect
  <2>3. QED
    BY <1>1, <2>1, <2>2 DEF MainTyped, Places
<1>9. QED
  BY <1>2, <1>3, <1>4, <1>5, <1>6, <1>7, <1>8 DEF Next, Main

(* The queues hold tasks: a fetched batch numbers at most Prompts of them, *)
(* a fed one stays within the budget.                                      *)
LEMMA QueuesTypedStep == Sound /\ [Next]_vars => QueuesTyped'
<1> SUFFICES ASSUME Sound, [Next]_vars PROVE QueuesTyped'
  OBVIOUS
<1>1. QueuesTyped
  BY DEF Sound
<1>2. <<>> \in Seq(Tasks)
  OBVIOUS
<1>3. CASE WorkerWake
  BY <1>1, <1>3 DEF WorkerWake, QueuesTyped, feedVars
<1>4. CASE GetNowait
  <2>1. popped' \in Tasks /\ task_queue' \in Seq(Tasks)
    BY <1>1, <1>4, QueueOps DEF GetNowait, may_launch, QueuesTyped
  <2>2. QED
    BY <1>1, <1>4, <2>1 DEF GetNowait, QueuesTyped, taskVars, feedVars
<1>5. CASE CreateTask
  BY <1>1, <1>5 DEF CreateTask, QueuesTyped, feedVars
<1>6. ASSUME NEW t \in Tasks, Generation(t) \/ GenerateFails(t) PROVE QueuesTyped'
  <2>1. complete_queue' \in {complete_queue, Append(complete_queue, t)}
    BY <1>6 DEF Generation, GenerateStart, AcquireLease, GenerateDone, GenerateFails
  <2>2. UNCHANGED <<task_queue, popped, active, prompt_queue, rewards, accounted>>
    BY <1>6 DEF Generation, GenerateStart, AcquireLease, GenerateDone, GenerateFails, feedVars
  <2>3. complete_queue' \in Seq(Tasks)
    <3>1. complete_queue \in Seq(Tasks)
      BY <1>1 DEF QueuesTyped
    <3>2. Append(complete_queue, t) \in Seq(Tasks)
      BY <3>1, QueueOps
    <3>3. QED
      BY <2>1, <3>1, <3>2
  <2>4. QED
    BY <1>1, <2>2, <2>3 DEF QueuesTyped
<1>7. CASE ReportRollouts
  <2>1. PICK n \in 0 .. Len(rewards) :
          /\ accounted' = accounted \cup {rewards[i] : i \in 1 .. n}
          /\ rewards' = SubSeq(rewards, n + 1, Len(rewards))
    BY <1>7 DEF ReportRollouts
  <2>2. rewards \in Seq(Tasks) /\ Len(rewards) \in Nat
    BY <1>1, LenProperties DEF QueuesTyped
  <2>3. \A i \in 1 .. n : i \in 1 .. Len(rewards)
    BY <2>2
  <2>4. accounted' \subseteq Tasks
    BY <1>1, <2>1, <2>2, <2>3, ElementOfSeq DEF QueuesTyped
  <2>5. rewards' \in Seq(Tasks)
    BY <2>1, <2>2, SubSeqProperties
  <2>6. QED
    BY <1>1, <1>7, <2>4, <2>5 DEF ReportRollouts, QueuesTyped, loopVars, taskVars
<1>8. CASE RequestPrompts
  <2> DEFINE want == request_prompts_count(BatchSize)
             n == IF prompt_queue = <<>> THEN Least(want, Prompts - fetched) ELSE 0
  <2>1. UNCHANGED <<task_queue, complete_queue, popped, active, rewards, accounted>>
    BY <1>8 DEF RequestPrompts, loopVars, taskVars
  <2>2. \/ prompt_queue' = prompt_queue
        \/ ~(want <= 0) /\ prompt_queue' = prompt_queue \o [i \in 1 .. n |-> fetched + i]
    BY <1>8 DEF RequestPrompts
  <2>3. want \in Int /\ fetched \in 0 .. Prompts
    BY RoomLeft DEF Sound, Admitted, LoadTypes
  <2> HIDE DEF want
  <2>4. ~(want <= 0) => n \in Nat /\ n <= Prompts - fetched
    <3>1. n = 0 \/ n = Least(want, Prompts - fetched)
      OBVIOUS
    <3>2. QED
      BY <2>3, <3>1, SchedulerAssumption DEF Least
  <2> HIDE DEF n
  <2>5. ~(want <= 0) => [i \in 1 .. n |-> fetched + i] \in Seq(Tasks)
    <3>1. SUFFICES ASSUME ~(want <= 0) PROVE [i \in 1 .. n |-> fetched + i] \in Seq(Tasks)
      OBVIOUS
    <3>2. ASSUME NEW i \in 1 .. n PROVE fetched + i \in Tasks
      <4>1. fetched + i \in 1 .. Prompts
        BY <2>3, <2>4, <3>1, SchedulerAssumption
      <4>2. QED
        BY <4>1, TaskNumbers
    <3>3. QED
      BY <2>3, <2>4, <3>1, <3>2, BatchOf
  <2> DEFINE got == [i \in 1 .. n |-> fetched + i]
  <2>6. prompt_queue' \in Seq(Tasks)
    <3>1. prompt_queue \in Seq(Tasks) /\ (~(want <= 0) => got \in Seq(Tasks))
      BY <1>1, <2>5 DEF QueuesTyped
    <3>2. prompt_queue' = prompt_queue \/ (~(want <= 0) /\ prompt_queue' = prompt_queue \o got)
      BY <2>2
    <3> HIDE DEF got
    <3>3. ~(want <= 0) => prompt_queue \o got \in Seq(Tasks)
      BY <3>1, QueueOps
    <3>4. QED
      BY <3>1, <3>2, <3>3
  <2>7. QED
    BY <1>1, <2>1, <2>6 DEF QueuesTyped
<1>9. CASE PutRolloutBatch
  <2>1. /\ task_queue' \in {task_queue, task_queue \o prompt_queue}
        /\ prompt_queue' \in {prompt_queue, <<>>}
        /\ accounted' \in {accounted, accounted \cup RangeOf(prompt_queue)}
        /\ UNCHANGED <<complete_queue, popped, active, rewards>>
    BY <1>9 DEF PutRolloutBatch, taskVars
  <2>2. task_queue \o prompt_queue \in Seq(Tasks) /\ RangeOf(prompt_queue) \subseteq Tasks
    BY <1>1, QueueOps DEF QueuesTyped
  <2>3. QED
    BY <1>1, <1>2, <2>1, <2>2 DEF QueuesTyped
<1>10. CASE CollectResults
  <2>1. PICK valid \in SUBSET RangeOf(complete_queue) :
          LET seen == accounted \cup (RangeOf(complete_queue) \ valid)
          IN IF consume_end /\ ~end_sent
             THEN accounted' = seen \cup RangeOf(rewards) \cup valid /\ rewards' = <<>>
             ELSE accounted' = seen /\ rewards' = rewards \o Usable(complete_queue, valid)
    BY <1>10, Collected
  <2>2. RangeOf(complete_queue) \subseteq Tasks /\ RangeOf(rewards) \subseteq Tasks
    BY <1>1, QueueOps DEF QueuesTyped
  <2>3. Usable(complete_queue, valid) \in Seq(Tasks)
    BY <1>1, UsableProperties DEF QueuesTyped
  <2>4. rewards \o Usable(complete_queue, valid) \in Seq(Tasks)
    BY <1>1, <2>3, QueueOps DEF QueuesTyped
  <2>5. accounted' \subseteq Tasks /\ rewards' \in Seq(Tasks)
    <3>1. CASE consume_end /\ ~end_sent
      BY <1>1, <1>2, <2>1, <2>2, <3>1 DEF QueuesTyped
    <3>2. CASE ~(consume_end /\ ~end_sent)
      BY <1>1, <2>1, <2>2, <2>4, <3>2 DEF QueuesTyped
    <3>3. QED
      BY <3>1, <3>2
  <2>6. complete_queue' = <<>> /\ UNCHANGED <<task_queue, popped, active, prompt_queue>>
    BY <1>10 DEF CollectResults, taskVars
  <2>7. QED
    BY <1>1, <1>2, <2>5, <2>6 DEF QueuesTyped
<1>11. CASE ValidationFeed
  <2> DEFINE n == Least(request_prompts_count(BatchSize), val_left)
             fed == [i \in 1 .. n |-> Prompts + val_fed + i]
  <2>1. UNCHANGED <<complete_queue, popped, active, prompt_queue, rewards, accounted>>
    BY <1>11 DEF ValidationFeed, taskVars, feedVars
  <2>2. task_queue' = task_queue \/ (~(n <= 0) /\ task_queue' = task_queue \o fed)
    BY <1>11 DEF ValidationFeed
  <2>3. n \in Int /\ n <= val_left /\ val_left \in Nat /\ val_fed \in Nat
    BY Cut DEF Sound, Budget
  <2> HIDE DEF n
  <2>4. ~(n <= 0) => fed \in Seq(Tasks)
    <3>1. SUFFICES ASSUME ~(n <= 0) PROVE fed \in Seq(Tasks)
      OBVIOUS
    <3>2. ASSUME NEW i \in 1 .. n PROVE (Prompts + val_fed) + i \in Tasks
      <4>1. val_fed + i \in 1 .. val_fed + val_left
        BY <2>3, <3>1
      <4>2. Prompts + (val_fed + i) \in Tasks
        BY <4>1, TaskNumbers
      <4>3. Prompts + (val_fed + i) = (Prompts + val_fed) + i
        BY <2>3, SchedulerAssumption
      <4>4. QED
        BY <4>2, <4>3
    <3>3. n \in Nat /\ Prompts + val_fed \in Int
      BY <2>3, <3>1, SchedulerAssumption
    <3>4. QED
      BY <3>2, <3>3, BatchOf
  <2> HIDE DEF fed
  <2>5. task_queue' \in Seq(Tasks)
    <3>1. task_queue \in Seq(Tasks)
      BY <1>1 DEF QueuesTyped
    <3>2. ~(n <= 0) => task_queue \o fed \in Seq(Tasks)
      BY <2>4, <3>1, QueueOps
    <3>3. QED
      BY <2>2, <3>1, <3>2
  <2>6. QED
    BY <1>1, <2>1, <2>5 DEF QueuesTyped
<1>12. CASE ValidationCollect
  <2>1. RangeOf(rewards) \subseteq Tasks
    BY <1>1, QueueOps DEF QueuesTyped
  <2>2. /\ complete_queue' = <<>> /\ rewards' \in {rewards, <<>>}
        /\ accounted' \in {accounted, accounted \cup RangeOf(rewards)}
        /\ UNCHANGED <<task_queue, popped, active, prompt_queue>>
    BY <1>12 DEF ValidationCollect, taskVars
  <2>3. QED
    BY <1>1, <1>2, <2>1, <2>2 DEF QueuesTyped
<1>13. CASE WorkerEnds \/ WorkerSleep \/ DrainPoll \/ PublishSync \/ PublishStop
            \/ ConsumeCommand \/ ShutDown \/ Quiesce \/ QuiesceReturns \/ QuiesceFails
            \/ QuiesceTimeout \/ TransferStarts \/ TransferDone \/ PublishVersion \/ Resume
            \/ CheckConsumed \/ GateWaits \/ Ended \/ UNCHANGED vars
  <2>1. UNCHANGED <<task_queue, complete_queue, popped, active, prompt_queue, rewards, accounted>>
    BY <1>13 DEF WorkerEnds, WorkerSleep, DrainPoll, PublishSync, PublishStop, ConsumeCommand,
                 ShutDown, Quiesce, QuiesceReturns, QuiesceFails, QuiesceTimeout, stay_closed,
                 TransferStarts, TransferDone, PublishVersion, Resume, CheckConsumed, GateWaits,
                 Ended, vars, loopVars, taskVars, feedVars
  <2>2. QED
    BY <1>1, <2>1 DEF QueuesTyped
<1>14. QED
  BY <1>3, <1>4, <1>5, <1>6, <1>7, <1>8, <1>9, <1>10, <1>11, <1>12, <1>13 DEF Next, Main, Worker

(* Everything holds at the start.                                          *)
LEMMA SoundInit == Init => Sound
<1> SUFFICES ASSUME Init PROVE Sound
  OBVIOUS
<1>1. QueuesTyped
  BY DEF Init, QueuesTyped
<1>2. LoopTyped
  BY DEF Init, LoopTyped, Statuses
<1>3. SyncTyped /\ MainTyped
  <2>1. published = 0 /\ cmd = None /\ pending = None /\ live = Unsynced
    BY DEF Init
  <2>2. SyncTyped
    BY <2>1, SchedulerAssumption DEF SyncTyped
  <2>3. MainTyped
    BY DEF Init, MainTyped, Places
  <2>4. QED
    BY <2>2, <2>3
<1>4. QED
  BY <1>1, <1>2, <1>3, FenceInit, AdmittedInit, StepsAdvanceInit, BudgetInit DEF Sound

(* Every step keeps the state sound.                                       *)
LEMMA SoundStep == Sound /\ [Next]_vars => Sound'
<1> SUFFICES ASSUME Sound, [Next]_vars PROVE Sound'
  OBVIOUS
<1>1. FenceInv /\ Admitted /\ StepsAdvance /\ Budget
  BY DEF Sound
<1>2. FenceInv'
  BY <1>1, FlagsAgreeStep, NothingEarlyStep, FenceHoldsStep, CommandsInOrderStep,
     LiveIsVersionStep, TasksTrackedStep, GenerationsSeeOneModelStep, StampIsHonestStep
  DEF FenceInv
<1>3. Admitted' /\ StepsAdvance' /\ Budget'
  BY <1>1, AdmittedStep, StepsAdvanceStep, BudgetStep
<1>4. QED
  BY <1>2, <1>3, QueuesTypedStep, LoopTypedStep, SyncTypedStep, MainTypedStep DEF Sound

(* The scheduler and its main loop stay within their types, whatever the   *)
(* interleaving of threads, commands and failures: in particular no task   *)
(* number runs past the prompts the job has, although every validation     *)
(* adds tasks of its own.                                                  *)
THEOREM SchedulerTypeCorrect == Spec => []TypeOK
  BY SoundInit, SoundStep, SoundTypes, PTL DEF Spec

-----------------------------------------------------------------------------
(* The end signal.  A validation takes every result it finds for its own,  *)
(* so the signal can be trusted only when none runs during training.       *)

(* Nothing is fetched before the weights of step 0 are in place, and       *)
(* validated when they are.                                                *)
FetchedLate ==
  ~weight_synced \/ (InSync /\ cmd.step = 0) \/ Validating => fetched = 0

(* The end of the prompts, of the work and the signal come in this order,  *)
(* and between the last two the main thread only collects.                 *)
EndsInOrder ==
  /\ mpc \in {"feed", "put"} => ~fetch_end
  /\ fetch_end => prompt_queue = <<>>
  /\ consume_end => fetch_end
  /\ end_sent => consume_end
  /\ consume_end /\ ~end_sent => mpc = "collect"

(* Where a task can be between the fetch and its report.                   *)
Kept ==
  accounted \cup RangeOf(prompt_queue) \cup RangeOf(task_queue) \cup ({popped} \ {None})
    \cup {t \in Tasks : Busy(t)} \cup RangeOf(complete_queue) \cup RangeOf(rewards)

(* No prompt is lost on the way, unless a generation fails.                *)
NothingLost == ~failed => 1 .. fetched \subseteq Kept

(* When the work is taken for done, all but one task are reported, or      *)
(* completed: these are collected before the signal.                       *)
OneMissing ==
  ~failed /\ consume_end =>
    \E one : Unreported \subseteq {one} \cup (IF end_sent THEN {} ELSE RangeOf(complete_queue))

Tracked == FetchedLate /\ EndsInOrder /\ NothingLost /\ OneMissing

(* Nothing has been fetched.                                               *)
LEMMA TrackedInit == Init => Tracked
<1> SUFFICES ASSUME Init PROVE Tracked
  OBVIOUS
<1>1. FetchedLate /\ EndsInOrder /\ OneMissing
  BY DEF Init, FetchedLate, EndsInOrder, OneMissing
<1>2. 1 .. fetched = {}
  BY DEF Init
<1>3. QED
  BY <1>1, <1>2 DEF Tracked, NothingLost

(* Fetching waits for the first weights: RequestPrompts is out of reach    *)
(* before, and neither a command for step 0 nor a validation comes after.  *)
LEMMA FetchedLateStep ==
  ASSUME ValidateAt \subseteq {0}, Sound, Tracked, [Next]_vars
  PROVE  FetchedLate'
<1>1. FetchedLate /\ FlagsAgree /\ NothingEarly /\ StepsAdvance /\ CommandsInOrder
  BY DEF Sound, FenceInv, Tracked
<1>2. CASE RequestPrompts
  <2>1. mpc = "feed" /\ weight_synced /\ weight_synced' = weight_synced
        /\ mpc' \in {"collect", "put"}
    BY <1>1, <1>2 DEF RequestPrompts, NothingEarly, FlagsAgree, syncVars
  <2>2. QED
    BY <2>1 DEF FetchedLate, InSync, Transaction, Validating
<1>3. CASE ConsumeCommand
  <2>1. UNCHANGED <<weight_synced, fetched>> /\ mpc' \in {"fence", "report"}
    BY <1>3 DEF ConsumeCommand
  <2>2. /\ commands \in Seq(Command) /\ commands # <<>> /\ Len(commands) \in Nat \ {0}
        /\ cmd' = commands[1] /\ commands[1] \in Command
    BY <1>1, <1>3 DEF ConsumeCommand, CommandsInOrder
  <2>3. ASSUME mpc' = "fence", cmd'.step = 0 PROVE ~weight_synced
    <3>1. IsSync(1) /\ 1 \in 1 .. Len(commands) /\ version \in Nat
      BY <1>1, <1>3, <2>2, <2>3 DEF ConsumeCommand, IsSync, CommandsInOrder, Steps
    <3>2. QED
      BY <1>1, <2>2, <2>3, <3>1 DEF StepsAdvance
  <2>4. QED
    BY <1>1, <2>1, <2>3 DEF FetchedLate, InSync, Validating, Transaction
<1>4. CASE Resume
  <2>1. /\ mpc = "resume" /\ InSync /\ UNCHANGED <<weight_synced, fetched>> /\ weight_synced
        /\ mpc' \in {"dead", "val_feed", "report"} /\ (mpc' = "val_feed" => validation_flag)
    BY <1>4 DEF Resume, Dies, InSync, Transaction, Sound, FenceInv, LiveIsVersion
  <2>2. validation_flag => version \in ValidateAt
    BY <2>1 DEF Sound, Budget, Validating
  <2>3. version = cmd.step
    BY <1>1, <2>1 DEF StepsAdvance
  <2>4. QED
    BY <1>1, <2>1, <2>2, <2>3 DEF FetchedLate, InSync, Validating, Transaction
<1>5. CASE Worker \/ DrainPoll \/ PublishSync \/ PublishStop \/ Ended \/ UNCHANGED vars
           \/ \E t \in Tasks : Generation(t) \/ GenerateFails(t)
  <2>1. UNCHANGED <<fetched, weight_synced, cmd, mpc>>
    BY <1>5 DEF Worker, WorkerWake, WorkerEnds, GetNowait, CreateTask, WorkerSleep, DrainPoll,
                PublishSync, PublishStop, Ended, vars, Generation, GenerateStart, AcquireLease,
                GenerateDone, GenerateFails, syncVars, feedVars
  <2>2. QED
    BY <1>1, <2>1 DEF FetchedLate, InSync, Validating
<1>6. CASE Quiesce \/ QuiesceReturns \/ QuiesceFails \/ QuiesceTimeout \/ TransferStarts
           \/ TransferDone \/ PublishVersion
  <2>1. /\ UNCHANGED <<fetched, cmd>> /\ (weight_synced => weight_synced')
        /\ mpc \in {"fence", "draining", "write", "writing", "publish"}
    BY <1>6 DEF Quiesce, QuiesceReturns, QuiesceFails, QuiesceTimeout, stay_closed,
                TransferStarts, TransferDone, PublishVersion, syncVars, feedVars
  <2>2. mpc' \in {"draining", "write", "writing", "await_r2r", "publish", "resume", "dead"}
    BY <1>6 DEF Quiesce, QuiesceReturns, QuiesceFails, QuiesceTimeout, stay_closed, Dies,
                TransferStarts, TransferDone, PublishVersion
  <2>3. QED
    BY <1>1, <2>1, <2>2 DEF FetchedLate, InSync, Transaction, Validating
<1>7. CASE ShutDown \/ ReportRollouts \/ CheckConsumed \/ PutRolloutBatch \/ GateWaits
           \/ CollectResults
  <2>1. UNCHANGED <<fetched, weight_synced>>
    BY <1>7 DEF ShutDown, ReportRollouts, CheckConsumed, PutRolloutBatch, GateWaits,
                CollectResults, syncVars, feedVars
  <2>2. mpc' \in {"stopped", "check", "collect", "feed", "loop", "dead"}
    BY <1>7 DEF ShutDown, ReportRollouts, CheckConsumed, PutRolloutBatch, GateWaits,
                CollectResults, Dies
  <2>3. QED
    BY <1>1, <2>1, <2>2 DEF FetchedLate, InSync, Transaction, Validating
<1>8. CASE ValidationFeed \/ ValidationCollect
  <2>1. UNCHANGED fetched /\ Validating
    BY <1>8 DEF ValidationFeed, ValidationCollect, feedVars, Validating
  <2>2. QED
    BY <1>1, <2>1 DEF FetchedLate
<1>9. QED
  BY <1>2, <1>3, <1>4, <1>5, <1>6, <1>7, <1>8 DEF Next, Main

(* The flags of the end are set in order.                                  *)
LEMMA EndsInOrderStep ==
  ASSUME Sound, EndsInOrder, [Next]_vars
  PROVE  EndsInOrder'
<1>1. fetch_end \in BOOLEAN /\ consume_end \in BOOLEAN /\ end_sent \in BOOLEAN
  BY DEF Sound, MainTyped
<1>2. CASE RequestPrompts
  BY <1>2 DEF EndsInOrder, RequestPrompts
<1>3. CASE CheckConsumed
  <2>1. /\ mpc = "check" /\ UNCHANGED <<fetch_end, end_sent, prompt_queue>>
        /\ (fetch_end => mpc' = "collect") /\ (~fetch_end => mpc' = "feed")
        /\ consume_end' => consume_end \/ fetch_end
        /\ consume_end => consume_end'
    BY <1>3 DEF CheckConsumed
  <2>2. QED
    BY <1>1, <2>1 DEF EndsInOrder
<1>4. CASE PutRolloutBatch
  <2>1. mpc = "put" /\ UNCHANGED <<consume_end, end_sent>> /\ mpc' \in {"collect", "dead"}
        /\ (prompt_queue' = <<>> \/ (UNCHANGED <<prompt_queue, fetch_end>> /\ mpc' = "dead"))
    BY <1>4 DEF PutRolloutBatch, Dies
  <2>2. ~fetch_end /\ ~consume_end /\ ~end_sent
    BY <2>1 DEF EndsInOrder
  <2>3. QED
    BY <2>1, <2>2 DEF EndsInOrder
<1>5. CASE CollectResults
  <2>1. /\ UNCHANGED <<fetch_end, consume_end, prompt_queue>> /\ mpc' = "loop"
        /\ end_sent' = (end_sent \/ consume_end)
    BY <1>5 DEF CollectResults
  <2>2. QED
    BY <1>1, <2>1 DEF EndsInOrder
<1>6. CASE Worker \/ DrainPoll \/ PublishSync \/ PublishStop \/ Ended \/ UNCHANGED vars
           \/ \E t \in Tasks : Generation(t) \/ GenerateFails(t)
  <2>1. UNCHANGED <<mpc, fetch_end, consume_end, end_sent, prompt_queue>>
    BY <1>6 DEF Worker, WorkerWake, WorkerEnds, GetNowait, CreateTask, WorkerSleep, DrainPoll,
                PublishSync, PublishStop, Ended, vars, Generation, GenerateStart, AcquireLease,
                GenerateDone, GenerateFails, feedVars
  <2>2. QED
    BY <2>1 DEF EndsInOrder
<1>7. CASE Quiesce \/ QuiesceReturns \/ QuiesceFails \/ QuiesceTimeout \/ TransferStarts
           \/ TransferDone \/ PublishVersion \/ ConsumeCommand \/ ShutDown
  <2>1. UNCHANGED <<fetch_end, consume_end, end_sent, prompt_queue>>
        /\ mpc # "collect" /\ mpc' \notin {"feed", "put"}
    BY <1>7 DEF Quiesce, QuiesceReturns, QuiesceFails, QuiesceTimeout, stay_closed, Dies,
                TransferStarts, TransferDone, PublishVersion, ConsumeCommand, ShutDown, feedVars
  <2>2. QED
    BY <2>1 DEF EndsInOrder
<1>8. CASE Resume \/ ReportRollouts \/ GateWaits \/ ValidationFeed \/ ValidationCollect
  <2>1. UNCHANGED <<fetch_end, consume_end, end_sent, prompt_queue>>
    BY <1>8 DEF Resume, ReportRollouts, GateWaits, ValidationFeed, ValidationCollect, feedVars
  <2>2. mpc # "collect" /\ mpc' \notin {"feed", "put"}
    BY <1>8 DEF Resume, ReportRollouts, GateWaits, ValidationFeed, ValidationCollect, Dies
  <2>3. QED
    BY <2>1, <2>2 DEF EndsInOrder
<1>9. QED
  BY <1>2, <1>3, <1>4, <1>5, <1>6, <1>7, <1>8 DEF Next, Main

(* A task leaves one place for another: nothing is dropped on the way.     *)
LEMMA KeptStep ==
  ASSUME Sound, [Next]_vars, ~failed', ~ValidationCollect
  PROVE  Kept \subseteq Kept'
<1>1. QueuesTyped /\ gen \in [Tasks -> Statuses]
  BY DEF Sound, LoopTyped
<1>2. CASE GetNowait
  <2>1. /\ UNCHANGED <<accounted, prompt_queue, gen, complete_queue, rewards>>
        /\ popped' = Head(task_queue) /\ task_queue' = Tail(task_queue)
        /\ task_queue # <<>> /\ popped = None
    BY <1>2 DEF GetNowait, may_launch, taskVars, feedVars
  <2>2. RangeOf(task_queue) = {popped'} \cup RangeOf(task_queue') /\ popped' \in Tasks
    BY <1>1, <2>1, QueueOps DEF QueuesTyped
  <2>3. popped' # None
    BY <2>2, TaskNumbers
  <2>4. QED
    BY <2>1, <2>2, <2>3 DEF Kept, Busy
<1>3. CASE CreateTask
  <2>1. /\ UNCHANGED <<accounted, prompt_queue, task_queue, complete_queue, rewards>>
        /\ popped \in Tasks /\ gen' = [gen EXCEPT ![popped] = "created"]
    BY <1>1, <1>3 DEF CreateTask, feedVars, QueuesTyped
  <2>2. \A t \in Tasks : Busy(t) \/ t = popped => Busy(t)'
    BY <1>1, <2>1 DEF Busy
  <2>3. QED
    BY <2>1, <2>2 DEF Kept
<1>4. ASSUME NEW t \in Tasks, Generation(t) PROVE Kept \subseteq Kept'
  <2>1. UNCHANGED <<accounted, prompt_queue, task_queue, popped, rewards>>
    BY <1>4 DEF Generation, GenerateStart, AcquireLease, GenerateDone, feedVars
  <2>2. \/ gen' \in {[gen EXCEPT ![t] = "waiting"], [gen EXCEPT ![t] = "running"]}
           /\ complete_queue' = complete_queue
        \/ gen' = [gen EXCEPT ![t] = "done"] /\ complete_queue' = Append(complete_queue, t)
    BY <1>4 DEF Generation, GenerateStart, AcquireLease, GenerateDone
  <2>3. CASE complete_queue' = complete_queue
             /\ gen' \in {[gen EXCEPT ![t] = "waiting"], [gen EXCEPT ![t] = "running"]}
    <3>1. \A u \in Tasks : Busy(u) => Busy(u)'
      BY <1>1, <2>3 DEF Busy
    <3>2. QED
      BY <2>1, <2>3, <3>1 DEF Kept
  <2>4. CASE gen' = [gen EXCEPT ![t] = "done"] /\ complete_queue' = Append(complete_queue, t)
    <3>1. \A u \in Tasks : Busy(u) => Busy(u)' \/ u = t
      BY <1>1, <2>4 DEF Busy
    <3>2. RangeOf(complete_queue') = RangeOf(complete_queue) \cup {t}
      BY <1>1, <2>4, QueueOps DEF QueuesTyped
    <3>3. QED
      BY <2>1, <3>1, <3>2 DEF Kept
  <2>5. QED
    BY <2>2, <2>3, <2>4
<1>5. CASE ReportRollouts
  <2>1. PICK n \in 0 .. Len(rewards) :
          /\ accounted' = accounted \cup {rewards[i] : i \in 1 .. n}
          /\ rewards' = SubSeq(rewards, n + 1, Len(rewards))
    BY <1>5 DEF ReportRollouts
  <2>2. rewards \in Seq(Tasks) /\ Len(rewards) \in Nat /\ DOMAIN rewards = 1 .. Len(rewards)
    BY <1>1, LenProperties DEF QueuesTyped
  <2>3. /\ rewards' \in Seq(Tasks) /\ Len(rewards') = Len(rewards) - n
        /\ \A i \in 1 .. Len(rewards) - n : rewards'[i] = rewards[n + i]
        /\ DOMAIN rewards' = 1 .. Len(rewards) - n
    <3> DEFINE N == Len(rewards)
               rest == SubSeq(rewards, n + 1, N)
    <3>1. N \in Int /\ n + 1 \in Int /\ N - n \in Nat /\ \A i \in n + 1 .. N : rewards[i] \in Tasks
      BY <2>2, ElementOfSeq
    <3>2. /\ rest \in Seq(Tasks) /\ Len(rest) = IF n + 1 <= N THEN N - (n + 1) + 1 ELSE 0
          /\ \A i \in 1 .. N - (n + 1) + 1 : rest[i] = rewards[(n + 1) + i - 1]
      BY <3>1, SubSeqProperties
    <3>3. rewards' = rest
      BY <2>1
    <3> HIDE DEF N, rest
    <3>4. N - (n + 1) + 1 = N - n /\ Len(rest) = N - n
      BY <3>1, <3>2
    <3>5. \A i \in 1 .. N - n : rest[i] = rewards[n + i]
      <4>1. \A i \in 1 .. N - n : (n + 1) + i - 1 = n + i
        OBVIOUS
      <4>2. QED
        BY <3>2, <3>4, <4>1
    <3>6. DOMAIN rest = 1 .. N - n
      BY <3>2, <3>4, LenProperties
    <3>7. QED
      BY <3>2, <3>3, <3>4, <3>5, <3>6 DEF N
  <2>4. ASSUME NEW i \in 1 .. Len(rewards) PROVE rewards[i] \in accounted' \cup RangeOf(rewards')
    <3>1. CASE i <= n
      BY <2>1, <2>2, <3>1
    <3>2. CASE ~(i <= n)
      <4>1. i - n \in 1 .. Len(rewards) - n /\ n + (i - n) = i
        BY <2>2, <3>2
      <4>2. rewards'[i - n] = rewards[i] /\ i - n \in DOMAIN rewards'
        BY <2>3, <4>1
      <4>3. QED
        BY <4>2 DEF RangeOf
    <3>3. QED
      BY <3>1, <3>2
  <2>5. RangeOf(rewards) \subseteq accounted' \cup RangeOf(rewards')
    BY <2>2, <2>4 DEF RangeOf
  <2>6. UNCHANGED <<prompt_queue, task_queue, popped, gen, complete_queue>>
    BY <1>5 DEF ReportRollouts, loopVars, taskVars
  <2>7. QED
    BY <2>1, <2>5, <2>6 DEF Kept, Busy
<1>6. CASE RequestPrompts
  <2>1. UNCHANGED <<accounted, task_queue, popped, gen, complete_queue, rewards>>
    BY <1>6 DEF RequestPrompts, loopVars, taskVars
  <2>2. RangeOf(prompt_queue) \subseteq RangeOf(prompt_queue')
    <3> DEFINE want == request_prompts_count(BatchSize)
               n == IF prompt_queue = <<>> THEN Least(want, Prompts - fetched) ELSE 0
               got == [i \in 1 .. n |-> fetched + i]
    <3>1. prompt_queue' = prompt_queue \/ prompt_queue = <<>> \/
          (prompt_queue # <<>> /\ prompt_queue' = prompt_queue \o got)
      BY <1>6 DEF RequestPrompts
    <3>2. prompt_queue # <<>> => got = <<>>
      OBVIOUS
    <3> HIDE DEF got
    <3>3. RangeOf(<<>>) = {} /\ <<>> \in Seq(Tasks)
      BY DEF RangeOf
    <3>4. prompt_queue # <<>> /\ prompt_queue' = prompt_queue \o got
            => RangeOf(prompt_queue') = RangeOf(prompt_queue) \cup RangeOf(got)
      BY <1>1, <3>2, <3>3, QueueOps DEF QueuesTyped
    <3>5. QED
      BY <3>1, <3>3, <3>4
  <2>3. QED
    BY <2>1, <2>2 DEF Kept, Busy
<1>7. CASE PutRolloutBatch
  <2>1. UNCHANGED <<popped, gen, complete_queue, rewards>>
    BY <1>7 DEF PutRolloutBatch, taskVars
  <2>2. \/ UNCHANGED <<prompt_queue, task_queue, accounted>>
        \/ accounted' = accounted \cup RangeOf(prompt_queue) /\ UNCHANGED task_queue
        \/ task_queue' = task_queue \o prompt_queue /\ UNCHANGED accounted
    BY <1>7 DEF PutRolloutBatch
  <2>3. RangeOf(task_queue \o prompt_queue) = RangeOf(task_queue) \cup RangeOf(prompt_queue)
    BY <1>1, QueueOps DEF QueuesTyped
  <2>4. QED
    BY <2>1, <2>2, <2>3 DEF Kept, Busy
<1>8. CASE CollectResults
  <2>1. PICK valid \in SUBSET RangeOf(complete_queue) :
          LET seen == accounted \cup (RangeOf(complete_queue) \ valid)
          IN IF consume_end /\ ~end_sent
             THEN accounted' = seen \cup RangeOf(rewards) \cup valid /\ rewards' = <<>>
             ELSE accounted' = seen /\ rewards' = rewards \o Usable(complete_queue, valid)
    BY <1>8, Collected
  <2>2. UNCHANGED <<prompt_queue, task_queue, popped, gen>>
    BY <1>8 DEF CollectResults, taskVars
  <2>3. RangeOf(rewards \o Usable(complete_queue, valid)) = RangeOf(rewards) \cup valid
    <3>1. /\ Usable(complete_queue, valid) \in Seq(Tasks)
          /\ RangeOf(Usable(complete_queue, valid)) = valid
      BY <1>1, UsableProperties DEF QueuesTyped
    <3>2. QED
      BY <1>1, <3>1, QueueOps DEF QueuesTyped
  <2>4. /\ accounted \cup RangeOf(rewards) \cup RangeOf(complete_queue)
             \subseteq accounted' \cup RangeOf(rewards')
    <3>1. CASE consume_end /\ ~end_sent
      BY <2>1, <3>1
    <3>2. CASE ~(consume_end /\ ~end_sent)
      BY <2>1, <2>3, <3>2
    <3>3. QED
      BY <3>1, <3>2
  <2>5. QED
    BY <2>2, <2>4 DEF Kept, Busy
<1>9. CASE ValidationFeed
  <2> DEFINE n == Least(request_prompts_count(BatchSize), val_left)
             fed == [i \in 1 .. n |-> Prompts + val_fed + i]
  <2>1. UNCHANGED <<accounted, prompt_queue, popped, gen, complete_queue, rewards>>
    BY <1>9 DEF ValidationFeed, taskVars, feedVars
  <2>2. task_queue' = task_queue \/ (~(n <= 0) /\ task_queue' = task_queue \o fed)
    BY <1>9 DEF ValidationFeed
  <2>3. ~(n <= 0) => fed \in Seq(Int)
    <3>1. n \in Int /\ val_fed \in Nat
      BY Cut DEF Sound, Budget
    <3> HIDE DEF n
    <3>2. SUFFICES ASSUME ~(n <= 0) PROVE fed \in Seq(Int)
      OBVIOUS
    <3>3. n \in Nat /\ Prompts + val_fed \in Int
      BY <3>1, <3>2, SchedulerAssumption
    <3>4. QED
      BY <3>3, BatchProperties
  <2>4. task_queue \in Seq(Int)
    BY DEF Sound, Admitted, LoadTypes
  <2> HIDE DEF n, fed
  <2>5. RangeOf(task_queue) \subseteq RangeOf(task_queue')
    <3>1. ~(n <= 0) => RangeOf(task_queue \o fed) = RangeOf(task_queue) \cup RangeOf(fed)
      BY <2>3, <2>4, QueueOps
    <3>2. QED
      BY <2>2, <3>1
  <2>6. QED
    BY <2>1, <2>5 DEF Kept, Busy
<1>10. CASE WorkerWake \/ WorkerEnds \/ WorkerSleep \/ DrainPoll \/ PublishSync \/ PublishStop
            \/ ConsumeCommand \/ ShutDown \/ Quiesce \/ QuiesceReturns \/ QuiesceFails
            \/ QuiesceTimeout \/ TransferStarts \/ TransferDone \/ PublishVersion \/ Resume
            \/ CheckConsumed \/ GateWaits \/ Ended \/ UNCHANGED vars
  <2>1. UNCHANGED <<accounted, prompt_queue, task_queue, popped, gen, complete_queue, rewards>>
    BY <1>10 DEF WorkerWake, WorkerEnds, WorkerSleep, DrainPoll, PublishSync, PublishStop,
                 ConsumeCommand, ShutDown, Quiesce, QuiesceReturns, QuiesceFails, QuiesceTimeout,
                 stay_closed, TransferStarts, TransferDone, PublishVersion, Resume, CheckConsumed,
                 GateWaits, Ended, vars, loopVars, taskVars, feedVars
  <2>2. QED
    BY <2>1 DEF Kept, Busy
<1>11. ASSUME NEW t \in Tasks, GenerateFails(t) PROVE FALSE
  BY <1>11 DEF GenerateFails, poison
<1>12. QED
  BY <1>2, <1>3, <1>4, <1>5, <1>6, <1>7, <1>8, <1>9, <1>10, <1>11 DEF Next, Main, Worker

(* _fatal_error is never cleared.                                          *)
LEMMA FailureStays ==
  ASSUME [Next]_vars, ~failed'
  PROVE  ~failed
<1>1. failed' = failed \/ failed' = TRUE
  BY DEF Next, Main, Worker, WorkerWake, WorkerEnds, GetNowait, CreateTask, WorkerSleep,
         DrainPoll, PublishSync, PublishStop, ConsumeCommand, ShutDown, Quiesce,
         QuiesceReturns, QuiesceFails, QuiesceTimeout, stay_closed, TransferStarts,
         TransferDone, PublishVersion, Resume, ReportRollouts, CheckConsumed, RequestPrompts,
         PutRolloutBatch, GateWaits, CollectResults, ValidationFeed, ValidationCollect, Ended,
         vars, Generation, GenerateStart, AcquireLease, GenerateDone, GenerateFails, poison,
         flagVars
<1>2. QED
  BY <1>1

(* Only RequestPrompts fetches, and a report is never taken back.          *)
LEMMA OnlyFetch ==
  ASSUME [Next]_vars
  PROVE  (fetched' = fetched \/ RequestPrompts) /\ accounted \subseteq accounted'
<1>1. fetched' = fetched \/ RequestPrompts
  BY DEF Next, Main, Worker, WorkerWake, WorkerEnds, GetNowait, CreateTask, WorkerSleep,
         DrainPoll, PublishSync, PublishStop, ConsumeCommand, ShutDown, Quiesce,
         QuiesceReturns, QuiesceFails, QuiesceTimeout, stay_closed, TransferStarts,
         TransferDone, PublishVersion, Resume, ReportRollouts, CheckConsumed,
         PutRolloutBatch, GateWaits, CollectResults, ValidationFeed, ValidationCollect, Ended,
         vars, Generation, GenerateStart, AcquireLease, GenerateDone, GenerateFails, feedVars
<1>2. accounted \subseteq accounted'
  <2>1. CASE CollectResults
    <3>1. PICK valid \in SUBSET RangeOf(complete_queue) :
            LET seen == accounted \cup (RangeOf(complete_queue) \ valid)
            IN IF consume_end /\ ~end_sent
               THEN accounted' = seen \cup RangeOf(rewards) \cup valid /\ rewards' = <<>>
               ELSE accounted' = seen /\ rewards' = rewards \o Usable(complete_queue, valid)
      BY <2>1, Collected
    <3>2. QED
      BY <3>1
  <2>2. CASE ReportRollouts \/ PutRolloutBatch \/ ValidationCollect
    BY <2>2 DEF ReportRollouts, PutRolloutBatch, ValidationCollect
  <2>3. ~(CollectResults \/ ReportRollouts \/ PutRolloutBatch \/ ValidationCollect)
          => accounted' = accounted
    BY DEF Next, Main, Worker, WorkerWake, WorkerEnds, GetNowait, CreateTask, WorkerSleep,
           DrainPoll, PublishSync, PublishStop, ConsumeCommand, ShutDown, Quiesce,
           QuiesceReturns, QuiesceFails, QuiesceTimeout, stay_closed, TransferStarts,
           TransferDone, PublishVersion, Resume, CheckConsumed, RequestPrompts, GateWaits,
           ValidationFeed, Ended, vars, Generation, GenerateStart, AcquireLease, GenerateDone,
           GenerateFails, feedVars
  <2>4. QED
    BY <2>1, <2>2, <2>3
<1>3. QED
  BY <1>1, <1>2

(* What is fetched has a place, and keeps one.                             *)
LEMMA NothingLostStep ==
  ASSUME Sound, Tracked, [Next]_vars
  PROVE  NothingLost'
<1> SUFFICES ASSUME ~failed' PROVE 1 .. fetched' \subseteq Kept'
  BY DEF NothingLost
<1>1. ~failed
  BY FailureStays
<1>2. 1 .. fetched \subseteq Kept /\ FetchedLate
  BY <1>1 DEF Tracked, NothingLost
<1>3. CASE ValidationCollect
  <2>1. fetched' = 0
    BY <1>2, <1>3 DEF FetchedLate, ValidationCollect, Validating
  <2>2. 1 .. fetched' = {}
    BY <2>1
  <2>3. QED
    BY <2>2
<1>4. CASE ~ValidationCollect
  <2>1. Kept \subseteq Kept'
    BY <1>4, KeptStep
  <2>2. CASE fetched' = fetched
    BY <1>2, <2>1, <2>2
  <2>3. CASE RequestPrompts
    <3> DEFINE want == request_prompts_count(BatchSize)
               n == IF prompt_queue = <<>> THEN Least(want, Prompts - fetched) ELSE 0
               got == [i \in 1 .. n |-> fetched + i]
    <3>1. \/ fetched' = fetched
          \/ ~(want <= 0) /\ fetched' = fetched + n /\ prompt_queue' = prompt_queue \o got
      BY <2>3 DEF RequestPrompts
    <3>2. want \in Int /\ fetched \in 0 .. Prompts /\ prompt_queue \in Seq(Int)
      BY RoomLeft DEF Sound, Admitted, LoadTypes
    <3> HIDE DEF want
    <3>3. ~(want <= 0) => n \in Nat
      <4>1. n = 0 \/ n = Least(want, Prompts - fetched)
        OBVIOUS
      <4>2. QED
        BY <3>2, <4>1, SchedulerAssumption DEF Least
    <3> HIDE DEF n
    <3>4. CASE ~(want <= 0) /\ fetched' = fetched + n /\ prompt_queue' = prompt_queue \o got
      <4>1. n \in Nat /\ fetched \in Int
        BY <3>2, <3>3, <3>4
      <4>2. got \in Seq(Int) /\ RangeOf(got) = {fetched + i : i \in 1 .. n}
        <5>1. \A i \in 1 .. n : fetched + i \in Int
          BY <4>1
        <5>2. QED
          BY <4>1, <5>1, BatchOf
      <4> HIDE DEF got
      <4>3. RangeOf(got) \subseteq RangeOf(prompt_queue')
        BY <3>2, <3>4, <4>2, QueueOps
      <4>4. ASSUME NEW t \in 1 .. fetched' PROVE t \in 1 .. fetched \/ t \in RangeOf(got)
        <5>1. t \in 1 .. fetched \/ (t - fetched \in 1 .. n /\ t = fetched + (t - fetched))
          BY <3>2, <3>4, <4>1
        <5>2. QED
          BY <4>2, <5>1
      <4>5. RangeOf(prompt_queue') \subseteq Kept'
        BY DEF Kept
      <4>6. QED
        BY <1>2, <2>1, <4>3, <4>4, <4>5
    <3>5. QED
      BY <2>2, <3>1, <3>4
  <2>4. fetched' = fetched \/ RequestPrompts
    BY OnlyFetch
  <2>5. QED
    BY <2>2, <2>3, <2>4
<1>5. QED
  BY <1>3, <1>4

(* is_all_tasks_completed looks at the queue and the active tasks only:    *)
(* what it misses is the task between the two.                             *)
LEMMA OneMissingStep ==
  ASSUME Sound, Tracked, [Next]_vars
  PROVE  OneMissing'
<1> SUFFICES ASSUME ~failed', consume_end'
             PROVE  \E one : Unreported' \subseteq
                      {one} \cup (IF end_sent' THEN {} ELSE RangeOf(complete_queue'))
  BY DEF OneMissing
<1>1. ~failed /\ EndsInOrder /\ OneMissing /\ NothingLost
  BY FailureStays DEF Tracked
<1>2. consume_end \in BOOLEAN /\ end_sent \in BOOLEAN
  BY DEF Sound, MainTyped
<1>3. fetched' = fetched /\ accounted \subseteq accounted'
  <2>1. ~RequestPrompts
    BY <1>1 DEF RequestPrompts, EndsInOrder
  <2>2. QED
    BY <2>1, OnlyFetch
<1>4. Unreported' \subseteq Unreported
  BY <1>3 DEF Unreported
<1>5. CASE consume_end /\ end_sent
  <2>1. end_sent' = TRUE
    BY <1>5 DEF Next, Main, Worker, WorkerWake, WorkerEnds, GetNowait, CreateTask, WorkerSleep,
           DrainPoll, PublishSync, PublishStop, ConsumeCommand, ShutDown, Quiesce,
           QuiesceReturns, QuiesceFails, QuiesceTimeout, stay_closed, TransferStarts,
           TransferDone, PublishVersion, Resume, ReportRollouts, CheckConsumed, RequestPrompts,
           PutRolloutBatch, GateWaits, CollectResults, ValidationFeed, ValidationCollect, Ended,
           vars, Generation, GenerateStart, AcquireLease, GenerateDone, GenerateFails, feedVars
  <2>2. PICK one : Unreported \subseteq {one}
    BY <1>1, <1>5 DEF OneMissing
  <2>3. QED
    BY <1>4, <2>1, <2>2
<1>6. CASE consume_end /\ ~end_sent
  <2>1. mpc = "collect"
    BY <1>1, <1>6 DEF EndsInOrder
  <2>2. PICK one : Unreported \subseteq {one} \cup RangeOf(complete_queue)
    BY <1>1, <1>6 DEF OneMissing
  <2>3. CASE CollectResults
    <3>1. end_sent' = TRUE
      BY <1>6, <2>3 DEF CollectResults
    <3>2. PICK valid \in SUBSET RangeOf(complete_queue) :
            LET seen == accounted \cup (RangeOf(complete_queue) \ valid)
            IN IF consume_end /\ ~end_sent
               THEN accounted' = seen \cup RangeOf(rewards) \cup valid /\ rewards' = <<>>
               ELSE accounted' = seen /\ rewards' = rewards \o Usable(complete_queue, valid)
      BY <2>3, Collected
    <3>3. RangeOf(complete_queue) \subseteq accounted'
      BY <1>6, <3>2
    <3>4. Unreported' \subseteq {one}
      BY <1>4, <2>2, <3>3 DEF Unreported
    <3>5. QED
      BY <3>1, <3>4
  <2>4. CASE ~CollectResults
    <3>1. \/ UNCHANGED <<end_sent, complete_queue>>
          \/ \E t \in Tasks : GenerateDone(t)
      BY <2>1, <2>4
      DEF Next, Main, Worker, WorkerWake, WorkerEnds, GetNowait, CreateTask, WorkerSleep,
          DrainPoll, PublishSync, PublishStop, ConsumeCommand, ShutDown, Quiesce,
          QuiesceReturns, QuiesceFails, QuiesceTimeout, stay_closed, TransferStarts,
          TransferDone, PublishVersion, Resume, ReportRollouts, CheckConsumed, RequestPrompts,
          PutRolloutBatch, GateWaits, ValidationFeed, ValidationCollect, Ended, vars, Generation,
          GenerateStart, AcquireLease, GenerateFails, feedVars, loopVars
    <3>2. CASE UNCHANGED <<end_sent, complete_queue>>
      BY <1>4, <1>6, <2>2, <3>2
    <3>3. ASSUME NEW t \in Tasks, GenerateDone(t)
          PROVE  end_sent' = end_sent /\ RangeOf(complete_queue) \subseteq RangeOf(complete_queue')
      <4>1. complete_queue' = Append(complete_queue, t) /\ complete_queue \in Seq(Tasks)
        BY <3>3 DEF GenerateDone, Sound, QueuesTyped
      <4>2. QED
        BY <3>3, <4>1, QueueOps DEF GenerateDone, feedVars
    <3>4. QED
      BY <1>4, <1>6, <2>2, <3>1, <3>2, <3>3
  <2>5. QED
    BY <2>3, <2>4
<1>7. CASE ~consume_end
  <2>1. /\ CheckConsumed /\ fetch_end /\ is_all_tasks_completed /\ rewards = <<>>
        /\ UNCHANGED <<end_sent, complete_queue>>
    <3>1. CheckConsumed
      BY <1>7
      DEF Next, Main, Worker, WorkerWake, WorkerEnds, GetNowait, CreateTask, WorkerSleep,
          DrainPoll, PublishSync, PublishStop, ConsumeCommand, ShutDown, Quiesce,
          QuiesceReturns, QuiesceFails, QuiesceTimeout, stay_closed, TransferStarts,
          TransferDone, PublishVersion, Resume, ReportRollouts, RequestPrompts, CollectResults,
          PutRolloutBatch, GateWaits, ValidationFeed, ValidationCollect, Ended, vars, Generation,
          GenerateStart, AcquireLease, GenerateDone, GenerateFails, feedVars
    <3>2. QED
      BY <1>7, <3>1 DEF CheckConsumed, loopVars
  <2>2. prompt_queue = <<>> /\ task_queue = <<>> /\ active = {} /\ ~end_sent
    BY <1>1, <1>7, <2>1 DEF EndsInOrder, is_all_tasks_completed
  <2>3. \A t \in Tasks : ~Busy(t)
    BY <2>2 DEF Sound, FenceInv, FenceHolds
  <2>4. RangeOf(prompt_queue) = {} /\ RangeOf(task_queue) = {} /\ RangeOf(rewards) = {}
    BY <2>1, <2>2 DEF RangeOf
  <2>5. 1 .. fetched \subseteq accounted \cup {popped} \cup RangeOf(complete_queue)
    BY <1>1, <2>3, <2>4 DEF NothingLost, Kept
  <2>6. Unreported' \subseteq {popped} \cup RangeOf(complete_queue')
    BY <1>4, <2>1, <2>5 DEF Unreported
  <2>7. QED
    BY <2>1, <2>2, <2>6
<1>8. QED
  BY <1>2, <1>5, <1>6, <1>7

(* Every prompt fetched is tracked to its report.                          *)
LEMMA TrackedStep ==
  ASSUME ValidateAt \subseteq {0}, Sound, Tracked, [Next]_vars
  PROVE  Tracked'
<1>1. EndsInOrder
  BY DEF Tracked
<1>2. QED
  BY <1>1, FetchedLateStep, EndsInOrderStep, NothingLostStep, OneMissingStep DEF Tracked

(* The end signal (send_end_signal) comes after the reports: without a     *)
(* failure at most one fetched prompt, the one the worker loop was just    *)
(* launching, is unreported when the controller is told that the worker    *)
(* has finished, for every number of prompts, batch size and concurrency,  *)
(* as long as validation comes before training, with the weights of step 0.*)
THEOREM EndsAfterReports ==
  ASSUME ValidateAt \subseteq {0}
  PROVE  Spec => []EndAfterReports
<1>1. Init => Sound /\ Tracked
  BY SoundInit, TrackedInit
<1>2. Sound /\ Tracked /\ [Next]_vars => (Sound /\ Tracked)'
  BY SoundStep, TrackedStep
<1>3. Sound /\ Tracked => EndAfterReports
  <2> SUFFICES ASSUME Sound, Tracked, end_sent, ~failed PROVE Cardinality(Unreported) <= 1
    BY DEF EndAfterReports
  <2>1. PICK one : Unreported \subseteq {one}
    BY DEF Tracked, EndsInOrder, OneMissing
  <2>2. IsFiniteSet({one}) /\ Cardinality({one}) = 1
    BY FS_Singleton
  <2>3. Cardinality(Unreported) <= Cardinality({one})
    BY <2>1, <2>2, FS_Subset
  <2>4. QED
    BY <2>2, <2>3
<1>4. QED
  BY <1>1, <1>2, <1>3, PTL DEF Spec
=============================================================================
