--------------------------- MODULE RolloutScheduler ---------------------------
(***************************************************************************)
(* A rollout worker in asynchronous mode (rollout.mode = "async"):         *)
(* rollout/worker/asynchronous/rollout_task_scheduler.py and the main loop *)
(* of rollout/worker/rollout_control.py that feeds and fences it.          *)
(*                                                                         *)
(* The main thread fetches prompts, puts them into the scheduler's queue,  *)
(* collects results, and executes the weight-sync commands.  A second      *)
(* thread runs an event loop with the scheduler's worker loop, one         *)
(* coroutine per generation and, during a weight sync, a drain coroutine:  *)
(* these interleave only where they await, the main thread everywhere.     *)
(*                                                                         *)
(* Before the live model is written the scheduler is drained, unless the   *)
(* backend isolates generations by model leases: then dispatch is paused   *)
(* and the backend hands out no lease until the new weights are in place.  *)
(* The version gate on prompts is PromptFlow's subject: here any decision  *)
(* is possible.                                                            *)
(***************************************************************************)
EXTENDS Integers, Sequences, FiniteSets

CONSTANTS
  None,
  Prompts,         \* training prompts the controller has
  BatchSize,       \* prompts asked for at once
  MaxConcurrent,   \* max_concurrent_requests
  LastStep,        \* bound: weight syncs for steps 0 .. LastStep
  ValidateAt,      \* steps after whose weight sync validation runs
  ValPrompts,      \* prompts of one validation
  MayFail          \* generations may fail, and drains may time out

ASSUME SchedulerAssumption ==
  /\ Prompts \in Nat /\ LastStep \in Nat /\ ValPrompts \in Nat
  /\ BatchSize \in Nat \ {0} /\ MaxConcurrent \in Nat \ {0}
  /\ ValidateAt \subseteq 0 .. LastStep /\ IsFiniteSet(ValidateAt)
  /\ MayFail \in BOOLEAN
  /\ None \notin Int

VARIABLES
  isolates,        \* the backend's isolates_generation_from_weight_sync
  leader,          \* this replica receives the P2R of each round
  \* RolloutTaskScheduler
  running, accepting, paused, poisoned,
  failed,          \* _fatal_error is set
  task_queue, complete_queue,
  popped,          \* the worker loop's local rollout_task, not yet launched
  active,          \* _active_tasks
  gen,             \* where each task's coroutine stands
  stamp,           \* task: behavior_weight_version
  weights,         \* task: the weights it runs, or ran, with
  wpc,             \* worker loop: where it stands
  drain,           \* the drain coroutine
  \* weight sync
  published,       \* weight syncs the controller has published
  commands,        \* _command_queue
  cmd,             \* the command the main thread executes
  pending,         \* _pending_async_weight_step
  hold,            \* _async_weight_sync_open: leases are held back
  live,            \* weights in the live model
  version,         \* current_weight_version
  weight_synced,
  \* main loop
  mpc,
  shutdown,        \* shutdown_signal
  fetched,         \* prompts fetched so far
  prompt_queue,    \* the batch in _prompt_queue
  is_end,          \* what the last fetch said
  fetch_end, consume_end,
  rewards,         \* tasks in the reward dispatcher
  accounted,       \* tasks reported to the controller, or reported discarded
  end_sent,        \* _rollout_end_acknowledged
  \* validation
  validation_flag,
  val_fed,         \* validation prompts put into the scheduler, over all validations
  val_left,        \* prompts left of this validation
  val_prompts, val_payloads   \* total_prompts_count, total_validation_payload_count

cfgVars == <<isolates, leader>>
flagVars == <<running, accepting, paused, poisoned, failed>>
taskVars == <<active, gen, stamp, weights>>
loopVars == <<task_queue, complete_queue, popped, taskVars, wpc, drain>>
syncVars == <<published, commands, cmd, pending, hold, live, version, weight_synced>>
feedVars == <<shutdown, fetched, prompt_queue, is_end, fetch_end, consume_end, rewards,
              accounted, end_sent>>
valVars == <<validation_flag, val_fed, val_left, val_prompts, val_payloads>>
vars == <<cfgVars, flagVars, loopVars, syncVars, mpc, feedVars, valVars>>

Steps == 0 .. LastStep
Trained == 1 .. Prompts
Tasks == 1 .. Prompts + ValPrompts * Cardinality(ValidateAt)
Unsynced == -1   \* the weights the engine was initialised with
Torn == -2       \* the live model while it is being written

SyncCommand == [type : {"P2R", "R2R"}, step : Steps, stop : BOOLEAN]
Command == SyncCommand \cup [type : {"STOP"}]

RangeOf(s) == {s[i] : i \in DOMAIN s}

TypeOK ==
  /\ isolates \in BOOLEAN /\ leader \in BOOLEAN
  /\ running \in BOOLEAN /\ accepting \in BOOLEAN /\ paused \in BOOLEAN
  /\ poisoned \in BOOLEAN /\ failed \in BOOLEAN
  /\ task_queue \in Seq(Tasks) /\ complete_queue \in Seq(Tasks)
  /\ popped \in Tasks \cup {None} /\ active \subseteq Tasks
  /\ gen \in [Tasks -> {"none", "created", "waiting", "running", "done", "failed"}]
  /\ stamp \in [Tasks -> Steps \cup {None}]
  /\ weights \in [Tasks -> Steps \cup {None, Unsynced, Torn}]
  /\ wpc \in {"idle", "dispatch", "ended"}
  /\ drain \in {"none", "polling", "drained", "failed"}
  /\ published \in 0 .. LastStep + 1
  /\ commands \in Seq(Command) /\ cmd \in Command \cup {None}
  /\ pending \in Steps \cup {None} /\ hold \in BOOLEAN
  /\ live \in Steps \cup {Unsynced, Torn}
  /\ version \in Steps /\ weight_synced \in BOOLEAN
  /\ shutdown \in BOOLEAN
  /\ mpc \in {"loop", "report", "check", "feed", "put", "collect", "fence", "draining",
              "write", "writing", "publish", "resume", "await_r2r",
              "val_feed", "val_collect", "stopped", "dead"}
  /\ fetched \in 0 .. Prompts /\ prompt_queue \in Seq(Tasks)
  /\ is_end \in BOOLEAN /\ fetch_end \in BOOLEAN /\ consume_end \in BOOLEAN
  /\ rewards \in Seq(Tasks) /\ accounted \subseteq Tasks /\ end_sent \in BOOLEAN
  /\ validation_flag \in BOOLEAN
  /\ val_fed \in Nat /\ val_left \in Nat /\ val_prompts \in Nat /\ val_payloads \in Nat

(* The engine and the scheduler are started by the first weight-sync       *)
(* command, which does not go on before the scheduler runs.                *)
Init ==
  /\ isolates \in BOOLEAN /\ leader \in BOOLEAN
  /\ running = FALSE /\ accepting = FALSE /\ paused = FALSE
  /\ poisoned = FALSE /\ failed = FALSE
  /\ task_queue = <<>> /\ complete_queue = <<>> /\ popped = None /\ active = {}
  /\ gen = [t \in Tasks |-> "none"]
  /\ stamp = [t \in Tasks |-> None] /\ weights = [t \in Tasks |-> None]
  /\ wpc = "idle" /\ drain = "none"
  /\ published = 0 /\ commands = <<>> /\ cmd = None /\ pending = None
  /\ hold = FALSE /\ live = Unsynced /\ version = 0 /\ weight_synced = FALSE
  /\ mpc = "loop" /\ shutdown = FALSE
  /\ fetched = 0 /\ prompt_queue = <<>> /\ is_end = FALSE
  /\ fetch_end = FALSE /\ consume_end = FALSE
  /\ rewards = <<>> /\ accounted = {} /\ end_sent = FALSE
  /\ validation_flag = FALSE
  /\ val_fed = 0 /\ val_left = 0 /\ val_prompts = 0 /\ val_payloads = 0

Dies == mpc' = "dead"   \* an exception leaves the main loop: the process ends

-----------------------------------------------------------------------------
(* Event-loop thread.  Its coroutines run one at a time: nothing else runs *)
(* while the worker loop is in its dispatch section.                       *)

LoopFree == mpc # "dead" /\ wpc = "idle"

Finished(t) == gen[t] \in {"done", "failed"}

(* _worker_loop wakes up, drops the finished tasks and looks at _paused,   *)
(* not again before it sleeps; once stopped it only waits for the tasks    *)
(* that are left.                                                          *)
WorkerWake ==
  /\ LoopFree /\ running
  /\ active' = {t \in active : ~Finished(t)}
  /\ wpc' = IF ~paused /\ Cardinality(active') < MaxConcurrent /\ task_queue # <<>>
            THEN "dispatch" ELSE "idle"
  /\ UNCHANGED <<cfgVars, flagVars, task_queue, complete_queue, popped, gen, stamp,
                 weights, drain, syncVars, mpc, feedVars, valVars>>

WorkerEnds ==
  /\ LoopFree /\ ~running /\ mpc = "stopped"
  /\ \A t \in active : Finished(t)
  /\ wpc' = "ended"
  /\ UNCHANGED <<cfgVars, flagVars, task_queue, complete_queue, popped, taskVars,
                 drain, syncVars, mpc, feedVars, valVars>>

(* Mutant: the batch is launched whole.                                    *)
launch_all == task_queue # <<>>

may_launch == Cardinality(active) < MaxConcurrent /\ task_queue # <<>>

(* While there is room and a task: take it off the queue ...               *)
GetNowait ==
  /\ mpc # "dead" /\ wpc = "dispatch" /\ popped = None
  /\ may_launch
  /\ popped' = Head(task_queue)
  /\ task_queue' = Tail(task_queue)
  /\ UNCHANGED <<cfgVars, flagVars, complete_queue, taskVars, wpc, drain, syncVars,
                 mpc, feedVars, valVars>>

(* ... then create its coroutine and add it to the active tasks.           *)
CreateTask ==
  /\ mpc # "dead" /\ wpc = "dispatch" /\ popped # None
  /\ active' = active \cup {popped}
  /\ gen' = [gen EXCEPT ![popped] = "created"]
  /\ popped' = None
  /\ UNCHANGED <<cfgVars, flagVars, task_queue, complete_queue, stamp, weights, wpc,
                 drain, syncVars, mpc, feedVars, valVars>>

WorkerSleep ==
  /\ mpc # "dead" /\ wpc = "dispatch" /\ popped = None
  /\ ~may_launch
  /\ wpc' = "idle"
  /\ UNCHANGED <<cfgVars, flagVars, task_queue, complete_queue, popped, taskVars,
                 drain, syncVars, mpc, feedVars, valVars>>

(* _generate_single starts: the task is stamped with the live version and  *)
(* begins to run, or waits for a lease.                                    *)
GenerateStart(t) ==
  /\ LoopFree /\ gen[t] = "created"
  /\ stamp' = [stamp EXCEPT ![t] = version]
  /\ IF hold
     THEN /\ gen' = [gen EXCEPT ![t] = "waiting"]
          /\ weights' = weights
     ELSE /\ gen' = [gen EXCEPT ![t] = "running"]
          /\ weights' = [weights EXCEPT ![t] = live]
  /\ UNCHANGED <<cfgVars, flagVars, task_queue, complete_queue, popped, active, wpc,
                 drain, syncVars, mpc, feedVars, valVars>>

(* The backend hands out a lease of the live model.                        *)
AcquireLease(t) ==
  /\ mpc # "dead" /\ gen[t] = "waiting" /\ ~hold
  /\ gen' = [gen EXCEPT ![t] = "running"]
  /\ weights' = [weights EXCEPT ![t] = live]
  /\ UNCHANGED <<cfgVars, flagVars, task_queue, complete_queue, popped, active, stamp,
                 wpc, drain, syncVars, mpc, feedVars, valVars>>

(* Mutant: the sample is stamped when it completes.                        *)
stamp_at_completion(t) ==
  /\ LoopFree /\ gen[t] = "running"
  /\ gen' = [gen EXCEPT ![t] = "done"]
  /\ stamp' = [stamp EXCEPT ![t] = version]
  /\ complete_queue' = Append(complete_queue, t)
  /\ UNCHANGED <<cfgVars, flagVars, task_queue, popped, active, weights, wpc, drain,
                 syncVars, mpc, feedVars, valVars>>

GenerateDone(t) ==
  /\ LoopFree /\ gen[t] = "running"
  /\ gen' = [gen EXCEPT ![t] = "done"]
  /\ complete_queue' = Append(complete_queue, t)
  /\ UNCHANGED <<cfgVars, flagVars, task_queue, popped, active, stamp, weights, wpc,
                 drain, syncVars, mpc, feedVars, valVars>>

poison ==
  /\ failed' = TRUE /\ accepting' = FALSE
  /\ paused' = TRUE /\ poisoned' = TRUE
  /\ UNCHANGED running

(* An error, or an empty result, poisons the scheduler for good.           *)
GenerateFails(t) ==
  /\ MayFail /\ LoopFree /\ gen[t] = "running"
  /\ gen' = [gen EXCEPT ![t] = "failed"]
  /\ poison
  /\ UNCHANGED <<cfgVars, task_queue, complete_queue, popped, active, stamp, weights,
                 wpc, drain, syncVars, mpc, feedVars, valVars>>

(* Mutant: the queue alone decides.                                        *)
queue_drained == task_queue = <<>>

Drained == task_queue = <<>> /\ \A t \in active : Finished(t)

(* _drain_then_pause_on_loop: the check and the pause are one step of the  *)
(* event loop.                                                             *)
DrainPoll ==
  /\ LoopFree /\ drain = "polling"
  /\ \/ /\ ~running \/ failed
        /\ drain' = "failed" /\ paused' = paused
     \/ /\ running /\ ~failed /\ Drained
        /\ drain' = "drained" /\ paused' = TRUE
  /\ UNCHANGED <<cfgVars, running, accepting, poisoned, failed, task_queue,
                 complete_queue, popped, taskVars, wpc, syncVars, mpc, feedVars, valVars>>

-----------------------------------------------------------------------------
(* Controller *)

(* A round of weight sync; the last one of the job may stop the replica.   *)
PublishSync ==
  /\ published <= LastStep /\ mpc \notin {"stopped", "dead"}
  /\ \E stop \in IF published = LastStep THEN BOOLEAN ELSE {FALSE} :
       LET R2R == [type |-> "R2R", step |-> published, stop |-> stop]
           P2R == [type |-> "P2R", step |-> published, stop |-> FALSE]
       IN commands' = commands \o (IF leader THEN <<P2R, R2R>> ELSE <<R2R>>)
  /\ published' = published + 1
  /\ UNCHANGED <<cfgVars, flagVars, loopVars, cmd, pending, hold, live, version,
                 weight_synced, mpc, feedVars, valVars>>

(* The explicit STOP follows the end signal of the worker.                 *)
PublishStop ==
  /\ published = LastStep + 1 /\ end_sent
  /\ commands = <<>> /\ ~shutdown /\ mpc \notin {"stopped", "dead"}
  /\ commands' = <<[type |-> "STOP"]>>
  /\ UNCHANGED <<cfgVars, flagVars, loopVars, published, cmd, pending, hold, live,
                 version, weight_synced, mpc, feedVars, valVars>>

-----------------------------------------------------------------------------
(* Main thread: weight-sync commands *)

(* consume_command takes one command; after a P2R it waits for the R2R of  *)
(* the round.  The first one initialises the engine in the scheduler's     *)
(* thread, which then accepts tasks.                                       *)
ConsumeCommand ==
  /\ mpc = "await_r2r" \/ (mpc = "loop" /\ ~shutdown)
  /\ commands # <<>>
  /\ commands' = Tail(commands)
  /\ cmd' = Head(commands)
  /\ IF cmd'.type = "STOP"
     THEN mpc' = "report" /\ shutdown' = TRUE /\ UNCHANGED flagVars
     ELSE /\ mpc' = "fence" /\ shutdown' = shutdown
          /\ running' = TRUE
          /\ accepting' = (accepting \/ ~running)
          /\ UNCHANGED <<paused, poisoned, failed>>
  /\ UNCHANGED <<cfgVars, loopVars, published, pending, hold, live, version,
                 weight_synced, fetched, prompt_queue, is_end, fetch_end, consume_end,
                 rewards, accounted, end_sent, valVars>>

(* scheduler.stop(wait = False), once the main loop has ended.             *)
ShutDown ==
  /\ mpc = "loop" /\ shutdown
  /\ running' = FALSE /\ accepting' = FALSE
  /\ mpc' = "stopped"
  /\ UNCHANGED <<cfgVars, paused, poisoned, failed, loopVars, syncVars, feedVars, valVars>>

(* Mutant: stop dispatch at once, and drain only what already runs.        *)
close_at_once == accepting' = FALSE /\ paused' = TRUE

(* Admission is closed and dispatch opened, to drain what was admitted.    *)
close_for_drain == accepting' = FALSE /\ paused' = FALSE

(* pause: dispatch stops, unless it is already stopped or draining.        *)
pause == accepting' = accepting /\ paused' = (paused \/ accepting)

(* Mutant: a transaction must always be pending.                           *)
not_pending == pending # cmd.step

pending_mismatch == pending # None /\ pending # cmd.step

(* _quiesce_async_scheduler_for_weight_sync, up to the wait for the drain. *)
Quiesce ==
  /\ mpc = "fence"
  /\ \/ /\ pending_mismatch \/ (~isolates /\ poisoned)
        /\ Dies
        /\ UNCHANGED <<accepting, paused, drain, hold, pending>>
     \/ /\ ~pending_mismatch /\ isolates
        /\ IF hold THEN UNCHANGED <<accepting, paused>> ELSE pause
        /\ hold' = TRUE /\ pending' = cmd.step
        /\ drain' = drain /\ mpc' = "write"
     \/ /\ ~pending_mismatch /\ ~isolates /\ ~poisoned
        /\ ~accepting /\ paused
        /\ pending' = cmd.step /\ mpc' = "write"
        /\ UNCHANGED <<accepting, paused, drain, hold>>
     \/ /\ ~pending_mismatch /\ ~isolates /\ ~poisoned
        /\ accepting \/ ~paused
        /\ close_for_drain
        /\ drain' = "polling" /\ mpc' = "draining"
        /\ UNCHANGED <<hold, pending>>
  /\ UNCHANGED <<cfgVars, running, poisoned, failed, task_queue, complete_queue,
                 popped, taskVars, wpc, published, commands, cmd, live, version,
                 weight_synced, feedVars, valVars>>

(* The drain returned: go on, unless a generation failed meanwhile.        *)
QuiesceReturns ==
  /\ mpc = "draining" /\ drain = "drained"
  /\ drain' = "none"
  /\ IF failed THEN Dies ELSE mpc' = "write"
  /\ pending' = IF failed THEN pending ELSE cmd.step
  /\ UNCHANGED <<cfgVars, flagVars, task_queue, complete_queue, popped, taskVars, wpc,
                 published, commands, cmd, hold, live, version, weight_synced,
                 feedVars, valVars>>

(* It failed, or the wait for it times out: the scheduler stays closed.    *)
stay_closed ==
  /\ drain' = "none"
  /\ paused' = TRUE /\ poisoned' = TRUE
  /\ Dies
  /\ UNCHANGED <<cfgVars, running, accepting, failed, task_queue, complete_queue,
                 popped, taskVars, wpc, syncVars, feedVars, valVars>>

QuiesceFails == mpc = "draining" /\ drain = "failed" /\ stay_closed

QuiesceTimeout == MayFail /\ mpc = "draining" /\ drain = "polling" /\ stay_closed

(* The P2R receive, and the broadcast at all but the leader, write into    *)
(* the live model, one parameter after the other.                          *)
WritesLive == cmd.type = "P2R" \/ ~leader

(* Mutant: the weights of the step after.                                  *)
transferred_ahead == IF WritesLive THEN cmd.step + 1 ELSE live

transferred == IF WritesLive THEN cmd.step ELSE live

TransferStarts ==
  /\ mpc = "write"
  /\ live' = IF WritesLive THEN Torn ELSE live
  /\ mpc' = "writing"
  /\ UNCHANGED <<cfgVars, flagVars, loopVars, published, commands, cmd, pending, hold,
                 version, weight_synced, feedVars, valVars>>

(* inference_stream.synchronize(): the update is complete.                 *)
TransferDone ==
  /\ mpc = "writing"
  /\ live' = transferred
  /\ mpc' = IF cmd.type = "P2R" THEN "await_r2r" ELSE "publish"
  /\ UNCHANGED <<cfgVars, flagVars, loopVars, published, commands, cmd, pending, hold,
                 version, weight_synced, feedVars, valVars>>

(* The version and the readiness flag are published ...                    *)
PublishVersion ==
  /\ mpc = "publish"
  /\ IF cmd.step < version
     THEN Dies /\ UNCHANGED <<version, weight_synced, validation_flag>>
     ELSE /\ version' = cmd.step /\ weight_synced' = TRUE
          /\ validation_flag' = (validation_flag \/ cmd.step \in ValidateAt)
          /\ mpc' = "resume"
  /\ UNCHANGED <<cfgVars, flagVars, loopVars, published, commands, cmd, pending, hold,
                 live, feedVars, val_fed, val_left, val_prompts, val_payloads>>

(* Mutant: resume does not look at _poisoned.                              *)
resume_anyway == FALSE

resume_refused == poisoned

(* do_validation begins.                                                   *)
BeginValidation ==
  /\ val_left' = ValPrompts /\ val_prompts' = 0 /\ val_payloads' = 0
  /\ UNCHANGED <<validation_flag, val_fed>>

(* ... only then are leases handed out and tasks admitted again; the last  *)
(* round ends the worker, after its validation.                            *)
Resume ==
  /\ mpc = "resume"
  /\ pending' = None /\ hold' = FALSE
  /\ \/ /\ paused /\ resume_refused
        /\ Dies /\ UNCHANGED <<flagVars, shutdown, valVars>>
     \/ /\ ~(paused /\ resume_refused)
        /\ paused' = FALSE /\ accepting' = (accepting \/ paused)
        /\ UNCHANGED <<running, poisoned, failed>>
        /\ shutdown' = cmd.stop
        /\ IF validation_flag
           THEN mpc' = "val_feed" /\ BeginValidation
           ELSE mpc' = "report" /\ UNCHANGED valVars
  /\ UNCHANGED <<cfgVars, loopVars, published, commands, cmd, live, version,
                 weight_synced, fetched, prompt_queue, is_end, fetch_end, consume_end,
                 rewards, accounted, end_sent>>

-----------------------------------------------------------------------------
(* Main thread: the generation loop *)

(* report_rollouts posts the results whose reward is ready; then           *)
(* stream_generation_step raises if a generation has failed.               *)
ReportRollouts ==
  /\ mpc = "report" \/ (mpc = "loop" /\ commands = <<>> /\ ~shutdown)
  /\ weight_synced
  /\ \E n \in 0 .. Len(rewards) :
       /\ accounted' = accounted \cup {rewards[i] : i \in 1 .. n}
       /\ rewards' = SubSeq(rewards, n + 1, Len(rewards))
  /\ IF failed THEN Dies ELSE mpc' = "check"
  /\ UNCHANGED <<cfgVars, flagVars, loopVars, syncVars, shutdown, fetched, prompt_queue,
                 is_end, fetch_end, consume_end, end_sent, valVars>>

(* Mutant: a task is taken for completed when it has been started.         *)
is_all_tasks_started == task_queue = <<>>

is_all_tasks_completed == task_queue = <<>> /\ active = {}

CheckConsumed ==
  /\ mpc = "check"
  /\ consume_end' = (consume_end
        \/ (fetch_end /\ is_all_tasks_completed /\ rewards = <<>>))
  /\ mpc' = IF fetch_end THEN "collect" ELSE "feed"
  /\ UNCHANGED <<cfgVars, flagVars, loopVars, syncVars, shutdown, fetched, prompt_queue,
                 is_end, fetch_end, rewards, accounted, end_sent, valVars>>

Least(a, b) == IF a < b THEN a ELSE b

request_prompts_count(want) ==
  Least(want, MaxConcurrent - Len(task_queue) - Cardinality(active))

(* _stream_generation_feed_prompts: ask for as many prompts as there is    *)
(* room for; a batch that still waits is not joined by another.  The       *)
(* controller says is_end when it has fewer.                               *)
RequestPrompts ==
  LET want == request_prompts_count(BatchSize)
      n == IF prompt_queue = <<>> THEN Least(want, Prompts - fetched) ELSE 0
  IN /\ mpc = "feed"
     /\ IF want <= 0
        THEN mpc' = "collect" /\ UNCHANGED <<fetched, prompt_queue, is_end>>
        ELSE /\ prompt_queue' = prompt_queue \o [i \in 1 .. n |-> fetched + i]
             /\ fetched' = fetched + n
             /\ is_end' = (prompt_queue = <<>> /\ n < want)
             /\ mpc' = "put"
     /\ UNCHANGED <<cfgVars, flagVars, loopVars, syncVars, shutdown, fetch_end,
                    consume_end, rewards, accounted, end_sent, valVars>>

admissible == ~poisoned /\ accepting /\ running   \* _require_admission

(* The version gate keeps the batch waiting ...                            *)
GateWaits ==
  /\ mpc = "put" /\ prompt_queue # <<>>
  /\ mpc' = "collect"
  /\ UNCHANGED <<cfgVars, flagVars, loopVars, syncVars, feedVars, valVars>>

(* ... or drops it as stale, or has it put into the scheduler's queue.     *)
PutRolloutBatch ==
  /\ mpc = "put"
  /\ \/ /\ prompt_queue = <<>>
        /\ fetch_end' = is_end /\ mpc' = "collect"
        /\ UNCHANGED <<prompt_queue, task_queue, accounted>>
     \/ /\ prompt_queue # <<>>   \* DROP
        /\ accounted' = accounted \cup RangeOf(prompt_queue)
        /\ prompt_queue' = <<>>
        /\ fetch_end' = is_end /\ mpc' = "collect"
        /\ UNCHANGED task_queue
     \/ /\ prompt_queue # <<>> /\ admissible
        /\ task_queue' = task_queue \o prompt_queue
        /\ prompt_queue' = <<>>
        /\ fetch_end' = is_end /\ mpc' = "collect"
        /\ UNCHANGED accounted
     \/ /\ prompt_queue # <<>> /\ ~admissible
        /\ Dies
        /\ UNCHANGED <<prompt_queue, task_queue, accounted, fetch_end>>
  /\ UNCHANGED <<cfgVars, flagVars, complete_queue, popped, taskVars, wpc, drain,
                 syncVars, shutdown, fetched, is_end, consume_end, rewards, end_sent,
                 valVars>>

(* _stream_generation_collect_results: results go to the reward            *)
(* dispatcher, unusable ones are reported as discarded.  Once everything   *)
(* is consumed send_end_signal reports what is left, then the end, once.   *)
CollectResults ==
  /\ mpc = "collect"
  /\ complete_queue' = <<>>
  /\ \E valid \in SUBSET RangeOf(complete_queue) :
       LET usable[n \in 0 .. Len(complete_queue)] ==
             CASE n = 0 -> <<>>
               [] n > 0 /\ complete_queue[n] \in valid -> Append(usable[n - 1], complete_queue[n])
               [] OTHER -> usable[n - 1]
           seen == accounted \cup (RangeOf(complete_queue) \ valid)
       IN IF consume_end /\ ~end_sent
          THEN /\ accounted' = seen \cup RangeOf(rewards) \cup valid
               /\ rewards' = <<>>
          ELSE /\ accounted' = seen
               /\ rewards' = rewards \o usable[Len(complete_queue)]
  /\ end_sent' = (end_sent \/ consume_end)
  /\ mpc' = "loop"
  /\ UNCHANGED <<cfgVars, flagVars, task_queue, popped, taskVars, wpc, drain, syncVars,
                 shutdown, fetched, prompt_queue, is_end, fetch_end, consume_end,
                 valVars>>

-----------------------------------------------------------------------------
(* Main thread: do_validation *)

(* Validation prompts go through the same queue, without the version gate. *)
ValidationFeed ==
  LET n == Least(request_prompts_count(BatchSize), val_left)
  IN /\ mpc = "val_feed"
     /\ IF n <= 0
        THEN mpc' = "val_collect" /\ UNCHANGED <<task_queue, val_fed, val_left, val_prompts>>
        ELSE /\ task_queue' = IF admissible
                              THEN task_queue \o [i \in 1 .. n |-> Prompts + val_fed + i]
                              ELSE task_queue
             /\ val_fed' = val_fed + n /\ val_left' = val_left - n
             /\ val_prompts' = val_prompts + n
             /\ IF admissible THEN mpc' = "val_collect" ELSE Dies
     /\ UNCHANGED <<cfgVars, flagVars, complete_queue, popped, taskVars, wpc, drain,
                    syncVars, feedVars, validation_flag, val_payloads>>

is_idle == running /\ active = {} /\ task_queue = <<>> /\ complete_queue = <<>>

(* Whether this is the end is decided before the results are collected;    *)
(* every result collected here counts as one of the validation.            *)
ValidationCollect ==
  LET ends == val_left = 0 /\ is_idle /\ val_prompts = val_payloads
  IN /\ mpc = "val_collect"
     /\ val_payloads' = val_payloads + Len(complete_queue)
     /\ complete_queue' = <<>>
     /\ IF ends
        THEN /\ validation_flag' = FALSE
             /\ accounted' = accounted \cup RangeOf(rewards)
             /\ rewards' = <<>>
             /\ mpc' = "report"
        ELSE /\ mpc' = "val_feed"
             /\ UNCHANGED <<validation_flag, accounted, rewards>>
     /\ UNCHANGED <<cfgVars, flagVars, task_queue, popped, taskVars, wpc, drain, syncVars,
                    shutdown, fetched, prompt_queue, is_end, fetch_end, consume_end, end_sent,
                    val_fed, val_left, val_prompts>>

-----------------------------------------------------------------------------
Ended == mpc \in {"stopped", "dead"} /\ UNCHANGED vars

Worker == WorkerWake \/ WorkerEnds \/ GetNowait \/ CreateTask \/ WorkerSleep

Generation(t) == GenerateStart(t) \/ AcquireLease(t) \/ GenerateDone(t)

Main ==
  \/ ConsumeCommand \/ ShutDown \/ Quiesce \/ QuiesceReturns \/ QuiesceFails
  \/ TransferStarts \/ TransferDone \/ PublishVersion \/ Resume
  \/ ReportRollouts \/ CheckConsumed \/ RequestPrompts \/ PutRolloutBatch
  \/ GateWaits \/ CollectResults \/ ValidationFeed \/ ValidationCollect

Next ==
  \/ Worker \/ Main \/ DrainPoll \/ QuiesceTimeout \/ PublishSync \/ PublishStop \/ Ended
  \/ \E t \in Tasks : Generation(t) \/ GenerateFails(t)

Spec == Init /\ [][Next]_vars

(* Both threads run, coroutines get their turn, generations and reward     *)
(* computations end; the controller goes on to its last weight sync and    *)
(* its STOP, and the version gate does not keep a batch for ever.          *)
FairSpec ==
  /\ Spec
  /\ WF_vars(Worker) /\ WF_vars(Main) /\ WF_vars(DrainPoll)
  /\ WF_vars(PublishSync) /\ WF_vars(PublishStop)
  /\ SF_vars(PutRolloutBatch) /\ SF_vars(ReportRollouts /\ rewards' # rewards)
  /\ \A t \in Tasks : WF_vars(Generation(t))

-----------------------------------------------------------------------------
(* Properties *)

Ran(t) == gen[t] \in {"running", "done"}

(* "no generation observes a partially written model"                      *)
(* (_quiesce_async_scheduler_for_weight_sync): a generation starts on      *)
(* complete weights, and unless it has a lease of its own the live model   *)
(* stays as it was until it is done.                                       *)
GenerationsSeeOneModel ==
  \A t \in Tasks :
    /\ Ran(t) => weights[t] \in Steps
    /\ gen[t] = "running" /\ ~isolates => live = weights[t]

(* The stamp a sample is reported with (_generate_single freezes it before *)
(* the backend yields) is the version of the weights it ran with.  With    *)
(* leases it may be older: a task that starts after the leases were held   *)
(* back is stamped first and gets the next weights.  It is never newer.    *)
StampIsHonest ==
  \A t \in Tasks : Ran(t) =>
    /\ stamp[t] <= weights[t]
    /\ ~isolates => stamp[t] = weights[t]

(* "Permanently fail closed" (_poison): whatever the fence, resume and the *)
(* drain do around it, a poisoned scheduler neither admits nor dispatches. *)
FailClosed == poisoned => paused /\ ~accepting

(* None of the scheduler's own checks (admission closed, transaction       *)
(* mismatch, resume refused, version going back) ends the worker unless a  *)
(* generation failed or a drain timed out.                                 *)
DiesOnlyOfFailure == mpc = "dead" => poisoned

(* Admission keeps to max_concurrent_requests, but for the one task that   *)
(* is off the queue and not yet among the active ones when they are        *)
(* counted.                                                                *)
AdmissionBound ==
  /\ Cardinality(active) <= MaxConcurrent
  /\ Len(task_queue) + Cardinality(active) + (IF popped = None THEN 0 ELSE 1)
       <= MaxConcurrent + 1

Unreported == (1 .. fetched) \ accounted

(* The end signal comes after the reports (stream_generation_step): unless *)
(* a generation failed, every prompt fetched has been reported by then,    *)
(* but for one task the worker loop was just launching when the main       *)
(* thread looked.  Validation comes before training here: during training  *)
(* it also takes results of training prompts for its own.                  *)
EndAfterReports ==
  end_sent /\ ~failed => Cardinality(Unreported) <= 1

Validating == mpc \in {"val_feed", "val_collect"}

(* Every fence is passed or fails, every admitted task runs and is         *)
(* collected, the end is signalled: the worker stops, or dies of a         *)
(* failure.  Only a validation does not look for failures: it waits for    *)
(* ever for the result of a generation that has failed.                    *)
WorkerFinishes == <>(mpc \in {"stopped", "dead"} \/ (Validating /\ failed))

(* "Validation frequency during training, in terms of training steps"      *)
(* (ValidationConfig.freq): a validation during training comes to an end.  *)
ValidationEnds == Validating ~> ~Validating
-----------------------------------------------------------------------------
(* The inductive invariant behind the safety properties *)

Live == mpc \notin {"stopped", "dead"}
Transaction == {"write", "writing", "await_r2r", "publish", "resume"}
InSync == mpc \in Transaction \cup {"fence", "draining"}
Busy(t) == gen[t] \in {"created", "waiting", "running"}

(* Nothing runs on the live model, and nothing can start.                  *)
Quiet == wpc # "dispatch" /\ popped = None /\ \A t \in Tasks : ~Busy(t)

(* What the flags of the scheduler say about each other.                   *)
FlagsAgree ==
  /\ isolates \in BOOLEAN /\ leader \in BOOLEAN /\ running \in BOOLEAN
  /\ accepting \in BOOLEAN /\ paused \in BOOLEAN /\ poisoned \in BOOLEAN
  /\ failed \in BOOLEAN /\ hold \in BOOLEAN /\ weight_synced \in BOOLEAN
  /\ poisoned => paused /\ ~accepting
  /\ failed \/ mpc = "dead" => poisoned
  /\ Live /\ (InSync \/ weight_synced \/ poisoned) => running
  /\ Live /\ running /\ ~poisoned => accepting \/ (InSync /\ ~isolates)

(* Before the first weight sync no task is admitted.                       *)
NothingEarly ==
  ~weight_synced =>
    /\ task_queue = <<>> /\ Quiet
    /\ mpc \notin {"check", "feed", "put", "collect", "val_feed", "val_collect"}

(* A weight-sync transaction is fenced: by held leases, or by a closed and *)
(* paused scheduler in which nothing is left.                              *)
FenceHolds ==
  /\ hold => isolates
  /\ popped # None => wpc = "dispatch"
  /\ \A t \in Tasks : Busy(t) => t \in active
  /\ drain # "none" => mpc = "draining"
  /\ mpc = "draining" => ~isolates /\ ~accepting
  /\ drain = "drained" => paused /\ Quiet
  /\ ~isolates /\ paused /\ ~poisoned => Quiet
  /\ pending # None =>
       /\ mpc \in Transaction \cup {"fence", "dead"}
       /\ InSync => pending = cmd.step
       /\ IF isolates THEN hold ELSE paused /\ ~accepting /\ Quiet
  /\ mpc \in Transaction => pending # None

(* The commands come in the order of their steps; at the leader every R2R  *)
(* follows the P2R of its step.                                            *)
CommandInOrder(i) ==
  /\ version <= commands[i].step /\ commands[i].step < published
  /\ InSync => cmd.step <= commands[i].step
  /\ \A j \in 1 .. i - 1 : commands[j].type # "STOP" => commands[j].step <= commands[i].step
  /\ commands[i].type = "P2R" =>
       /\ leader /\ i < Len(commands)
       /\ commands[i + 1].type = "R2R" /\ commands[i + 1].step = commands[i].step
  /\ leader /\ commands[i].type = "R2R" =>
       IF i = 1 THEN InSync /\ cmd.type = "P2R" ELSE commands[i - 1].type = "P2R"

CommandsInOrder ==
  /\ version \in Steps /\ published \in Nat /\ version <= published
  /\ commands \in Seq(Command)
  /\ InSync => cmd \in SyncCommand /\ version <= cmd.step /\ cmd.step < published
  /\ InSync /\ cmd.type = "P2R" =>
       /\ leader /\ mpc \notin {"publish", "resume"}
       /\ commands # <<>> /\ commands[1].type = "R2R" /\ commands[1].step = cmd.step
  /\ mpc = "await_r2r" => cmd.type = "P2R"
  /\ Live => \A i \in 1 .. Len(commands) : commands[i].type # "STOP" => CommandInOrder(i)

(* Outside transactions the live model holds the published version.        *)
LiveIsVersion ==
  /\ pending = None /\ weight_synced => live = version
  /\ mpc = "resume" => weight_synced /\ live = version
  /\ mpc \in {"publish", "await_r2r"} => live = cmd.step
  /\ mpc \in {"fence", "draining", "write", "writing"} /\ cmd.type = "R2R" /\ leader
       => live = cmd.step

TasksTracked ==
  /\ gen \in [Tasks -> {"none", "created", "waiting", "running", "done", "failed"}]
  /\ DOMAIN stamp = Tasks /\ DOMAIN weights = Tasks
  /\ \A t \in Tasks : gen[t] = "waiting" =>
       isolates /\ stamp[t] \in Steps /\ stamp[t] <= version
  /\ \A t \in Tasks : Ran(t) => stamp[t] \in Steps

(* Why a weight sync disturbs no generation: with these facts the safety   *)
(* properties of the fence (_quiesce_async_scheduler_for_weight_sync to    *)
(* _resume_async_scheduler_after_weight_sync) are inductive.               *)
FenceInv ==
  /\ FlagsAgree /\ NothingEarly /\ FenceHolds /\ CommandsInOrder /\ LiveIsVersion
  /\ TasksTracked /\ GenerationsSeeOneModel /\ StampIsHonest

===============================================================================
