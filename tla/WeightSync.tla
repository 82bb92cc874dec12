------------------------------ MODULE WeightSync ------------------------------
(***************************************************************************)
(* Asynchronous weight synchronisation of rollout replicas                 *)
(* (rollout.async_r2r_sync = "generation"): rollout/worker/weight_sync.py  *)
(* and the threads of rollout/worker/rollout_control.py it works with.     *)
(*                                                                         *)
(* Per replica three threads share state without a lock.  The command      *)
(* thread routes weight-sync commands to the WeightSyncThread (WST).  The  *)
(* WST has the weights received from the policy (P2R, leader only) or      *)
(* broadcast among the replicas (R2R), always into a buffer model.  It     *)
(* only enqueues the transfers on its CUDA stream and announces the new    *)
(* buffer at once: the GPU executes them later, a broadcast when it has    *)
(* come to the head of every replica's stream.  The main thread has the    *)
(* buffer copied to the live model before a generation, on its own stream, *)
(* after the last event the WST has recorded, and stamps the generation    *)
(* with current_weight_version.                                            *)
(*                                                                         *)
(* Weights are named by the training step that produced them.              *)
(***************************************************************************)
EXTENDS Integers, Sequences, FiniteSets

CONSTANTS
  Rollouts,
  Leader,      \* the replica that P2R delivers to
  Serving,     \* the replicas that are given prompts
  None,
  LastStep,    \* bound: weight syncs after steps 0 .. LastStep
  MaxCrashes   \* bound: replicas that die

ASSUME SyncAssumption ==
  /\ Leader \in Rollouts /\ IsFiniteSet(Rollouts) /\ Cardinality(Rollouts) > 1
  /\ Serving \subseteq Rollouts /\ LastStep \in Nat /\ MaxCrashes \in Nat
  /\ None \notin Int

VARIABLES
  published,       \* weight-sync rounds the controller has published
  received,        \* P2R transfers completed
  stream,          \* replica: its Redis command stream
  wstq,            \* WST: _queue, in order of arrival
  exec,            \* WST: the command it executes and how far it is
  wst_stop,        \* WST: _stop is set
  aborted,         \* replica: nccl_abort_all was called
  gpu,             \* WST's CUDA stream: transfers enqueued and not completed
  moving,          \* the weights its first transfer is moving, or None
  event,           \* transfers _last_event waits for, None if it is not recorded
  arrivals,        \* Redis: the barrier counter of each step
  subscribed,      \* Redis: the replicas subscribed to each step's channel
  go,              \* replica: the "go" message has been delivered to it
  buffer,          \* replica: weights in _buffer_state_dict
  buffer_version,  \* replica: _buffer_version
  synced_version,  \* replica: _buffer_synced_version
  version,         \* replica: current_weight_version
  weight_synced,   \* replica: state.weight_synced
  live,            \* replica: weights in the live model
  waits,           \* transfers the enqueued copy to the live model waits for
  copy,            \* replica: what the running copy to the live model reads
  mpc,             \* main thread: where it stands
  stop_queued,     \* main thread: StopCommand in _command_queue
  stamp,           \* main thread: version stamped on the current generation
  unordered        \* history: the last copy waited on an event not recorded

redisVars == <<arrivals, subscribed, go>>
gpuVars == <<received, gpu, moving, buffer, live, copy>>
wstVars == <<event, buffer_version, version, weight_synced>>
mainVars == <<synced_version, mpc, stop_queued, stamp, unordered>>
vars == <<published, stream, wstq, exec, wst_stop, aborted, redisVars, gpuVars,
          wstVars, waits, mainVars>>

Unsynced == -1   \* what the engine loaded: dummy weights, or (leader) the checkpoint
Torn == -2       \* parameters of several versions

Steps == 0 .. LastStep
SyncCommand == [type : {"P2R", "R2R"}, step : Steps]
P2RPhase == {"recv"}
R2RPhase == {"barrier", "subscribe", "recheck", "wait", "go", "versioned"}
Phase == P2RPhase \cup R2RPhase \cup {"event"}
Task == [cmd : SyncCommand, at : Phase]

ASSUME NoneAssumption == None \notin Task

TypeOK ==
  /\ published \in 0 .. LastStep + 1 /\ received \in 0 .. LastStep + 1
  /\ stream \in [Rollouts -> Seq(SyncCommand \cup [type : {"STOP"}])]
  /\ wstq \in [Rollouts -> Seq(SyncCommand)]
  /\ exec \in [Rollouts -> Task \cup {None}]
  /\ wst_stop \in [Rollouts -> BOOLEAN] /\ aborted \in [Rollouts -> BOOLEAN]
  /\ gpu \in [Rollouts -> Seq(SyncCommand)]
  /\ moving \in [Rollouts -> Steps \cup {Unsynced, None}]
  /\ event \in [Rollouts -> Nat \cup {None}] /\ waits \in [Rollouts -> Nat \cup {None}]
  /\ arrivals \in [Steps -> Nat] /\ subscribed \in [Steps -> SUBSET Rollouts]
  /\ go \in [Rollouts -> BOOLEAN]
  /\ buffer \in [Rollouts -> Steps \cup {Unsynced}]
  /\ buffer_version \in [Rollouts -> Nat] /\ synced_version \in [Rollouts -> Nat]
  /\ version \in [Rollouts -> Steps] /\ weight_synced \in [Rollouts -> BOOLEAN]
  /\ live \in [Rollouts -> Steps \cup {Unsynced, Torn}]
  /\ copy \in [Rollouts -> Steps \cup {Unsynced, Torn, None}]
  /\ mpc \in [Rollouts -> {"loop", "stamping", "generating", "fencing",
                           "joining", "stopped", "dead"}]
  /\ stop_queued \in [Rollouts -> BOOLEAN]
  /\ stamp \in [Rollouts -> Steps \cup {None}] /\ unordered \in [Rollouts -> BOOLEAN]

Init ==
  /\ published = 0 /\ received = 0
  /\ stream = [r \in Rollouts |-> <<>>] /\ wstq = [r \in Rollouts |-> <<>>]
  /\ exec = [r \in Rollouts |-> None]
  /\ wst_stop = [r \in Rollouts |-> FALSE] /\ aborted = [r \in Rollouts |-> FALSE]
  /\ gpu = [r \in Rollouts |-> <<>>] /\ moving = [r \in Rollouts |-> None]
  /\ event = [r \in Rollouts |-> None] /\ waits = [r \in Rollouts |-> None]
  /\ arrivals = [s \in Steps |-> 0] /\ subscribed = [s \in Steps |-> {}]
  /\ go = [r \in Rollouts |-> FALSE]
  /\ buffer = [r \in Rollouts |-> Unsynced]
  /\ buffer_version = [r \in Rollouts |-> 0]
  /\ synced_version = [r \in Rollouts |-> 0]
  /\ version = [r \in Rollouts |-> 0]
  /\ weight_synced = [r \in Rollouts |-> FALSE]
  /\ live = [r \in Rollouts |-> Unsynced] /\ copy = [r \in Rollouts |-> None]
  /\ mpc = [r \in Rollouts |-> "loop"]
  /\ stop_queued = [r \in Rollouts |-> FALSE]
  /\ stamp = [r \in Rollouts |-> None] /\ unordered = [r \in Rollouts |-> FALSE]

Dead(r) == mpc[r] = "dead"
World == Cardinality(Rollouts)

-----------------------------------------------------------------------------
(* Controller and policy *)

(* A round is published after its step, which the policy trains only after *)
(* it has drained the previous P2R send.  After the loss of a replica the  *)
(* mesh would be rebuilt first: here the job then ends.                    *)
PublishRound ==
  /\ published <= LastStep
  /\ received = published
  /\ \A r \in Rollouts : ~Dead(r)
  /\ \A r \in Rollouts : \A i \in DOMAIN stream[r] : stream[r][i].type # "STOP"
  /\ \A r \in Rollouts : ~stop_queued[r]
  /\ stream' = [r \in Rollouts |-> stream[r]
        \o (IF r = Leader THEN <<[type |-> "P2R", step |-> published]>> ELSE <<>>)
        \o <<[type |-> "R2R", step |-> published]>>]
  /\ published' = published + 1
  /\ UNCHANGED <<wstq, exec, wst_stop, aborted, redisVars, gpuVars, wstVars, waits,
                 mainVars>>

(* STOP follows the last round, when no policy has a P2R left to send, or  *)
(* the loss of the policies.                                               *)
PublishStop ==
  /\ \/ published = LastStep + 1 /\ received = published
     \/ \E r \in Rollouts : Dead(r)
  /\ \A r \in Rollouts : \A i \in DOMAIN stream[r] : stream[r][i].type # "STOP"
  /\ \A r \in Rollouts : ~stop_queued[r]
  /\ stream' = [r \in Rollouts |-> Append(stream[r], [type |-> "STOP"])]
  /\ UNCHANGED <<published, wstq, exec, wst_stop, aborted, redisVars, gpuVars,
                 wstVars, waits, mainVars>>

-----------------------------------------------------------------------------
(* Command thread *)

(* query_command_from_controller: weight syncs go straight to the WST,     *)
(* STOP to the main thread; after STOP the thread ends.                    *)
QueryCommand(r) ==
  LET cmd == Head(stream[r])
  IN /\ ~Dead(r) /\ ~stop_queued[r]
     /\ stream[r] # <<>>
     /\ stream' = [stream EXCEPT ![r] = Tail(@)]
     /\ IF cmd.type = "STOP"
        THEN /\ stop_queued' = [stop_queued EXCEPT ![r] = TRUE]
             /\ wstq' = wstq
        ELSE /\ wstq' = [wstq EXCEPT ![r] = Append(@, cmd)]
             /\ stop_queued' = stop_queued
     /\ UNCHANGED <<published, exec, wst_stop, aborted, redisVars, gpuVars, wstVars,
                    waits, synced_version, mpc, stamp, unordered>>

-----------------------------------------------------------------------------
(* WeightSyncThread *)

At(r, phase) == ~Dead(r) /\ exec[r] # None /\ exec[r].at = phase

Goto(r, phase) == exec' = [exec EXCEPT ![r].at = phase]

TaskDone(r) == exec' = [exec EXCEPT ![r] = None]

Without(s, i) == SubSeq(s, 1, i - 1) \o SubSeq(s, i + 1, Len(s))

(* The priority queue: P2R before R2R, in order of arrival among equals.   *)
next_task(q) ==
  CHOOSE i \in DOMAIN q :
    \A j \in DOMAIN q \ {i} :
      IF q[i].type = q[j].type THEN i < j ELSE q[i].type = "P2R"

(* _run takes the next task.                                               *)
TakeTask(r) ==
  LET i == next_task(wstq[r])
      cmd == wstq[r][i]
  IN /\ ~Dead(r) /\ ~wst_stop[r]
     /\ exec[r] = None /\ wstq[r] # <<>>
     /\ wstq' = [wstq EXCEPT ![r] = Without(@, i)]
     /\ exec' = [exec EXCEPT ![r] =
                   [cmd |-> cmd, at |-> IF cmd.type = "P2R" THEN "recv" ELSE "barrier"]]
     /\ UNCHANGED <<published, stream, wst_stop, aborted, redisVars, gpuVars, wstVars,
                    waits, mainVars>>

(* The transfer is enqueued and _last_event becomes a new event.  In       *)
(* between the main thread sees the old one, as before: one step.          *)
Enqueue(r) ==
  /\ gpu' = [gpu EXCEPT ![r] = Append(@, exec[r].cmd)]
  /\ event' = [event EXCEPT ![r] = None]
  /\ Goto(r, "event")

(* _execute_p2r_recv: the receives are enqueued and the replica is marked  *)
(* synced.                                                                 *)
P2RReceive(r) ==
  /\ At(r, "recv") /\ ~aborted[r]
  /\ Enqueue(r)
  /\ weight_synced' = [weight_synced EXCEPT ![r] = TRUE]
  /\ UNCHANGED <<published, received, stream, wstq, wst_stop, aborted, redisVars, moving,
                 buffer, live, copy, buffer_version, version, waits, mainVars>>

(* r2r_barrier: count the arrival; the last one publishes "go" to whoever  *)
(* is subscribed by then.                                                  *)
BarrierArrive(r) ==
  LET s == exec[r].cmd.step
  IN /\ At(r, "barrier")
     /\ arrivals' = [arrivals EXCEPT ![s] = @ + 1]
     /\ IF arrivals[s] + 1 >= World
        THEN /\ go' = [q \in Rollouts |-> go[q] \/ q \in subscribed[s]]
             /\ Goto(r, "go")
        ELSE go' = go /\ Goto(r, "subscribe")
     /\ UNCHANGED <<published, stream, wstq, wst_stop, aborted, subscribed, gpuVars,
                    wstVars, waits, mainVars>>

BarrierSubscribe(r) ==
  LET s == exec[r].cmd.step
  IN /\ At(r, "subscribe")
     /\ subscribed' = [subscribed EXCEPT ![s] = @ \cup {r}]
     /\ Goto(r, "recheck")
     /\ UNCHANGED <<published, stream, wstq, wst_stop, aborted, arrivals, go, gpuVars,
                    wstVars, waits, mainVars>>

(* Mutant: wait for the message without looking at the counter again.      *)
no_recheck(s) == FALSE

all_arrived(s) == arrivals[s] >= World

(* Leaving the barrier unsubscribes and drops a message not yet read.      *)
LeaveBarrier(r) ==
  /\ subscribed' = [s \in Steps |-> subscribed[s] \ {r}]
  /\ go' = [go EXCEPT ![r] = FALSE]

(* "go" may have been published before the subscription: look again.       *)
BarrierRecheck(r) ==
  /\ At(r, "recheck")
  /\ IF all_arrived(exec[r].cmd.step)
     THEN LeaveBarrier(r) /\ Goto(r, "go")
     ELSE Goto(r, "wait") /\ UNCHANGED <<subscribed, go>>
  /\ UNCHANGED <<published, stream, wstq, wst_stop, aborted, arrivals, gpuVars,
                 wstVars, waits, mainVars>>

(* A message, or the timeout, lets a waiter through; a stopping WST gives  *)
(* the round up.  Timeouts are far longer than a healthy round.            *)
BarrierWait(r) ==
  /\ At(r, "wait")
  /\ \/ ~wst_stop[r] /\ go[r] /\ Goto(r, "go")
     \/ ~wst_stop[r] /\ (\E q \in Rollouts : Dead(q)) /\ Goto(r, "go")
     \/ wst_stop[r] /\ TaskDone(r)
  /\ LeaveBarrier(r)
  /\ UNCHANGED <<published, stream, wstq, wst_stop, aborted, arrivals, gpuVars,
                 wstVars, waits, mainVars>>

(* do_nccl_broadcast_grouped enqueues the broadcast, with or without its   *)
(* peers: only the enqueueing is bounded by a time-out.                    *)
EnqueueBroadcast(r) ==
  /\ At(r, "go") /\ ~aborted[r]
  /\ Enqueue(r)
  /\ UNCHANGED <<published, received, stream, wstq, wst_stop, aborted, redisVars, moving,
                 buffer, live, copy, buffer_version, version, weight_synced, waits, mainVars>>

(* The event is recorded behind all transfers on the stream.               *)
Record(r) == event' = [event EXCEPT ![r] = Len(gpu[r])]

(* The new buffer is announced: the end of a P2R, while _execute_r2r ...   *)
RecordEvent(r) ==
  /\ At(r, "event")
  /\ Record(r)
  /\ buffer_version' = [buffer_version EXCEPT ![r] = @ + 1]
  /\ IF exec[r].cmd.type = "P2R" THEN TaskDone(r) ELSE Goto(r, "versioned")
  /\ UNCHANGED <<published, stream, wstq, wst_stop, aborted, redisVars, gpuVars,
                 version, weight_synced, waits, mainVars>>

(* Mutant: the version of the next step.                                   *)
version_ahead(r) ==
  /\ At(r, "versioned")
  /\ version' = [version EXCEPT ![r] = exec[r].cmd.step + 1]
  /\ weight_synced' = [weight_synced EXCEPT ![r] = TRUE]
  /\ TaskDone(r)
  /\ UNCHANGED <<published, stream, wstq, wst_stop, aborted, redisVars, gpuVars, event,
                 buffer_version, waits, mainVars>>

(* ... goes on to set the version and to mark the replica synced.          *)
R2RDone(r) ==
  /\ At(r, "versioned")
  /\ version' = [version EXCEPT ![r] = exec[r].cmd.step]
  /\ weight_synced' = [weight_synced EXCEPT ![r] = TRUE]
  /\ TaskDone(r)
  /\ UNCHANGED <<published, stream, wstq, wst_stop, aborted, redisVars, gpuVars, event,
                 buffer_version, waits, mainVars>>

(* Mutant: the abort reaches the policy communicators only.                *)
only_p2r_fails(r) ==
  /\ aborted[r] /\ At(r, "recv")
  /\ TaskDone(r)
  /\ UNCHANGED <<published, stream, wstq, wst_stop, aborted, redisVars, gpuVars,
                 wstVars, waits, mainVars>>

(* Nothing is enqueued on an aborted communicator; _run logs the failure   *)
(* and goes on.                                                            *)
TransferFails(r) ==
  /\ aborted[r] /\ (At(r, "recv") \/ At(r, "go"))
  /\ TaskDone(r)
  /\ UNCHANGED <<published, stream, wstq, wst_stop, aborted, redisVars, gpuVars,
                 wstVars, waits, mainVars>>

-----------------------------------------------------------------------------
(* GPU *)

Alive(r) == ~Dead(r) /\ ~aborted[r]

(* The transfer c is the first on the WST's stream and has not started.    *)
Ready(r, c) == Alive(r) /\ gpu[r] # <<>> /\ Head(gpu[r]) = c /\ moving[r] = None

(* A write into the buffer while the copy reads it tears the copy.         *)
OverlappingCopies(writers) ==
  copy' = [r \in Rollouts |-> IF r \in writers /\ copy[r] # None THEN Torn ELSE copy[r]]

(* The policy sends the weights of the step to the leader.                 *)
TransferStart(r, s) ==
  /\ Ready(r, [type |-> "P2R", step |-> s])
  /\ moving' = [moving EXCEPT ![r] = s]
  /\ OverlappingCopies({r})
  /\ UNCHANGED <<published, received, stream, wstq, exec, wst_stop, aborted, redisVars,
                 gpu, buffer, live, wstVars, waits, mainVars>>

(* Mutant: a replica other than the P2R recipient is the source.           *)
follower_source == CHOOSE q \in Rollouts : q # Leader

Source == Leader

(* The broadcast starts when it is the first transfer of every replica;    *)
(* all but the leader, its source, write into their buffers.               *)
BroadcastStart(s) ==
  /\ \A r \in Rollouts : Ready(r, [type |-> "R2R", step |-> s])
  /\ moving' = [r \in Rollouts |-> buffer[Source]]
  /\ OverlappingCopies(Rollouts \ {Source})
  /\ UNCHANGED <<published, received, stream, wstq, exec, wst_stop, aborted, redisVars,
                 gpu, buffer, live, wstVars, waits, mainVars>>

Earlier(n) == IF n = None \/ n = 0 THEN n ELSE n - 1

(* A transfer completes, unless a replica has left it in the midst.        *)
TransferEnd(r) ==
  /\ Alive(r) /\ moving[r] # None
  /\ \A q \in Rollouts :
       ~Alive(q) /\ moving[q] # None => Head(gpu[q]) # Head(gpu[r])
  /\ buffer' = [buffer EXCEPT ![r] = moving[r]]
  /\ moving' = [moving EXCEPT ![r] = None]
  /\ gpu' = [gpu EXCEPT ![r] = Tail(@)]
  /\ event' = [event EXCEPT ![r] = Earlier(@)]
  /\ waits' = [waits EXCEPT ![r] = Earlier(@)]
  /\ received' = IF Head(gpu[r]).type = "P2R" THEN received + 1 ELSE received
  /\ UNCHANGED <<published, stream, wstq, exec, wst_stop, aborted, redisVars, live,
                 copy, buffer_version, version, weight_synced, mainVars>>

Writing(r) == moving[r] # None /\ (r # Source \/ Head(gpu[r]).type = "P2R")

(* The copy reads the buffer when the event it waits for has fired.        *)
CopyStart(r) ==
  /\ ~Dead(r) /\ waits[r] = 0
  /\ copy' = [copy EXCEPT ![r] = IF Writing(r) THEN Torn ELSE buffer[r]]
  /\ waits' = [waits EXCEPT ![r] = None]
  /\ UNCHANGED <<published, received, stream, wstq, exec, wst_stop, aborted, redisVars,
                 gpu, moving, buffer, live, wstVars, mainVars>>

CopyDone(r) ==
  /\ ~Dead(r) /\ copy[r] # None
  /\ live' = [live EXCEPT ![r] = copy[r]]
  /\ copy' = [copy EXCEPT ![r] = None]
  /\ UNCHANGED <<published, received, stream, wstq, exec, wst_stop, aborted, redisVars,
                 gpu, moving, buffer, wstVars, waits, mainVars>>

-----------------------------------------------------------------------------
(* Main thread *)

(* Mutant: the copy is enqueued without waiting for the event.             *)
no_event(r) == 0

(* The transfers that a wait for _last_event waits for: none when it is    *)
(* not recorded yet.                                                       *)
wait_event(r) == IF event[r] = None THEN 0 ELSE event[r]

(* _call_rollout_generation first calls sync_buffer_to_live: if there is a *)
(* new buffer version, enqueue a copy of the buffer behind _last_event.    *)
SyncBufferToLive(r) ==
  /\ r \in Serving
  /\ mpc[r] = "loop" /\ weight_synced[r] /\ ~stop_queued[r]
  /\ IF buffer_version[r] > synced_version[r]
     THEN /\ waits' = [waits EXCEPT ![r] = wait_event(r)]
          /\ unordered' = [unordered EXCEPT ![r] = event[r] = None]
          /\ synced_version' = [synced_version EXCEPT ![r] = buffer_version[r]]
     ELSE UNCHANGED <<waits, unordered, synced_version>>
  /\ mpc' = [mpc EXCEPT ![r] = "stamping"]
  /\ UNCHANGED <<published, stream, wstq, exec, wst_stop, aborted, redisVars, gpuVars,
                 wstVars, stop_queued, stamp>>

(* Then it reads current_weight_version, the stamp of the payloads.        *)
StampPayloads(r) ==
  /\ mpc[r] = "stamping"
  /\ stamp' = [stamp EXCEPT ![r] = version[r]]
  /\ mpc' = [mpc EXCEPT ![r] = "generating"]
  /\ UNCHANGED <<published, stream, wstq, exec, wst_stop, aborted, redisVars, gpuVars,
                 wstVars, waits, synced_version, stop_queued, unordered>>

(* The generation runs behind the copy, on the same stream.                *)
Generating(r) == mpc[r] = "generating" /\ waits[r] = None /\ copy[r] = None

EndGeneration(r) ==
  /\ Generating(r)
  /\ mpc' = [mpc EXCEPT ![r] = "loop"]
  /\ stamp' = [stamp EXCEPT ![r] = None]
  /\ UNCHANGED <<published, stream, wstq, exec, wst_stop, aborted, redisVars, gpuVars,
                 wstVars, waits, synced_version, stop_queued, unordered>>

(* handle_stop calls fence: wait until the queue has no unfinished task    *)
(* and then for the stream.                                                *)
HandleStop(r) ==
  /\ mpc[r] = "loop" /\ stop_queued[r]
  /\ mpc' = [mpc EXCEPT ![r] = "fencing"]
  /\ UNCHANGED <<published, stream, wstq, exec, wst_stop, aborted, redisVars, gpuVars,
                 wstVars, waits, synced_version, stop_queued, stamp, unordered>>

(* Mutant: the queue only, although its tasks only enqueue GPU work.       *)
queue_drained(r) == wstq[r] = <<>> /\ exec[r] = None

(* Mutant: only the queue is looked at, not the task being executed.       *)
no_task_queued(r) == wstq[r] = <<>> /\ gpu[r] = <<>>

Drained(r) == wstq[r] = <<>> /\ exec[r] = None /\ gpu[r] = <<>>

(* After the fence, stop() ends the WST; there is nothing left for it.     *)
FenceDone(r) ==
  /\ mpc[r] = "fencing" /\ Drained(r)
  /\ wst_stop' = [wst_stop EXCEPT ![r] = TRUE]
  /\ mpc' = [mpc EXCEPT ![r] = "stopped"]
  /\ UNCHANGED <<published, stream, wstq, exec, aborted, redisVars, gpuVars, wstVars,
                 waits, synced_version, stop_queued, stamp, unordered>>

(* The queue or the stream does not drain in time: abort NCCL, which ends  *)
(* what the stream holds, stop the WST and wait for it to end.             *)
FenceTimeout(r) ==
  /\ mpc[r] = "fencing" /\ ~Drained(r)
  /\ \E q \in Rollouts : Dead(q)
  /\ aborted' = [aborted EXCEPT ![r] = TRUE]
  /\ wst_stop' = [wst_stop EXCEPT ![r] = TRUE]
  /\ mpc' = [mpc EXCEPT ![r] = "joining"]
  /\ UNCHANGED <<published, stream, wstq, exec, redisVars, gpuVars, wstVars, waits,
                 synced_version, stop_queued, stamp, unordered>>

JoinDone(r) ==
  /\ mpc[r] = "joining" /\ exec[r] = None
  /\ mpc' = [mpc EXCEPT ![r] = "stopped"]
  /\ UNCHANGED <<published, stream, wstq, exec, wst_stop, aborted, redisVars, gpuVars,
                 wstVars, waits, synced_version, stop_queued, stamp, unordered>>

(* The join times out too: abort again and leave the thread behind.        *)
JoinTimeout(r) ==
  /\ mpc[r] = "joining" /\ exec[r] # None
  /\ aborted' = [aborted EXCEPT ![r] = TRUE]
  /\ mpc' = [mpc EXCEPT ![r] = "stopped"]
  /\ UNCHANGED <<published, stream, wstq, exec, wst_stop, redisVars, gpuVars, wstVars,
                 waits, synced_version, stop_queued, stamp, unordered>>

(* The replica dies with all its threads.                                  *)
Crash(r) ==
  /\ Cardinality({q \in Rollouts : Dead(q)}) < MaxCrashes
  /\ mpc[r] \notin {"stopped", "dead"}
  /\ mpc' = [mpc EXCEPT ![r] = "dead"]
  /\ UNCHANGED <<published, stream, wstq, exec, wst_stop, aborted, redisVars, gpuVars,
                 wstVars, waits, synced_version, stop_queued, stamp, unordered>>

Finished == (\A r \in Rollouts : mpc[r] \in {"stopped", "dead"}) /\ UNCHANGED vars

WSTStep(r) ==
  \/ TakeTask(r) \/ P2RReceive(r)
  \/ BarrierArrive(r) \/ BarrierSubscribe(r) \/ BarrierRecheck(r) \/ BarrierWait(r)
  \/ EnqueueBroadcast(r) \/ RecordEvent(r) \/ R2RDone(r)
  \/ TransferFails(r)

GPUStep(r) ==
  (\E s \in Steps : TransferStart(r, s)) \/ TransferEnd(r)

CopyStep(r) == CopyStart(r) \/ CopyDone(r)

MainStep(r) ==
  \/ StampPayloads(r) \/ EndGeneration(r)
  \/ HandleStop(r) \/ FenceDone(r) \/ FenceTimeout(r) \/ JoinDone(r)
  \/ JoinTimeout(r)

Next ==
  \/ PublishRound \/ PublishStop \/ Finished
  \/ \E s \in Steps : BroadcastStart(s)
  \/ \E r \in Rollouts :
       QueryCommand(r) \/ WSTStep(r) \/ GPUStep(r) \/ CopyStep(r)
         \/ SyncBufferToLive(r) \/ MainStep(r) \/ Crash(r)

Spec == Init /\ [][Next]_vars

(* Threads and the GPU make progress, training goes on to its last step;   *)
(* no fairness for starting a generation or for crashes.                   *)
FairSpec ==
  /\ Spec
  /\ WF_vars(PublishRound) /\ WF_vars(PublishStop)
  /\ WF_vars(\E s \in Steps : BroadcastStart(s))
  /\ \A r \in Rollouts :
       /\ WF_vars(QueryCommand(r)) /\ WF_vars(WSTStep(r))
       /\ WF_vars(GPUStep(r)) /\ WF_vars(CopyStep(r)) /\ WF_vars(MainStep(r))

-----------------------------------------------------------------------------
(* Properties *)

(* "At generation start it becomes the immutable version of the weights    *)
(* that are actually leased and executed" (_call_rollout_generation): a    *)
(* generation with received weights runs on all the parameters of the      *)
(* version it is stamped with, not on another version or a mixture.        *)
StampIsActual ==
  \A r \in Rollouts : Generating(r) /\ live[r] # Unsynced => live[r] = stamp[r]

(* "the main loop does not start serving before weights are actually       *)
(* available in the buffer" (_execute_r2r), although the transfer is only  *)
(* enqueued when it is announced: replicas whose engine starts with dummy  *)
(* weights generate with received ones, for their copy waits on the event. *)
(* It does not if it slips between the creation of the next event and its  *)
(* recording: then the wait is void.  The leader loads the checkpoint and  *)
(* may serve it once before its first copy.                                *)
FollowersServeSynced ==
  \A r \in Rollouts \ {Leader} :
    Generating(r) /\ ~unordered[r] => live[r] # Unsynced

(* STOP drops no weight sync: a replica whose fence succeeded has executed *)
(* every round published to it, and holds the last weights, not just the   *)
(* announcement of a transfer its GPU has still to make.                   *)
FenceCompletes ==
  \A r \in Rollouts : mpc[r] = "stopped" /\ ~aborted[r] =>
    /\ buffer[r] = published - 1
    /\ published > 0 => version[r] = published - 1

(* Whatever the threads do, a replica never goes back to older weights or  *)
(* to an older version, in the buffer, in the live model or as announced.  *)
NeverOlder ==
  [][\A r \in Rollouts :
       /\ buffer'[r] >= buffer[r]
       /\ version'[r] >= version[r]
       /\ live[r] # Torn /\ live'[r] # Torn => live'[r] >= live[r]]_vars

(* The barrier loses no wakeup: nobody needs the timeout unless a peer     *)
(* dies.                                                                   *)
BarrierOpens ==
  \A r \in Rollouts : At(r, "wait") ~> ~At(r, "wait")

(* A generation that a peer's death holds up: its copy waits on the event  *)
(* of a broadcast that is never completed.                                 *)
HeldUp(r) ==
  /\ mpc[r] = "generating" /\ waits[r] \notin {None, 0}
  /\ \E q \in Rollouts : Dead(q)

(* "so stop() cannot wedge" (weight_sync.py): every replica that lives     *)
(* leaves with nothing left to run on its weight-sync thread or stream,    *)
(* also when a peer died in the midst of a barrier or a broadcast, unless  *)
(* it never gets to STOP because its generation waits for that broadcast.  *)
TeardownCompletes ==
  \A r \in Rollouts :
    <>[](\/ Dead(r) \/ HeldUp(r)
         \/ mpc[r] = "stopped" /\ exec[r] = None /\ (aborted[r] \/ gpu[r] = <<>>))
===============================================================================
