----------------------------- MODULE PolicyMesh -----------------------------
(***************************************************************************)
(* The NCCL mesh of the policy replicas: how the controller builds and     *)
(* rebuilds it as replicas register, are reaped or report NCCL errors      *)
(* (dispatcher/status.py, dispatcher/controller.py), and how every replica *)
(* follows, with a background thread that builds communicators and a main  *)
(* thread that uses them with retries (HighAvailabilitylNccl in            *)
(* utils/distributed.py, policy/worker/rl_worker.py).                      *)
(*                                                                         *)
(* Replicas are numbered in the order in which they register (they are     *)
(* sorted by start_time, and names are fresh).  Time is abstracted: a      *)
(* timeout fires only when what it bounds can no longer happen.            *)
(***************************************************************************)
EXTENDS Integers, FiniteSets, SequencesExt, Functions

CONSTANTS
  NReplicas,   \* bound: replicas that ever start
  NInit,       \* policy.parallelism.n_init_replicas
  LastStep,    \* bound: training steps
  MaxRetry,    \* HighAvailabilitylNccl.max_retry
  MaxCrashes   \* bound: processes that die by themselves

ASSUME MeshAssumption ==
  /\ NReplicas \in Nat /\ NInit \in 1 .. NReplicas /\ LastStep \in Nat
  /\ MaxRetry \in Nat \ {0} /\ MaxCrashes \in Nat

VARIABLES
  ctl,      \* controller: policy status manager, NCCL errors, command streams
  kv,       \* controller: temp_kv_store, from mesh to NCCL unique id
  groups,   \* NCCL: for each unique id, its mesh and the ranks that joined
  proc,     \* replica: its process
  bt,       \* replica: the HA_NCCL background thread
  ha,       \* replica: comm_idx, replica_name_to_rank, is_comm_ready, is_single_peer
  main,     \* replica: the main thread and its NCCL operation
  weights,  \* replica: the step its weights are of
  crashes

vars == <<ctl, kv, groups, proc, bt, ha, main, weights, crashes>>

Replicas == 1 .. NReplicas
NoComm == 0          \* comm_idx = -1
Unloaded == -1       \* weights as constructed, before any resume or broadcast
Spoiled == -2        \* weights updated from an aborted transfer or reduction

Meshes == SeqOf(Replicas, NReplicas)
Command ==
  [type : {"WeightResume"}] \cup [type : {"DataFetch"}, step : 1 .. LastStep]
  \cup [type : {"P2PBroadcast"}, src : Replicas]
  \cup [type : {"P2PUnicast"}, src : Replicas, dst : Replicas]

TypeOK ==
  /\ ctl.members \in Meshes
  /\ ctl.status \in [Replicas -> {"none", "uninitialized", "ready", "running", "reduced"}]
  /\ ctl.in_mesh \subseteq Replicas /\ ctl.loaded \subseteq Replicas
  /\ ctl.init_done \in BOOLEAN /\ ctl.first_arrived \in BOOLEAN
  /\ ctl.step \in 0 .. LastStep
  /\ ctl.errors \subseteq Replicas /\ ctl.window \in BOOLEAN
  /\ \A r \in Replicas :
       /\ ToSet(ctl.buildq[r]) \subseteq Meshes /\ ToSet(ctl.cmdq[r]) \subseteq Command
       /\ \A m \in ToSet(ctl.buildq[r]) : r \in ToSet(m)
  /\ DOMAIN kv \subseteq Meshes
  /\ \A g \in DOMAIN groups : groups[g].joined \subseteq ToSet(groups[g].mesh)
  /\ proc \in [Replicas -> {"new", "up", "dead"}]
  /\ bt \in [Replicas -> [pc : {"idle", "uid", "create", "report", "clear", "gone"},
                          mesh : Meshes, id : 0 .. Len(groups)]]
  /\ ha \in [Replicas -> [comm : 0 .. Len(groups), mesh : Meshes,
                          ready : BOOLEAN, single : BOOLEAN]]
  /\ \A r \in Replicas :
       /\ main[r].pc \in {"idle", "wait", "lock", "flight", "report", "done"}
       /\ main[r].pc # "idle" => main[r].cmd = Head(ctl.cmdq[r])
       /\ main[r].try \in 0 .. MaxRetry
  /\ weights \in [Replicas -> (0 .. LastStep) \cup {Unloaded, Spoiled}]
  /\ crashes \in 0 .. MaxCrashes

NoBuild == [pc |-> "idle", mesh |-> <<>>, id |-> NoComm]
NoHa == [comm |-> NoComm, mesh |-> <<>>, ready |-> FALSE, single |-> FALSE]
NoOp == [pc |-> "idle", cmd |-> [type |-> "none"], peer |-> 0, try |-> 0]

Init ==
  /\ ctl = [members |-> <<>>, status |-> [r \in Replicas |-> "none"],
            in_mesh |-> {}, loaded |-> {}, init_done |-> FALSE,
            first_arrived |-> FALSE, step |-> 0, errors |-> {}, window |-> FALSE,
            buildq |-> [r \in Replicas |-> <<>>], cmdq |-> [r \in Replicas |-> <<>>]]
  /\ kv = <<>> /\ groups = <<>> /\ crashes = 0
  /\ proc = [r \in Replicas |-> "new"]
  /\ bt = [r \in Replicas |-> NoBuild]
  /\ ha = [r \in Replicas |-> [comm |-> NoComm, mesh |-> <<>>,
                               ready |-> FALSE, single |-> FALSE]]
  /\ main = [r \in Replicas |-> NoOp]
  /\ weights = [r \in Replicas |-> Unloaded]

-----------------------------------------------------------------------------
(* Controller: the policy status manager *)

Members(c) == ToSet(c.members)

(* Mutant: the latest command is read first *)
publish_first(c, rs, cmd) ==
  [c EXCEPT !.cmdq = [r \in Replicas |-> IF r \in rs THEN <<cmd>> \o @[r] ELSE @[r]]]

publish(c, rs, cmd) ==
  [c EXCEPT !.cmdq = [r \in Replicas |-> IF r \in rs THEN Append(@[r], cmd) ELSE @[r]]]

(* BuildMeshCommand.trigger: ranks follow the order of arrival *)
trigger_rebuild_mesh(c) ==
  [c EXCEPT !.in_mesh = @ \cup Members(c),
            !.buildq = [r \in Replicas |->
                          IF r \in Members(c) THEN Append(@[r], c.members) ELSE @[r]]]

(* the first replica with weights loaded in view of command, 0 if none *)
initialized_replica(c) ==
  LET i == SelectInSeq(c.members, LAMBDA r : r \in c.loaded)
  IN  IF i = 0 THEN 0 ELSE c.members[i]

weight_resume(c, r) ==
  [publish(c, {r}, [type |-> "WeightResume"])
     EXCEPT !.first_arrived = TRUE, !.loaded = @ \cup {r}]

broadcast_weights(c, src) ==
  [publish(c, Members(c), [type |-> "P2PBroadcast", src |-> src])
     EXCEPT !.loaded = @ \cup Members(c)]

set_ready(c, rs) ==
  [c EXCEPT !.status = [r \in Replicas |-> IF r \in rs THEN "ready" ELSE @[r]]]

unicast_weights(c, src, dst) ==
  [publish(c, {src, dst}, [type |-> "P2PUnicast", src |-> src, dst |-> dst])
     EXCEPT !.loaded = @ \cup {dst}]

(* policy_init_done becomes true: mesh, then weights, then READY; without a *)
(* loaded replica the assertion stops the handler after the mesh            *)
finish_initialization(c) ==
  LET built == trigger_rebuild_mesh([c EXCEPT !.init_done = TRUE])
      src == initialized_replica(c)
  IN  CASE Len(c.members) = 1 -> set_ready(built, Members(c))
        [] Len(c.members) > 1 /\ src = 0 -> built
        [] OTHER -> set_ready(broadcast_weights(built, src), Members(c))

(* Mutant: the new replica is ready without weights *)
scale_up_without_weights(c, r) == set_ready(trigger_rebuild_mesh(c), {r})

(* Mutant: the new replica is left uninitialized *)
scale_up_unready(c, r) ==
  LET src == initialized_replica(c)
  IN  IF src = 0 THEN c ELSE unicast_weights(trigger_rebuild_mesh(c), src, r)

scale_up(c, r) ==
  LET src == initialized_replica(c)
  IN  IF src = 0 THEN c
      ELSE set_ready(unicast_weights(trigger_rebuild_mesh(c), src, r), {r})

post_register_hook(c, r) ==
  CASE ~c.init_done /\ Len(c.members) >= NInit -> finish_initialization(c)
    [] ~c.init_done /\ Len(c.members) < NInit -> c
    [] OTHER -> scale_up(c, r)

(* a replica that finds itself alone after the first one has left stays     *)
(* registered and is given nothing: the assertion on the first arrival fails *)
register(c, r) ==
  LET arrived == [c EXCEPT !.members = Append(@, r), !.status[r] = "uninitialized"]
  IN  CASE Len(arrived.members) = 1 /\ c.first_arrived -> arrived
        [] Len(arrived.members) = 1 -> post_register_hook(weight_resume(arrived, r), r)
        [] OTHER -> post_register_hook(arrived, r)

(* Mutant: the survivors are not told *)
unregister_silently(c, r) ==
  [c EXCEPT !.members = RemoveFirst(@, r),
            !.status[r] = "none", !.in_mesh = @ \ {r},
            !.loaded = @ \ {r}, !.errors = @ \ {r}]

unregister(c, r) ==
  LET left == [c EXCEPT !.members = RemoveFirst(@, r),
                        !.status[r] = "none", !.in_mesh = @ \ {r},
                        !.loaded = @ \ {r}, !.errors = @ \ {r}]
  IN  IF c.step < LastStep /\ r \in c.in_mesh /\ left.members # <<>>
      THEN trigger_rebuild_mesh(left) ELSE left

(* the time window of a report has passed: whoever did not report is hung *)
post_ncclerror(c) ==
  LET swept[n \in 0 .. Len(c.members)] ==
        CASE n = 0 -> c
          [] n > 0 /\ c.members[n] \in c.errors -> swept[n - 1]
          [] OTHER -> unregister(swept[n - 1], c.members[n])
  IN  [swept[Len(c.members)] EXCEPT !.errors = {}, !.window = FALSE]

set_replica_ncclerror(c, r) ==
  IF r \in Members(c) THEN [c EXCEPT !.errors = @ \cup {r}, !.window = TRUE] ELSE c

all_with_status(c, s) == \A r \in Members(c) : c.status[r] \in s

train_ack(c, r) ==
  LET acked == [c EXCEPT !.status[r] = "reduced"]
  IN  IF all_with_status(acked, {"reduced"}) THEN set_ready(acked, Members(c)) ELSE acked

try_trigger_data_fetch_and_training(c) ==
  [publish(c, Members(c), [type |-> "DataFetch", step |-> c.step + 1])
     EXCEPT !.step = @ + 1,
            !.status = [r \in Replicas |-> IF r \in Members(c) THEN "running" ELSE @[r]]]

-----------------------------------------------------------------------------
(* Controller steps *)

workerVars == <<kv, groups, bt, ha, main, weights>>

Up(r) == proc[r] = "up"
BuildPending(r) == ctl.buildq[r] # <<>> \/ bt[r].pc # "idle"

Register(r) ==
  /\ proc[r] = "new" /\ \A q \in 1 .. r - 1 : proc[q] # "new"
  /\ ctl' = register(ctl, r)
  /\ proc' = [proc EXCEPT ![r] = "up"]
  /\ UNCHANGED <<workerVars, crashes>>

(* maintain_life_status, or the dying process unregisters itself *)
Unregister(r) ==
  /\ r \in Members(ctl) /\ proc[r] = "dead"
  /\ ctl' = unregister(ctl, r)
  /\ UNCHANGED <<workerVars, proc, crashes>>

NcclErrorWindow ==
  /\ ctl.window
  /\ ctl' = post_ncclerror(ctl)
  /\ UNCHANGED <<workerVars, proc, crashes>>

(* enough rollouts have arrived for a step *)
Dispatch ==
  /\ ctl.members # <<>> /\ ctl.init_done /\ ctl.step < LastStep
  /\ all_with_status(ctl, {"ready", "reduced"})
  /\ ctl' = try_trigger_data_fetch_and_training(ctl)
  /\ UNCHANGED <<workerVars, proc, crashes>>

-----------------------------------------------------------------------------
(* Replica: death *)

Dies(r) ==
  /\ proc' = [proc EXCEPT ![r] = "dead"]
  /\ bt' = [bt EXCEPT ![r] = NoBuild] /\ main' = [main EXCEPT ![r] = NoOp]
  /\ ha' = [ha EXCEPT ![r] = NoHa]
  /\ ctl' = [ctl EXCEPT !.buildq[r] = <<>>, !.cmdq[r] = <<>>]
  /\ weights' = [weights EXCEPT ![r] = Unloaded]
  /\ UNCHANGED <<kv, groups>>

(* the fault model: a process dies at any point *)
Crash(r) ==
  /\ Up(r) /\ crashes < MaxCrashes
  /\ crashes' = crashes + 1
  /\ Dies(r)

-----------------------------------------------------------------------------
(* Replica: the background thread, which holds build_mesh_lock from taking  *)
(* a BuildMesh command until it is idle again                               *)

LockFree(r) == bt[r].pc \in {"idle", "gone"}

(* the result of an operation that ended because its communicator was       *)
(* aborted: its stream drains, so the watchdog sees it complete             *)
aborted_weights(r) ==
  CASE main[r].cmd.type = "DataFetch" -> Spoiled
    [] main[r].cmd.type # "DataFetch" /\ main[r].cmd.src # r -> Spoiled
    [] OTHER -> weights[r]

DestroyComm(r) ==
  IF main[r].pc = "flight" /\ ha[r].comm # NoComm
  THEN /\ main' = [main EXCEPT ![r].pc = "done"]
       /\ weights' = [weights EXCEPT ![r] = aborted_weights(r)]
  ELSE UNCHANGED <<main, weights>>

TakeBuildMesh(r) ==
  LET m == Head(ctl.buildq[r]) IN
  /\ Up(r) /\ bt[r].pc = "idle" /\ ctl.buildq[r] # <<>>
  /\ DestroyComm(r)
  /\ ctl' = [ctl EXCEPT !.buildq[r] = Tail(@)]
  /\ IF Len(m) = 1
     THEN /\ ha' = [ha EXCEPT ![r] = [comm |-> NoComm, mesh |-> m,
                                      ready |-> TRUE, single |-> TRUE]]
          /\ UNCHANGED bt
     ELSE /\ ha' = [ha EXCEPT ![r].comm = NoComm, ![r].ready = FALSE]
          /\ bt' = [bt EXCEPT ![r] = [pc |-> "uid", mesh |-> m, id |-> NoComm]]
  /\ UNCHANGED <<kv, groups, proc, crashes>>

(* rank 0: create_nccl_uid, comm_initiator *)
PostUid(r) ==
  LET id == Len(groups) + 1 IN
  /\ bt[r].pc = "uid" /\ bt[r].mesh[1] = r
  /\ groups' = Append(groups, [mesh |-> bt[r].mesh, joined |-> {r}])
  /\ kv' = [m \in DOMAIN kv \cup {bt[r].mesh} |-> IF m = bt[r].mesh THEN id ELSE kv[m]]
  /\ bt' = [bt EXCEPT ![r].pc = "create", ![r].id = id]
  /\ UNCHANGED <<ctl, proc, ha, main, weights, crashes>>

(* the others poll comm_acceptor until the key is there *)
AcceptUid(r) ==
  /\ bt[r].pc = "uid" /\ bt[r].mesh[1] # r /\ bt[r].mesh \in DOMAIN kv
  /\ groups' = [groups EXCEPT ![kv[bt[r].mesh]].joined = @ \cup {r}]
  /\ bt' = [bt EXCEPT ![r].pc = "create", ![r].id = kv[bt[r].mesh]]
  /\ UNCHANGED <<ctl, kv, proc, ha, main, weights, crashes>>

(* the unique id is not posted and never will be: rank 0 is dead *)
Orphaned(r) ==
  /\ bt[r].pc = "uid" /\ bt[r].mesh \notin DOMAIN kv /\ ~Up(bt[r].mesh[1])

(* post_nccl_comm_acceptor raises after its retries and nobody catches it:  *)
(* the thread ends, and no later BuildMesh command is taken                 *)
AcceptFails(r) ==
  /\ Orphaned(r)
  /\ bt' = [bt EXCEPT ![r] = [NoBuild EXCEPT !.pc = "gone"]]
  /\ UNCHANGED <<ctl, kv, groups, proc, ha, main, weights, crashes>>

CommCreated(r) ==
  LET b == bt[r] IN
  /\ b.pc = "create" /\ groups[b.id].joined = ToSet(b.mesh)
  /\ ha' = [ha EXCEPT ![r] = [comm |-> b.id, mesh |-> b.mesh,
                              ready |-> TRUE, single |-> FALSE]]
  /\ bt' = [bt EXCEPT ![r] = IF b.mesh[1] = r THEN [b EXCEPT !.pc = "clear"] ELSE NoBuild]
  /\ UNCHANGED <<ctl, kv, groups, proc, main, weights, crashes>>

(* Mutant: the store is not cleared *)
keep_store(r) ==
  /\ bt[r].pc = "clear"
  /\ bt' = [bt EXCEPT ![r] = NoBuild]
  /\ UNCHANGED <<ctl, kv, groups, proc, ha, main, weights, crashes>>

(* comm_store_clear, by rank 0 after the communicator is ready *)
ClearStore(r) ==
  /\ bt[r].pc = "clear"
  /\ kv' = Restrict(kv, DOMAIN kv \ {bt[r].mesh})
  /\ bt' = [bt EXCEPT ![r] = NoBuild]
  /\ UNCHANGED <<ctl, groups, proc, ha, main, weights, crashes>>

(* q will not join the unique id that r waits on *)
WillNotJoin(q, r) ==
  \/ ~Up(q) \/ bt[q].pc = "gone"
  \/ /\ q \notin groups[bt[r].id].joined
     /\ bt[r].mesh \notin ToSet(ctl.buildq[q]) \cup {bt[q].mesh}

(* creating the communicator timed out: report, with the lock held *)
CreateFails(r) ==
  /\ bt[r].pc = "create" /\ \E q \in ToSet(bt[r].mesh) : WillNotJoin(q, r)
  /\ ctl' = set_replica_ncclerror(ctl, r)
  /\ bt' = [bt EXCEPT ![r].pc = "report"]
  /\ UNCHANGED <<kv, groups, proc, ha, main, weights, crashes>>

(* the report's request returns after the controller's time window *)
CreateReported(r) ==
  /\ bt[r].pc = "report" /\ ~ctl.window
  /\ bt' = [bt EXCEPT ![r] = NoBuild]
  /\ UNCHANGED <<ctl, kv, groups, proc, ha, main, weights, crashes>>

-----------------------------------------------------------------------------
(* Replica: the main thread *)

Idle(r, type) ==
  /\ Up(r) /\ main[r].pc = "idle" /\ ctl.cmdq[r] # <<>> /\ Head(ctl.cmdq[r]).type = type

done(c, r) == [c EXCEPT !.cmdq[r] = Tail(@)]

WeightResume(r) ==
  /\ Idle(r, "WeightResume")
  /\ weights' = [weights EXCEPT ![r] = 0]
  /\ ctl' = done(ctl, r)
  /\ UNCHANGED <<kv, groups, proc, bt, ha, main, crashes>>

(* a step taken from weights w *)
trained(w, step) == IF w \in {Unloaded, Spoiled} THEN w ELSE step

(* the replica whose rank the operation needs *)
peer_of(r, cmd) ==
  CASE cmd.type = "DataFetch" -> r
    [] cmd.type = "P2PUnicast" /\ cmd.src = r -> cmd.dst
    [] OTHER -> cmd.src

(* wait_comm_ready without a timeout, get_replica_rank, and the test of     *)
(* is_single_peer.  A BuildMesh published before the command may still be   *)
(* in the background thread's queue: nothing orders the two threads.        *)
BeginOp(r, type) ==
  LET cmd == Head(ctl.cmdq[r])
      peer == peer_of(r, cmd)
  IN
  /\ Idle(r, type) /\ ha[r].ready
  /\ \/ /\ peer \notin ToSet(ha[r].mesh)    \* KeyError
        /\ Dies(r)
     \/ /\ peer \in ToSet(ha[r].mesh) /\ ha[r].single
        /\ main' = [main EXCEPT ![r] = [NoOp EXCEPT !.pc = "done", !.cmd = cmd]]
        /\ weights' = [weights EXCEPT ![r] = IF type = "DataFetch" THEN trained(@, cmd.step) ELSE @]
        /\ UNCHANGED <<ctl, kv, groups, proc, bt, ha>>
     \/ /\ peer \in ToSet(ha[r].mesh) /\ ~ha[r].single
        /\ main' = [main EXCEPT ![r] = [pc |-> "wait", cmd |-> cmd, try |-> 1,
                                        peer |-> SelectInSeq(ha[r].mesh, LAMBDA q : q = peer)]]
        /\ UNCHANGED <<ctl, kv, groups, proc, bt, ha, weights>>
  /\ UNCHANGED crashes

CommReady(r) ==
  /\ main[r].pc = "wait" /\ ha[r].ready
  /\ main' = [main EXCEPT ![r].pc = "lock"]
  /\ UNCHANGED <<ctl, kv, groups, proc, bt, ha, weights, crashes>>

(* the operation is enqueued under the lock, which is released before the   *)
(* watchdog waits for the stream.  Without a communicator, or with a rank   *)
(* the rebuilt mesh does not have, the call raises.                         *)
Enqueue(r) ==
  /\ main[r].pc = "lock" /\ LockFree(r)
  /\ IF ha[r].comm # NoComm /\ main[r].peer <= Len(ha[r].mesh)
     THEN main' = [main EXCEPT ![r].pc = "flight"] /\ UNCHANGED <<ctl, ha>>
     ELSE /\ main' = [main EXCEPT ![r].pc = "report"]
          /\ ha' = [ha EXCEPT ![r].ready = FALSE]
          /\ ctl' = set_replica_ncclerror(ctl, r)
  /\ UNCHANGED <<kv, groups, proc, bt, weights, crashes>>

InFlight(r, g) == main[r].pc = "flight" /\ ha[r].comm = g
Ranks(g) == ToSet(groups[g].mesh)
Collective(r) == main[r].cmd.type # "P2PUnicast"

(* r and q have enqueued operations that NCCL pairs on group g *)
Pairs(r, q, g) ==
  /\ InFlight(q, g) /\ main[r].cmd.type = main[q].cmd.type
  /\ IF Collective(r) THEN main[r].peer = main[q].peer \/ main[r].cmd.type = "DataFetch"
     ELSE r # q => groups[g].mesh[main[r].peer] = q /\ groups[g].mesh[main[q].peer] = r

Partners(r, g) ==
  IF Collective(r) THEN Ranks(g) ELSE {r, groups[g].mesh[main[r].peer]}

(* NCCL moves the data once every partner has enqueued: an average over the *)
(* replicas, a copy of the root's or of the sender's weights                *)
transferred(r, g, S) ==
  CASE main[r].cmd.type = "DataFetch" ->
         IF \A q, p \in S : weights[q] = weights[p] /\ main[q].cmd = main[p].cmd
         THEN trained(weights[r], main[r].cmd.step) ELSE Spoiled
    [] main[r].cmd.type = "P2PBroadcast" -> weights[groups[g].mesh[main[r].peer]]
    [] main[r].cmd.type = "P2PUnicast" /\ main[r].cmd.src # r ->
         weights[groups[g].mesh[main[r].peer]]
    [] OTHER -> weights[r]

Transfer(r) ==
  LET g == ha[r].comm
      S == Partners(r, g)
  IN
  /\ main[r].pc = "flight" /\ g # NoComm /\ \A q \in S : Pairs(r, q, g)
  /\ r = CHOOSE q \in S : \A p \in S : q <= p
  /\ weights' = [q \in Replicas |-> IF q \in S THEN transferred(q, g, S) ELSE weights[q]]
  /\ main' = [q \in Replicas |-> IF q \in S THEN [main[q] EXCEPT !.pc = "done"] ELSE main[q]]
  /\ UNCHANGED <<ctl, kv, groups, proc, bt, ha, crashes>>

(* a partner is gone, has left the group, is past the command that r is     *)
(* executing, or waits for r in an operation that does not pair             *)
Hung(r) ==
  LET g == ha[r].comm IN
  \E q \in Partners(r, g) :
    \/ ~Up(q) \/ g \notin {ha[q].comm, bt[q].id} \/ main[r].cmd \notin ToSet(ctl.cmdq[q])
    \/ InFlight(q, g) /\ ~Pairs(r, q, g) /\ r \in Partners(q, g)

(* the watchdog aborts the communicator *)
OpTimeout(r) ==
  /\ main[r].pc = "flight" /\ Hung(r)
  /\ main' = [main EXCEPT ![r].pc = "report"]
  /\ ha' = [ha EXCEPT ![r].comm = NoComm, ![r].ready = FALSE]
  /\ ctl' = set_replica_ncclerror(ctl, r)
  /\ UNCHANGED <<kv, groups, proc, bt, weights, crashes>>

(* nothing is under way that would make the communicator ready *)
Abandoned(r) ==
  /\ ~ha[r].ready /\ ~ctl.window /\ \A q \in Members(ctl) : Up(q)
  /\ bt[r].pc = "gone" \/ ~BuildPending(r)

WaitTimeout(r) ==
  /\ main[r].pc = "wait" /\ Abandoned(r)
  /\ main' = [main EXCEPT ![r].pc = "report"]
  /\ ctl' = set_replica_ncclerror(ctl, r)
  /\ UNCHANGED <<kv, groups, proc, bt, ha, weights, crashes>>

(* the next attempt, with the rank looked up before the first one, or the   *)
(* RuntimeError that ends the process                                       *)
NextAttempt(r) ==
  /\ main[r].pc = "report" /\ ~ctl.window
  /\ IF main[r].try < MaxRetry
     THEN /\ main' = [main EXCEPT ![r].pc = "wait", ![r].try = @ + 1]
          /\ UNCHANGED <<ctl, kv, groups, proc, bt, ha, weights>>
     ELSE Dies(r)
  /\ UNCHANGED crashes

(* the replicas whose ranks the handler looks up once more when it logs *)
logged(cmd) ==
  CASE cmd.type = "DataFetch" -> {}
    [] cmd.type = "P2PBroadcast" -> {cmd.src}
    [] OTHER -> {cmd.src, cmd.dst}

(* the handler returns.  The log of a transfer waits for the communicator   *)
(* and looks the ranks up; a training step is acknowledged; a rank that the *)
(* mesh does not have, or a refused ACK, ends the process.                  *)
EndOp(r) ==
  LET cmd == main[r].cmd
      trained_step == cmd.type = "DataFetch"
  IN
  /\ main[r].pc = "done" /\ (trained_step \/ ha[r].ready)
  /\ IF (trained_step /\ r \notin Members(ctl)) \/ ~(logged(cmd) \subseteq ToSet(ha[r].mesh))
     THEN Dies(r)
     ELSE /\ ctl' = IF trained_step THEN train_ack(done(ctl, r), r) ELSE done(ctl, r)
          /\ main' = [main EXCEPT ![r] = NoOp]
          /\ UNCHANGED <<kv, groups, proc, bt, ha, weights>>
  /\ UNCHANGED crashes

-----------------------------------------------------------------------------
PolicyToPolicyBroadcast(r) == BeginOp(r, "P2PBroadcast")
PolicyToPolicyUnicast(r) == BeginOp(r, "P2PUnicast")
DataFetch(r) == BeginOp(r, "DataFetch")

Background(r) ==
  \/ TakeBuildMesh(r) \/ PostUid(r) \/ AcceptUid(r) \/ CommCreated(r)
  \/ AcceptFails(r) \/ ClearStore(r) \/ CreateFails(r) \/ CreateReported(r)

MainThread(r) ==
  \/ WeightResume(r) \/ PolicyToPolicyBroadcast(r) \/ PolicyToPolicyUnicast(r)
  \/ DataFetch(r) \/ CommReady(r) \/ Enqueue(r) \/ Transfer(r)
  \/ OpTimeout(r) \/ WaitTimeout(r) \/ NextAttempt(r) \/ EndOp(r)

Next ==
  \/ \E r \in Replicas :
       Register(r) \/ Unregister(r) \/ Crash(r) \/ Background(r) \/ MainThread(r)
  \/ NcclErrorWindow \/ Dispatch

Spec == Init /\ [][Next]_vars

(* What the threads and the controller's event loop do without help from    *)
(* outside: dead replicas are reaped, rollouts arrive, and the initial      *)
(* replicas start; crashes and further replicas are not promised.  Commands,*)
(* builds and attempts are bounded, so these steps cannot go on for ever.   *)
Progress ==
  \/ \E r \in Replicas :
       (~ctl.init_done /\ Register(r)) \/ Unregister(r) \/ Background(r) \/ MainThread(r)
  \/ NcclErrorWindow \/ Dispatch

AtRest == ~ENABLED Progress

-----------------------------------------------------------------------------
(* Properties *)

Running(r) == Up(r) /\ bt[r].pc # "gone"

(* Replicas that create the communicator of the same build (a mesh they     *)
(* share, with no later build queued) do it with the same unique id, as     *)
(* long as the mesh has lost nobody: rank 0 clears the store after each     *)
(* build, so when a replica joins and leaves again, the next build of the   *)
(* mesh cannot pick up the id of the one before.                            *)
OneIdPerBuild ==
  \A r, q \in Replicas :
    /\ bt[r].pc = "create" /\ ctl.buildq[r] = <<>>
    /\ bt[q].pc = "create" /\ ctl.buildq[q] = <<>>
    /\ bt[r].mesh = bt[q].mesh /\ \A p \in ToSet(bt[r].mesh) : Running(p)
    => bt[r].id = bt[q].id

(* every replica that has started is alive and registered *)
Intact == \A r \in Replicas : proc[r] # "new" => Up(r) /\ r \in Members(ctl)

Reducing(r) == main[r].pc = "flight" /\ main[r].cmd.type = "DataFetch"

(* Replicas that reduce gradients together are in the same step and start   *)
(* it from the same, loaded weights, whenever replicas joined, as long as   *)
(* none has been lost: broadcast and unicast take the weights from a        *)
(* replica that has them, and reach a replica before its first step.  Left  *)
(* out are weights spoiled by a transfer that a rebuild aborted.            *)
WeightsAgree ==
  Intact =>
    \A r, q \in Replicas :
      Reducing(r) /\ Reducing(q) /\ Spoiled \notin {weights[r], weights[q]}
        => /\ main[r].cmd = main[q].cmd
           /\ weights[r] = weights[q] /\ weights[r] # Unloaded

(* As long as no replica is lost (by a crash, by a rank looked up on the    *)
(* mesh from before a rebuild, by its last attempt, or swept after a        *)
(* report) nobody waits for ever: registration, mesh build, weight          *)
(* transfer, dispatch and reduction come to rest only when every step has   *)
(* been trained by everybody, the replicas that joined on the way included. *)
TrainsWhileIntact ==
  Intact /\ AtRest =>
    /\ ctl.step = LastStep
    /\ \A r \in Members(ctl) :
         /\ ctl.status[r] \in {"ready", "reduced"} /\ ctl.cmdq[r] = <<>>
         /\ weights[r] \in {LastStep, Spoiled}

Converged ==
  LET mesh == SelectSeq(ctl.members, LAMBDA r : r \in ctl.in_mesh)
  IN  \A r \in ToSet(mesh) : ha[r].ready /\ ha[r].mesh = mesh

(* After a death the survivors' communicators converge on the replicas that *)
(* are still in the mesh (unregister and post_ncclerror make them rebuild), *)
(* as long as there are steps left to train and unless a death has left a   *)
(* background thread waiting for a unique id that nobody posts.             *)
MeshConverges ==
  AtRest /\ (\A r \in Replicas : bt[r].pc # "gone") => Converged \/ ctl.step = LastStep

(* A rebuild never aborts an operation that is in flight, which is what     *)
(* taking build_mesh_lock is for.                                           *)
NoAbortInFlight ==
  [][\A r \in Replicas : TakeBuildMesh(r) => main[r].pc # "flight"]_vars
=============================================================================
