---------------------------- MODULE TrainingRounds ----------------------------
(***************************************************************************)
(* What the controller promises the trainers, without saying how: policy   *)
(* replicas train in rounds.  A round is handed to every member at once    *)
(* and only when nobody is busy with the one before; a closing round ends  *)
(* the series; the job is terminal only when nobody is busy, and rollouts  *)
(* are stopped only when it is terminal or no member is left.              *)
(***************************************************************************)
EXTENDS Naturals

CONSTANT Policies

VARIABLES
  members,   \* replicas that take part
  busy,      \* members that have not acknowledged the current round
  step,      \* training rounds handed out
  closed,    \* the closing round has been handed out
  terminal,  \* the series has ended
  stopped    \* the rollouts have been told to stop

vars == <<members, busy, step, closed, terminal, stopped>>

Init ==
  /\ members = Policies
  /\ busy = {} /\ step = 0
  /\ ~closed /\ ~terminal /\ ~stopped

(* Once the busy members would be `rest`, either leave it at that or, when *)
(* nobody is busy any more, hand out a training or the closing round.      *)
Proceed(rest) ==
  \/ busy' = rest /\ UNCHANGED <<step, closed>>
  \/ /\ rest = {} /\ ~closed /\ ~terminal
     /\ busy' = members
     /\ \/ step' = step + 1 /\ UNCHANGED closed
        \/ closed' = TRUE /\ UNCHANGED step

BeginRound ==
  /\ busy = {}
  /\ Proceed({})
  /\ UNCHANGED <<members, terminal, stopped>>

Acknowledge(p) ==
  /\ p \in busy
  /\ \/ Proceed(busy \ {p}) /\ UNCHANGED terminal
     \/ /\ busy = {p} /\ busy' = {}
        /\ terminal' = TRUE
        /\ UNCHANGED <<step, closed>>
  /\ UNCHANGED <<members, stopped>>

Leave(p) ==
  /\ p \in members
  /\ members' = members \ {p}
  /\ busy' = busy \ {p}
  /\ UNCHANGED <<step, closed, terminal, stopped>>

Stop ==
  /\ terminal \/ members = {}
  /\ stopped' = TRUE
  /\ UNCHANGED <<members, busy, step, closed, terminal>>

Next ==
  \/ BeginRound \/ Stop
  \/ \E p \in Policies : Acknowledge(p) \/ Leave(p)

Spec == Init /\ [][Next]_vars
===============================================================================
