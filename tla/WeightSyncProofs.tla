--------------------------- MODULE WeightSyncProofs ---------------------------
(***************************************************************************)
(* What the weight-sync threads keep true for any number of replicas,      *)
(* rounds and crashes: followers serve received weights only, a fence that *)
(* succeeds has executed every round, and no replica goes back to older    *)
(* weights.                                                                *)
(*                                                                         *)
(* The argument follows a command on its way: line(r) is what is still to  *)
(* be executed by a replica, the WST's queue followed by the Redis stream, *)
(* so that passing a sync from the one to the other changes nothing.       *)
(***************************************************************************)
EXTENDS WeightSync, SequenceTheorems, TLAPS

Command == SyncCommand \cup [type : {"STOP"}]

Transfer(k) == [type |-> "P2R", step |-> k]
Round(k) == [type |-> "R2R", step |-> k]

Holds(s, c) == \E i \in 1 .. Len(s) : s[i] = c

(* Nothing follows STOP; a round comes before the transfer and the round   *)
(* of every later step; there is one transfer at most.                     *)
Before(c, d) ==
  /\ c.type # "STOP"
  /\ c.type = "R2R" /\ d.type # "STOP" => c.step < d.step
  /\ c.type = "P2R" => d.type # "P2R"

Sorted(s) == \A i, j \in 1 .. Len(s) : i < j => Before(s[i], s[j])

line(r) == wstq[r] \o stream[r]

Runs(r, k) == exec[r] # None /\ exec[r].cmd = Round(k)
Sent(r) == exec[r] # None /\ exec[r].at \in {"event", "versioned"}
Receives(r) == exec[r] # None /\ exec[r].at = "recv"
Pends(r, k) == Holds(line(r), Round(k)) \/ Runs(r, k)
Unsent(r, k) == Holds(line(r), Round(k)) \/ (Runs(r, k) /\ ~Sent(r))

-----------------------------------------------------------------------------
(* The inductive invariant *)

(* Commands are executed in order, but for a transfer that overtakes.      *)
Lines ==
  \A r \in Rollouts :
    /\ Sorted(line(r))
    /\ exec[r] # None =>
         /\ exec[r].at \in P2RPhase => exec[r].cmd.type = "P2R"
         /\ exec[r].at \in R2RPhase => exec[r].cmd.type = "R2R"
    /\ \A k, l \in Steps :
         Runs(r, k) => /\ Holds(line(r), Round(l)) => k < l
                       /\ Holds(line(r), Transfer(l)) => k < l

(* What pends is not older than what the replica has announced.            *)
Versions ==
  \A r \in Rollouts :
    /\ \A k \in Steps : Pends(r, k) => version[r] <= k /\ k < published
    /\ version[r] = 0 \/ version[r] < published

(* A round published is pending or executed, unless the replica gave up;   *)
(* its broadcast is still to be enqueued, on the stream, or in the buffer. *)
Complete ==
  \A r \in Rollouts : ~aborted[r] =>
    \A k \in Steps : k < published =>
      /\ Pends(r, k) \/ k <= version[r]
      /\ Unsent(r, k) \/ Holds(gpu[r], Round(k)) \/ k <= buffer[r]

(* The leader's buffer is the newest.                                      *)
Newest ==
  /\ received <= published /\ published <= received + 1
  /\ buffer[Leader] = received - 1
  /\ \A r \in Rollouts : buffer[r] <= buffer[Leader]

(* The transfer of the last round published is on its way to the leader.   *)
OnItsWay(r, k) == r = Leader /\ k = received /\ published = received + 1

Sends ==
  /\ \A r \in Rollouts, k \in Steps :
       Holds(line(r), Transfer(k)) => OnItsWay(r, k) /\ ~Receives(r)
  /\ \A r \in Rollouts : Receives(r) => OnItsWay(r, exec[r].cmd.step)
  /\ ~aborted[Leader] =>
       /\ received < published =>
            \/ Receives(Leader)
            \/ \E k \in Steps : Holds(line(Leader), Transfer(k)) \/ Holds(gpu[Leader], Transfer(k))
       /\ \A k \in Steps : Runs(Leader, k) => k < received \/ Holds(gpu[Leader], Transfer(k))

(* The GPU: no second transfer comes behind one that is on the stream, and *)
(* the leader broadcasts a round behind its transfer.                      *)
Streams ==
  /\ \A r \in Rollouts, k \in Steps :
       Holds(gpu[r], Transfer(k)) =>
         /\ OnItsWay(r, k) /\ ~Receives(r)
         /\ \A l \in Steps : ~Holds(line(r), Transfer(l))
  /\ \A r \in Rollouts : \A i, j \in 1 .. Len(gpu[r]) :
       i < j => ~(gpu[r][i].type = "P2R" /\ gpu[r][j].type = "P2R")
  /\ \A i \in 1 .. Len(gpu[Leader]) : \A k \in Steps :
       gpu[Leader][i] = Round(k) =>
         k < received \/ \E j \in 1 .. i - 1 : gpu[Leader][j] = Transfer(k)

(* What moves is the transfer at the head, and not older than the buffer.  *)
Moves ==
  \A r \in Rollouts : moving[r] # None =>
    /\ gpu[r] # <<>>
    /\ gpu[r][1].type = "P2R" => moving[r] = gpu[r][1].step
    /\ gpu[r][1].type = "R2R" => gpu[r][1].step <= moving[r] /\ moving[r] <= buffer[Leader]
    /\ buffer[r] <= moving[r]

(* Nothing is left behind by a fence that succeeds.                        *)
Stops ==
  \A r \in Rollouts :
    /\ stop_queued[r] => stream[r] = <<>>
    /\ mpc[r] \in {"fencing", "joining", "stopped"} => stop_queued[r]
    /\ mpc[r] = "joining" => aborted[r]
    /\ mpc[r] = "stopped" /\ ~aborted[r] => wstq[r] = <<>> /\ exec[r] = None /\ gpu[r] = <<>>
    /\ wst_stop[r] /\ exec[r] # None => aborted[r]

(* A follower marked synced has weights to copy, and copies them first.    *)
Serves ==
  \A r \in Rollouts \ {Leader} :
    /\ weight_synced[r] => buffer_version[r] > 0
    /\ exec[r] # None /\ exec[r].at = "versioned" => buffer_version[r] > 0
    /\ exec[r] # None /\ exec[r].at = "event" => gpu[r] # <<>> \/ buffer[r] >= 0
    /\ event[r] # None => event[r] > 0 \/ buffer[r] >= 0
    /\ ~unordered[r] =>
         /\ waits[r] # None => waits[r] > 0 \/ buffer[r] >= 0
         /\ copy[r] # Unsynced
         /\ mpc[r] \in {"stamping", "generating"} \/ synced_version[r] > 0 =>
              waits[r] # None \/ copy[r] # None \/ live[r] # Unsynced

(* The live model is not newer than the copy, nor the copy than the buffer; *)
(* there is no copy between two generations.                               *)
Copies ==
  \A r \in Rollouts :
    /\ mpc[r] = "loop" => waits[r] = None /\ copy[r] = None
    /\ live[r] <= buffer[r]
    /\ copy[r] # None =>
         /\ copy[r] <= buffer[r]
         /\ copy[r] # Torn /\ live[r] # Torn => live[r] <= copy[r]

Syncs == Lines /\ Versions /\ Complete /\ Newest /\ Sends /\ Streams

Synchronised == TypeOK /\ Syncs /\ Moves /\ Stops /\ Serves /\ Copies

-----------------------------------------------------------------------------
(* Sequences of commands *)

(* Passing the head of the stream on to the queue leaves the line alone.   *)
LEMMA PassOn ==
  ASSUME NEW q \in Seq(Command), NEW s \in Seq(Command), s # <<>>
  PROVE  Append(q, Head(s)) \o Tail(s) = q \o s
<1>. DEFINE a == Append(q, Head(s)) \o Tail(s)
            b == q \o s
<1>1. /\ Len(q) \in Nat /\ Len(s) \in Nat \ {0} /\ Head(s) = s[1] /\ Head(s) \in Command
      /\ Tail(s) \in Seq(Command) /\ Len(Tail(s)) = Len(s) - 1
      /\ \A i \in 1 .. Len(s) - 1 : Tail(s)[i] = s[i + 1]
  BY EmptySeq, HeadTailProperties, LenProperties
<1>2. /\ Append(q, Head(s)) \in Seq(Command) /\ Len(Append(q, Head(s))) = Len(q) + 1
      /\ \A i \in 1 .. Len(q) : Append(q, Head(s))[i] = q[i]
      /\ Append(q, Head(s))[Len(q) + 1] = s[1]
  BY <1>1, AppendProperties
<1>3. /\ a \in Seq(Command) /\ Len(a) = Len(q) + 1 + (Len(s) - 1)
      /\ \A i \in 1 .. Len(q) + 1 + (Len(s) - 1) :
           a[i] = IF i <= Len(q) + 1 THEN Append(q, Head(s))[i] ELSE Tail(s)[i - (Len(q) + 1)]
  <2>. HIDE DEF a
  <2>1. a = Append(q, Head(s)) \o Tail(s)
    BY DEF a
  <2>. QED BY <1>1, <1>2, <2>1, ConcatProperties
<1>4. /\ b \in Seq(Command) /\ Len(b) = Len(q) + Len(s)
      /\ \A i \in 1 .. Len(q) + Len(s) : b[i] = IF i <= Len(q) THEN q[i] ELSE s[i - Len(q)]
  BY ConcatProperties
<1>. HIDE DEF a, b
<1>5. \A i \in 1 .. Len(a) : a[i] = b[i]
  <2>. SUFFICES ASSUME NEW i \in 1 .. Len(a) PROVE a[i] = b[i]
    OBVIOUS
  <2>0. /\ i \in 1 .. Len(q) + 1 + (Len(s) - 1) /\ i \in 1 .. Len(q) + Len(s)
        /\ a[i] = IF i <= Len(q) + 1 THEN Append(q, Head(s))[i] ELSE Tail(s)[i - (Len(q) + 1)]
        /\ b[i] = IF i <= Len(q) THEN q[i] ELSE s[i - Len(q)]
    <3>1. i \in 1 .. Len(q) + 1 + (Len(s) - 1) /\ i \in 1 .. Len(q) + Len(s)
      BY <1>1, <1>3
    <3>. QED BY <1>3, <1>4, <3>1
  <2>1. CASE i <= Len(q)
    BY <1>1, <1>2, <2>0, <2>1
  <2>2. CASE i = Len(q) + 1
    BY <1>1, <1>2, <2>0, <2>2
  <2>3. CASE i > Len(q) + 1
    <3>1. i - (Len(q) + 1) \in 1 .. Len(s) - 1 /\ i - (Len(q) + 1) + 1 = i - Len(q)
      BY <1>1, <1>3, <2>3
    <3>2. Tail(s)[i - (Len(q) + 1)] = s[i - Len(q)]
      BY <1>1, <3>1
    <3>. QED BY <1>1, <2>0, <2>3, <3>2
  <2>. QED BY <1>1, <1>3, <2>1, <2>2, <2>3
<1>6. a = b
  <2>1. a \in Seq(Command) /\ b \in Seq(Command) /\ Len(a) = Len(b)
    BY <1>1, <1>3, <1>4
  <2>. QED BY <1>5, <2>1, SeqEqual
<1>. QED BY <1>6 DEF a, b

(* A newcomer goes to the end.                                             *)
LEMMA JoinsLine ==
  ASSUME NEW s \in Seq(Command), NEW c \in Command
  PROVE  /\ s \o <<c>> \in Seq(Command)
         /\ \A d : Holds(s \o <<c>>, d) <=> Holds(s, d) \/ d = c
         /\ Sorted(s) /\ (\A d \in Command : Holds(s, d) => Before(d, c)) =>
              Sorted(s \o <<c>>)
<1>1. /\ s \o <<c>> = Append(s, c) /\ Append(s, c) \in Seq(Command)
      /\ Len(Append(s, c)) = Len(s) + 1 /\ Len(s) \in Nat
      /\ \A i \in 1 .. Len(s) : Append(s, c)[i] = s[i] /\ s[i] \in Command
      /\ Append(s, c)[Len(s) + 1] = c
  BY AppendIsConcat, AppendProperties, LenProperties, ElementOfSeq
<1>. DEFINE w == Append(s, c)
<1>. HIDE DEF w
<1>2. /\ Len(w) = Len(s) + 1 /\ w[Len(s) + 1] = c
      /\ \A i \in 1 .. Len(s) : w[i] = s[i] /\ s[i] \in Command
  BY <1>1 DEF w
<1>3. \A d : Holds(w, d) <=> Holds(s, d) \/ d = c
  <2>1. ASSUME NEW d, Holds(w, d) PROVE Holds(s, d) \/ d = c
    <3>1. PICK i \in 1 .. Len(w) : w[i] = d
      BY <2>1 DEF Holds
    <3>2. i = Len(s) + 1 \/ i \in 1 .. Len(s)
      BY <1>1, <1>2
    <3>. QED BY <1>2, <3>1, <3>2 DEF Holds
  <2>2. ASSUME NEW d, Holds(s, d) PROVE Holds(w, d)
    <3>1. PICK i \in 1 .. Len(s) : s[i] = d
      BY <2>2 DEF Holds
    <3>2. i \in 1 .. Len(w)
      BY <1>1, <1>2
    <3>. QED BY <1>2, <3>1, <3>2 DEF Holds
  <2>3. Holds(w, c)
    <3>1. Len(s) + 1 \in 1 .. Len(w)
      BY <1>1, <1>2
    <3>. QED BY <1>2, <3>1 DEF Holds
  <2>. QED BY <2>1, <2>2, <2>3
<1>4. ASSUME Sorted(s), \A d \in Command : Holds(s, d) => Before(d, c) PROVE Sorted(w)
  <2>. SUFFICES ASSUME NEW i \in 1 .. Len(w), NEW j \in 1 .. Len(w), i < j
                PROVE  Before(w[i], w[j])
    BY DEF Sorted
  <2>1. i \in 1 .. Len(s)
    BY <1>1, <1>2
  <2>2. CASE j \in 1 .. Len(s)
    BY <1>2, <1>4, <2>1, <2>2 DEF Sorted
  <2>3. CASE j = Len(s) + 1
    <3>1. Holds(s, s[i])
      BY <2>1 DEF Holds
    <3>. QED BY <1>2, <1>4, <2>1, <2>3, <3>1
  <2>. QED BY <1>1, <1>2, <2>2, <2>3
<1>. QED BY <1>1, <1>3, <1>4 DEF w

(* What TakeTask takes out leaves the rest in order.                       *)
LEMMA LeavesLine ==
  ASSUME NEW q \in Seq(SyncCommand), NEW s \in Seq(Command), NEW i \in 1 .. Len(q)
  PROVE  /\ Without(q, i) \in Seq(SyncCommand)
         /\ \A d : Holds(Without(q, i) \o s, d) => Holds(q \o s, d)
         /\ \A d : Holds(q \o s, d) => d = q[i] \/ Holds(Without(q, i) \o s, d)
         /\ Sorted(q \o s) => Sorted(Without(q, i) \o s)
         /\ Sorted(q \o s) =>
              \A d : Holds(Without(q, i) \o s, d) => Before(q[i], d) \/ Before(d, q[i])
         /\ Sorted(q \o s) /\ i = 1 =>
              \A d : Holds(Without(q, i) \o s, d) => Before(q[i], d)
<1>. DEFINE n == Len(q)
            m == Len(s)
            u == Without(q, i)
            a == u \o s
            b == q \o s
            f(k) == IF k < i THEN k ELSE k + 1
<1>1. /\ n \in Nat /\ m \in Nat /\ q \in Seq(Command)
      /\ \A k \in 1 .. n : q[k] \in SyncCommand
  BY LenProperties, ElementOfSeq, SeqMonotonic DEF Command
<1>2. /\ SubSeq(q, 1, i - 1) \in Seq(SyncCommand) /\ Len(SubSeq(q, 1, i - 1)) = i - 1
      /\ \A k \in 1 .. i - 1 : SubSeq(q, 1, i - 1)[k] = q[k]
  <2>1. \A k \in 1 .. i - 1 : q[k] \in SyncCommand
    BY <1>1
  <2>2. /\ SubSeq(q, 1, i - 1) \in Seq(SyncCommand)
        /\ Len(SubSeq(q, 1, i - 1)) = IF 1 <= i - 1 THEN i - 1 - 1 + 1 ELSE 0
        /\ \A k \in 1 .. i - 1 - 1 + 1 : SubSeq(q, 1, i - 1)[k] = q[1 + k - 1]
    BY <1>1, <2>1, SubSeqProperties
  <2>. QED BY <1>1, <2>2
<1>3. /\ SubSeq(q, i + 1, n) \in Seq(SyncCommand) /\ Len(SubSeq(q, i + 1, n)) = n - i
      /\ \A k \in 1 .. n - i : SubSeq(q, i + 1, n)[k] = q[i + k]
  <2>1. \A k \in i + 1 .. n : q[k] \in SyncCommand
    BY <1>1
  <2>2. /\ SubSeq(q, i + 1, n) \in Seq(SyncCommand)
        /\ Len(SubSeq(q, i + 1, n)) = IF i + 1 <= n THEN n - (i + 1) + 1 ELSE 0
        /\ \A k \in 1 .. n - (i + 1) + 1 : SubSeq(q, i + 1, n)[k] = q[i + 1 + k - 1]
    BY <1>1, <2>1, SubSeqProperties
  <2>. QED BY <1>1, <2>2
<1>4. /\ u \in Seq(SyncCommand) /\ Len(u) = n - 1
      /\ \A k \in 1 .. n - 1 : u[k] = q[f(k)]
  <2>. DEFINE x == SubSeq(q, 1, i - 1)
              y == SubSeq(q, i + 1, n)
  <2>1. /\ x \o y \in Seq(SyncCommand) /\ Len(x \o y) = Len(x) + Len(y)
        /\ \A k \in 1 .. Len(x) + Len(y) : (x \o y)[k] = IF k <= Len(x) THEN x[k] ELSE y[k - Len(x)]
    BY <1>2, <1>3, ConcatProperties
  <2>2. u = x \o y
    BY DEF Without
  <2>. HIDE DEF x, y, u
  <2>3. /\ Len(x) = i - 1 /\ Len(y) = n - i
        /\ \A k \in 1 .. i - 1 : x[k] = q[k]
        /\ \A k \in 1 .. n - i : y[k] = q[i + k]
    BY <1>2, <1>3 DEF x, y
  <2>4. ASSUME NEW k \in 1 .. n - 1 PROVE u[k] = q[f(k)]
    <3>1. CASE k < i
      BY <1>1, <2>1, <2>2, <2>3, <3>1
    <3>2. CASE k >= i
      <4>1. k - (i - 1) \in 1 .. n - i /\ i + (k - (i - 1)) = k + 1
        BY <1>1, <3>2
      <4>2. u[k] = y[k - (i - 1)]
        BY <1>1, <2>1, <2>2, <2>3, <3>2
      <4>3. y[k - (i - 1)] = q[i + (k - (i - 1))]
        BY <2>3, <4>1
      <4>. QED BY <1>1, <3>2, <4>1, <4>2, <4>3
    <3>. QED BY <1>1, <3>1, <3>2
  <2>. QED BY <1>1, <2>1, <2>2, <2>3, <2>4
<1>5. u \in Seq(Command)
  BY <1>4, SeqMonotonic DEF Command
<1>. HIDE DEF u
<1>6. /\ Len(a) = n - 1 + m
      /\ \A k \in 1 .. n - 1 + m : a[k] = IF k <= n - 1 THEN u[k] ELSE s[k - (n - 1)]
  <2>1. /\ u \o s \in Seq(Command) /\ Len(u \o s) = Len(u) + Len(s)
        /\ \A k \in 1 .. Len(u) + Len(s) :
             (u \o s)[k] = IF k <= Len(u) THEN u[k] ELSE s[k - Len(u)]
    BY <1>5, ConcatProperties
  <2>2. Len(u) = n - 1 /\ m = Len(s)
    BY <1>4
  <2>. HIDE DEF n, m
  <2>. QED BY <2>1, <2>2
<1>7. /\ Len(b) = n + m
      /\ \A k \in 1 .. n + m : b[k] = IF k <= n THEN q[k] ELSE s[k - n]
  BY <1>1, ConcatProperties
<1>. HIDE DEF n, m, a, b
<1>8. i \in 1 .. n
  BY DEF n
<1>9. \A k \in 1 .. Len(a) : f(k) \in 1 .. Len(b) /\ a[k] = b[f(k)]
  <2>. SUFFICES ASSUME NEW k \in 1 .. Len(a) PROVE f(k) \in 1 .. Len(b) /\ a[k] = b[f(k)]
    OBVIOUS
  <2>1. CASE k <= n - 1
    <3>1. f(k) \in 1 .. n
      BY <1>1, <1>6, <1>8, <2>1
    <3>2. a[k] = q[f(k)]
      BY <1>1, <1>4, <1>6, <2>1
    <3>3. b[f(k)] = q[f(k)]
      BY <1>1, <1>7, <3>1
    <3>. QED BY <1>1, <1>7, <3>1, <3>2, <3>3
  <2>2. CASE k > n - 1
    <3>1. f(k) = k + 1 /\ k + 1 \in 1 .. n + m /\ k - (n - 1) = k + 1 - n
      BY <1>1, <1>6, <1>8, <2>2
    <3>2. a[k] = s[k + 1 - n]
      BY <1>1, <1>6, <2>2, <3>1
    <3>3. b[k + 1] = s[k + 1 - n]
      BY <1>1, <1>7, <2>2, <3>1
    <3>. QED BY <1>7, <3>1, <3>2, <3>3
  <2>. QED BY <1>1, <1>6, <2>1, <2>2
<1>10. b[i] = q[i] /\ i \in 1 .. Len(b)
  BY <1>1, <1>7, <1>8
<1>11. ASSUME NEW d, Holds(b, d) PROVE d = q[i] \/ Holds(a, d)
  <2>1. PICK k \in 1 .. Len(b) : b[k] = d
    BY <1>11 DEF Holds
  <2>2. CASE k = i
    BY <1>10, <2>1, <2>2
  <2>3. CASE k < i
    <3>1. k \in 1 .. Len(a) /\ f(k) = k
      BY <1>1, <1>6, <1>8, <2>3
    <3>. QED BY <1>9, <2>1, <3>1 DEF Holds
  <2>4. CASE k > i
    <3>1. k - 1 \in 1 .. Len(a) /\ f(k - 1) = k
      BY <1>1, <1>6, <1>7, <1>8, <2>4
    <3>. QED BY <1>9, <2>1, <3>1 DEF Holds
  <2>. QED BY <1>1, <1>7, <1>8, <2>2, <2>3, <2>4
<1>12. ASSUME NEW d, Holds(a, d) PROVE Holds(b, d)
  BY <1>9, <1>12 DEF Holds
<1>13. ASSUME Sorted(b) PROVE Sorted(a)
  <2>. SUFFICES ASSUME NEW k \in 1 .. Len(a), NEW l \in 1 .. Len(a), k < l
                PROVE  Before(a[k], a[l])
    BY DEF Sorted
  <2>1. f(k) < f(l)
    BY <1>1, <1>6, <1>8
  <2>. QED BY <1>9, <1>13, <2>1 DEF Sorted
<1>14. ASSUME Sorted(b), NEW d, Holds(a, d) PROVE
         /\ Before(q[i], d) \/ Before(d, q[i])
         /\ i = 1 => Before(q[i], d)
  <2>1. PICK k \in 1 .. Len(a) : a[k] = d
    BY <1>14 DEF Holds
  <2>2. f(k) \in 1 .. Len(b) /\ b[f(k)] = d /\ k \in Int /\ i \in Int
    BY <1>1, <1>6, <1>8, <1>9, <2>1
  <2>3. CASE k < i
    <3>1. f(k) < i /\ i # 1
      BY <1>1, <1>6, <1>8, <2>3
    <3>. QED BY <1>10, <1>14, <2>2, <3>1 DEF Sorted
  <2>4. CASE ~(k < i)
    <3>1. i < f(k)
      BY <2>2, <2>4
    <3>. QED BY <1>10, <1>14, <2>2, <3>1 DEF Sorted
  <2>. QED BY <2>3, <2>4
<1>. QED BY <1>4, <1>11, <1>12, <1>13, <1>14 DEF u, a, b

(* A line is the queue and then the stream.                                *)
LEMMA Parts ==
  ASSUME NEW q \in Seq(Command), NEW s \in Seq(Command)
  PROVE  /\ q \o s \in Seq(Command)
         /\ \A d : Holds(q \o s, d) <=> Holds(q, d) \/ Holds(s, d)
         /\ Sorted(q \o s) => Sorted(q) /\ Sorted(s)
<1>. DEFINE n == Len(q)
            m == Len(s)
            b == q \o s
<1>1. /\ n \in Nat /\ m \in Nat
  BY LenProperties
<1>2. /\ b \in Seq(Command) /\ Len(b) = n + m
      /\ \A k \in 1 .. n + m : b[k] = IF k <= n THEN q[k] ELSE s[k - n]
  BY ConcatProperties
<1>. HIDE DEF b, n, m
<1>3. \A k \in 1 .. n : k \in 1 .. Len(b) /\ b[k] = q[k]
  BY <1>1, <1>2
<1>4. \A k \in 1 .. m : n + k \in 1 .. Len(b) /\ b[n + k] = s[k]
  <2>. SUFFICES ASSUME NEW k \in 1 .. m PROVE n + k \in 1 .. Len(b) /\ b[n + k] = s[k]
    OBVIOUS
  <2>1. n + k \in 1 .. n + m /\ ~(n + k <= n) /\ n + k - n = k
    BY <1>1
  <2>2. ASSUME NEW p, p = n + k PROVE b[p] = s[k]
    <3>1. p \in 1 .. n + m /\ ~(p <= n) /\ p - n = k
      BY <1>1, <2>1, <2>2
    <3>2. b[p] = s[p - n]
      BY <1>2, <3>1
    <3>. QED BY <3>1, <3>2
  <2>. QED BY <1>2, <2>1, <2>2
<1>5. \A d : Holds(b, d) => Holds(q, d) \/ Holds(s, d)
  <2>. SUFFICES ASSUME NEW d, NEW k \in 1 .. Len(b), b[k] = d PROVE Holds(q, d) \/ Holds(s, d)
    BY DEF Holds
  <2>1. CASE k <= n
    BY <1>1, <1>2, <2>1 DEF Holds, n
  <2>2. CASE k > n
    <3>1. k - n \in 1 .. m
      BY <1>1, <1>2, <2>2
    <3>. QED BY <1>1, <1>2, <2>2, <3>1 DEF Holds, m
  <2>. QED BY <1>1, <1>2, <2>1, <2>2
<1>6. \A d : Holds(q, d) \/ Holds(s, d) => Holds(b, d)
  BY <1>3, <1>4 DEF Holds, n, m
<1>7. ASSUME Sorted(b) PROVE Sorted(q)
  BY <1>3, <1>7 DEF Sorted, n
<1>8. ASSUME Sorted(b) PROVE Sorted(s)
  <2>. SUFFICES ASSUME NEW i \in 1 .. m, NEW j \in 1 .. m, i < j
                PROVE  Before(s[i], s[j])
    BY DEF Sorted, m
  <2>1. n + i < n + j
    BY <1>1
  <2>. QED BY <1>4, <1>8, <2>1 DEF Sorted
<1>. QED BY <1>2, <1>5, <1>6, <1>7, <1>8 DEF b

(* The end of the stream is the end of the line.                           *)
LEMMA JoinsParts ==
  ASSUME NEW q \in Seq(Command), NEW s \in Seq(Command), NEW c \in Command
  PROVE  /\ q \o (s \o <<c>>) = (q \o s) \o <<c>>
         /\ s \o <<c>> \in Seq(Command)
<1>. DEFINE u == <<c>>
<1>1. u \in Seq(Command)
  OBVIOUS
<1>. HIDE DEF u
<1>2. (q \o s) \o u = q \o (s \o u) /\ s \o u \in Seq(Command)
  BY <1>1, ConcatAssociative, ConcatProperties
<1>. QED BY <1>2 DEF u

(* The WST takes the transfer, or the round that came first.               *)
LEMMA NextTask ==
  ASSUME NEW q \in Seq(SyncCommand), q # <<>>, Sorted(q)
  PROVE  /\ next_task(q) \in 1 .. Len(q)
         /\ q[next_task(q)].type = "R2R" =>
              next_task(q) = 1 /\ \A j \in 1 .. Len(q) : q[j].type = "R2R"
<1>. DEFINE first(i) == \A j \in DOMAIN q \ {i} :
                          IF q[i].type = q[j].type THEN i < j ELSE q[i].type = "P2R"
<1>1. /\ DOMAIN q = 1 .. Len(q) /\ Len(q) \in Nat \ {0}
      /\ \A i \in 1 .. Len(q) : q[i].type \in {"P2R", "R2R"}
  <2>1. DOMAIN q = 1 .. Len(q) /\ Len(q) \in Nat \ {0}
    BY LenProperties, EmptySeq
  <2>2. \A i \in 1 .. Len(q) : q[i] \in SyncCommand
    BY ElementOfSeq
  <2>3. \A c \in SyncCommand : c.type \in {"P2R", "R2R"}
    BY DEF SyncCommand
  <2>. QED BY <2>1, <2>2, <2>3
<1>2. \E i \in DOMAIN q : first(i)
  <2>1. CASE \E i \in 1 .. Len(q) : q[i].type = "P2R"
    <3>1. PICK i \in 1 .. Len(q) : q[i].type = "P2R"
      BY <2>1
    <3>2. \A j \in 1 .. Len(q) \ {i} : q[j].type # "P2R"
      <4>. SUFFICES ASSUME NEW j \in 1 .. Len(q), j # i, q[j].type = "P2R" PROVE FALSE
        OBVIOUS
      <4>1. i < j \/ j < i
        OBVIOUS
      <4>. QED BY <3>1, <4>1 DEF Sorted, Before
    <3>. QED BY <1>1, <3>1, <3>2
  <2>2. CASE \A i \in 1 .. Len(q) : q[i].type # "P2R"
    <3>1. 1 \in DOMAIN q /\ \A j \in DOMAIN q \ {1} : 1 < j
      BY <1>1
    <3>. QED BY <1>1, <2>2, <3>1
  <2>. QED BY <2>1, <2>2
<1>3. next_task(q) \in DOMAIN q /\ first(next_task(q))
  BY <1>2 DEF next_task
<1>. DEFINE t == next_task(q)
<1>. HIDE DEF t
<1>4. t \in 1 .. Len(q) /\ first(t)
  BY <1>1, <1>3 DEF t
<1>5. ASSUME q[t].type = "R2R"
      PROVE  t = 1 /\ \A j \in 1 .. Len(q) : q[j].type = "R2R"
  <2>1. \A j \in 1 .. Len(q) : j # t => q[j].type = "R2R" /\ t < j
    BY <1>1, <1>4, <1>5
  <2>2. 1 \in 1 .. Len(q)
    BY <1>1
  <2>. QED BY <1>4, <1>5, <2>1, <2>2
<1>. QED BY <1>4, <1>5 DEF t

(* STOP, at the head of the stream, is all that is left of it.             *)
LEMMA StopsLine ==
  ASSUME NEW q \in Seq(Command), NEW s \in Seq(Command), s # <<>>,
         Head(s).type = "STOP", Sorted(q \o s)
  PROVE  /\ Tail(s) = <<>>
         /\ Sorted(q \o Tail(s))
         /\ \A k : /\ Holds(q \o Tail(s), Round(k)) <=> Holds(q \o s, Round(k))
                   /\ Holds(q \o Tail(s), Transfer(k)) <=> Holds(q \o s, Transfer(k))
<1>1. /\ Len(s) \in Nat \ {0} /\ Head(s) = s[1] /\ Tail(s) \in Seq(Command)
      /\ Len(Tail(s)) = Len(s) - 1
  BY EmptySeq, HeadTailProperties, LenProperties
<1>2. Sorted(q) /\ Sorted(s) /\ \A d : Holds(q \o s, d) <=> Holds(q, d) \/ Holds(s, d)
  BY Parts
<1>3. Len(s) = 1
  <2>. SUFFICES ASSUME Len(s) > 1 PROVE FALSE
    BY <1>1
  <2>1. 1 \in 1 .. Len(s) /\ 2 \in 1 .. Len(s)
    BY <1>1
  <2>2. Before(s[1], s[2])
    BY <1>2, <2>1 DEF Sorted
  <2>. QED BY <1>1, <2>2 DEF Before
<1>4. Tail(s) = <<>>
  <2>. DEFINE u == Tail(s)
  <2>1. u \in Seq(Command) /\ Len(u) = 0
    BY <1>1, <1>3
  <2>. HIDE DEF u
  <2>2. u # <<>> => Len(u) \in Nat \ {0}
    BY <2>1, EmptySeq
  <2>3. u = <<>>
    BY <2>1, <2>2
  <2>. QED BY <2>3 DEF u
<1>5. q \o Tail(s) = q
  BY <1>4, ConcatEmptySeq
<1>6. \A d : Holds(s, d) => d.type = "STOP"
  BY <1>1, <1>3 DEF Holds
<1>7. \A k : Round(k).type # "STOP" /\ Transfer(k).type # "STOP"
  BY DEF Round, Transfer
<1>. QED BY <1>2, <1>4, <1>5, <1>6, <1>7

-----------------------------------------------------------------------------
(* Steps that leave what is to be executed alone *)
(* A transfer is enqueued at the end of the GPU's stream.                  *)
LEMMA Enqueued ==
  ASSUME NEW s \in Seq(SyncCommand), NEW c \in SyncCommand
  PROVE  /\ Append(s, c) \in Seq(SyncCommand) /\ Append(s, c) # <<>>
         /\ Len(Append(s, c)) = Len(s) + 1 /\ Len(s) \in Nat
         /\ \A i \in 1 .. Len(s) : Append(s, c)[i] = s[i]
         /\ Append(s, c)[Len(s) + 1] = c
         /\ s # <<>> => Append(s, c)[1] = s[1]
         /\ \A d : Holds(Append(s, c), d) <=> Holds(s, d) \/ d = c
<1>. DEFINE t == Append(s, c)
<1>1. /\ t \in Seq(SyncCommand) /\ Len(t) = Len(s) + 1 /\ Len(s) \in Nat
      /\ \A i \in 1 .. Len(s) : t[i] = s[i]
      /\ t[Len(s) + 1] = c
  BY AppendProperties, LenProperties
<1>. HIDE DEF t
<1>2. t # <<>>
  <2>1. Len(t) # 0
    BY <1>1
  <2>. QED BY <2>1, EmptySeq
<1>3. s # <<>> => t[1] = s[1]
  <2>1. s # <<>> => Len(s) \in Nat \ {0}
    BY EmptySeq, LenProperties
  <2>. QED BY <1>1, <2>1
<1>4. ASSUME NEW d, Holds(t, d) PROVE Holds(s, d) \/ d = c
  <2>1. PICK i \in 1 .. Len(t) : t[i] = d
    BY <1>4 DEF Holds
  <2>2. CASE i = Len(s) + 1
    BY <1>1, <2>1, <2>2
  <2>3. CASE i # Len(s) + 1
    <3>1. i \in 1 .. Len(s)
      BY <1>1, <2>1, <2>3
    <3>. QED BY <1>1, <2>1, <3>1 DEF Holds
  <2>. QED BY <2>2, <2>3
<1>5. ASSUME NEW d, Holds(s, d) \/ d = c PROVE Holds(t, d)
  <2>1. 1 .. Len(s) \subseteq 1 .. Len(t) /\ Len(s) + 1 \in 1 .. Len(t)
    BY <1>1
  <2>. QED BY <1>1, <1>5, <2>1 DEF Holds
<1>. QED BY <1>1, <1>2, <1>3, <1>4, <1>5 DEF t

(* It leaves the stream at its head.                                       *)
LEMMA Dequeued ==
  ASSUME NEW s \in Seq(SyncCommand), s # <<>>
  PROVE  /\ Tail(s) \in Seq(SyncCommand) /\ Head(s) = s[1] /\ Head(s) \in SyncCommand
         /\ Len(s) \in Nat \ {0} /\ Len(Tail(s)) = Len(s) - 1
         /\ \A i \in 1 .. Len(s) - 1 : Tail(s)[i] = s[i + 1] /\ i + 1 \in 1 .. Len(s)
         /\ \A d : Holds(s, d) <=> Holds(Tail(s), d) \/ d = s[1]
<1>. DEFINE t == Tail(s)
<1>1. /\ t \in Seq(SyncCommand) /\ Head(s) = s[1] /\ Head(s) \in SyncCommand
      /\ Len(s) \in Nat \ {0} /\ Len(t) = Len(s) - 1
      /\ \A i \in 1 .. Len(s) - 1 : t[i] = s[i + 1]
  BY EmptySeq, HeadTailProperties, LenProperties
<1>. HIDE DEF t
<1>2. \A i \in 1 .. Len(s) - 1 : i + 1 \in 1 .. Len(s)
  BY <1>1
<1>3. ASSUME NEW d, Holds(s, d) PROVE Holds(t, d) \/ d = s[1]
  <2>1. PICK i \in 1 .. Len(s) : s[i] = d
    BY <1>3 DEF Holds
  <2>2. CASE i # 1
    <3>1. i - 1 \in 1 .. Len(s) - 1 /\ (i - 1) + 1 = i
      BY <1>1, <2>1, <2>2
    <3>2. t[i - 1] = s[i]
      BY <1>1, <3>1
    <3>. QED BY <1>1, <2>1, <3>1, <3>2 DEF Holds
  <2>. QED BY <2>1, <2>2
<1>4. ASSUME NEW d, Holds(t, d) \/ d = s[1] PROVE Holds(s, d)
  <2>1. 1 \in 1 .. Len(s)
    BY <1>1
  <2>2. CASE Holds(t, d)
    <3>1. PICK i \in 1 .. Len(s) - 1 : t[i] = d
      BY <1>1, <2>2 DEF Holds
    <3>. QED BY <1>1, <1>2, <3>1 DEF Holds
  <2>. QED BY <1>4, <2>1, <2>2 DEF Holds
<1>. QED BY <1>1, <1>2, <1>3, <1>4 DEF t

-----------------------------------------------------------------------------
(* Steps that leave what is to be executed alone *)

(* What the type invariant says of a replica.                              *)
LEMMA Typed ==
  ASSUME TypeOK, NEW r \in Rollouts
  PROVE  /\ wstq[r] \in Seq(SyncCommand) /\ wstq[r] \in Seq(Command)
         /\ gpu[r] \in Seq(SyncCommand)
         /\ stream[r] \in Seq(Command) /\ line(r) \in Seq(Command)
         /\ exec[r] # None =>
              /\ exec[r] \in Task /\ exec[r].cmd \in SyncCommand
              /\ exec[r].cmd.step \in Steps /\ exec[r].cmd.step \in Nat
              /\ exec[r].cmd = Round(exec[r].cmd.step) \/ exec[r].cmd = Transfer(exec[r].cmd.step)
<1>1. /\ wstq[r] \in Seq(SyncCommand) /\ stream[r] \in Seq(Command)
      /\ gpu[r] \in Seq(SyncCommand)
  BY DEF TypeOK, Command
<1>2. wstq[r] \in Seq(Command)
  BY <1>1, SeqMonotonic DEF Command
<1>3. line(r) \in Seq(Command)
  BY <1>1, <1>2, Parts DEF line
<1>4. exec[r] # None => exec[r] \in Task /\ exec[r].cmd \in SyncCommand
  BY DEF TypeOK, Task
<1>5. /\ \A c \in SyncCommand : c.step \in Steps
      /\ \A c \in SyncCommand : c = Round(c.step) \/ c = Transfer(c.step)
  BY DEF SyncCommand, Round, Transfer
<1>6. \A k \in Steps : k \in Nat
  BY SyncAssumption DEF Steps
<1>7. exec[r] # None =>
        /\ exec[r].cmd.step \in Steps /\ exec[r].cmd.step \in Nat
        /\ exec[r].cmd = Round(exec[r].cmd.step) \/ exec[r].cmd = Transfer(exec[r].cmd.step)
  <2>. SUFFICES ASSUME exec[r] # None
                PROVE  /\ exec[r].cmd.step \in Steps /\ exec[r].cmd.step \in Nat
                       /\ \/ exec[r].cmd = Round(exec[r].cmd.step)
                          \/ exec[r].cmd = Transfer(exec[r].cmd.step)
    OBVIOUS
  <2>. DEFINE c == exec[r].cmd
  <2>1. c \in SyncCommand
    BY <1>4
  <2>. HIDE DEF c
  <2>2. c.step \in Steps /\ (c = Round(c.step) \/ c = Transfer(c.step))
    BY <1>5, <2>1
  <2>3. c.step \in Nat
    BY <1>6, <2>2
  <2>. QED BY <2>2, <2>3 DEF c
<1>. QED BY <1>1, <1>2, <1>3, <1>4, <1>7

(* What is compared is a number.                                           *)
LEMMA Numbers ==
  ASSUME TypeOK
  PROVE  /\ published \in Nat /\ received \in Nat /\ LastStep \in Nat
         /\ \A k \in Steps : k \in Nat
         /\ \A r \in Rollouts :
              /\ buffer[r] \in Int /\ buffer[r] >= -1
              /\ version[r] \in Nat /\ live[r] \in Int
              /\ copy[r] # None => copy[r] \in Int
              /\ moving[r] # None => moving[r] \in Int
<1>1. published \in Nat /\ received \in Nat /\ LastStep \in Nat
  BY SyncAssumption DEF TypeOK
<1>2. ASSUME NEW r \in Rollouts
      PROVE  /\ buffer[r] \in Int /\ buffer[r] >= -1
             /\ version[r] \in Nat /\ live[r] \in Int
             /\ copy[r] # None => copy[r] \in Int
             /\ moving[r] # None => moving[r] \in Int
  <2>1. /\ buffer[r] \in Steps \cup {Unsynced} /\ version[r] \in Steps
        /\ live[r] \in Steps \cup {Unsynced, Torn}
        /\ copy[r] \in Steps \cup {Unsynced, Torn, None}
        /\ moving[r] \in Steps \cup {Unsynced, None}
    BY DEF TypeOK
  <2>. QED BY <1>1, <2>1 DEF Steps, Unsynced, Torn
<1>3. \A k \in Steps : k \in Nat
  BY <1>1 DEF Steps
<1>. QED BY <1>1, <1>2, <1>3

(* A round is never a transfer.                                            *)
LEMMA Kinds ==
  \A k : /\ Round(k).type = "R2R" /\ Round(k).step = k
         /\ Transfer(k).type = "P2R" /\ Transfer(k).step = k
         /\ \A l : /\ Round(k) # Transfer(l) /\ (Round(k) = Round(l) => k = l)
                   /\ Transfer(k) = Transfer(l) => k = l
BY DEF Round, Transfer

(* The replica has the same syncs to execute after the step as before.     *)
Kept(r) ==
  /\ Sorted(line(r)')
  /\ \A k \in Steps :
       /\ Holds(line(r)', Round(k)) <=> Holds(line(r), Round(k))
       /\ Holds(line(r)', Transfer(k)) <=> Holds(line(r), Transfer(k))
       /\ Runs(r, k)' <=> Runs(r, k)
       /\ Unsent(r, k)' <=> Unsent(r, k)
  /\ gpu'[r] = gpu[r]
  /\ Receives(r)' <=> Receives(r)
  /\ Receives(r)' => exec'[r].cmd = exec[r].cmd
  /\ exec'[r] # None =>
       /\ exec'[r].at \in P2RPhase => exec'[r].cmd.type = "P2R"
       /\ exec'[r].at \in R2RPhase => exec'[r].cmd.type = "R2R"

(* If this holds of every replica, so do the parts about what is pending.  *)
LEMMA LinesKept ==
  ASSUME Synchronised, \A r \in Rollouts : Kept(r),
         UNCHANGED <<published, received, version, buffer>>,
         \A r \in Rollouts : aborted[r] => aborted'[r]
  PROVE  Syncs'
<1>. USE DEF Synchronised, Syncs
<1>1. Lines'
  BY DEF Lines, Kept
<1>2. \A r \in Rollouts : \A k \in Steps : Pends(r, k)' <=> Pends(r, k)
  BY DEF Kept, Pends
<1>3. Versions'
  BY <1>2 DEF Versions
<1>4. Sends'
  BY SyncAssumption DEF Sends, Kept, OnItsWay
<1>5. Complete'
  BY <1>2 DEF Complete, Kept
<1>6. Newest'
  BY DEF Newest
<1>7. Streams'
  BY SyncAssumption DEF Streams, Kept, OnItsWay
<1>. QED BY <1>1, <1>3, <1>4, <1>5, <1>6, <1>7

(* So do the others when nothing moves.                                    *)
LEMMA QueuesKept ==
  ASSUME Synchronised, \A r \in Rollouts : Kept(r),
         UNCHANGED <<published, received, buffer, version, moving>>,
         \A r \in Rollouts : aborted[r] => aborted'[r]
  PROVE  (Syncs /\ Moves)'
<1>1. Syncs'
  BY LinesKept
<1>2. Moves'
  BY DEF Synchronised, Moves, Kept
<1>. QED BY <1>1, <1>2

(* A task of which only the phase changes, and all that does not move.     *)
LEMMA PhaseKept ==
  ASSUME Synchronised, UNCHANGED <<stream, wstq>>, NEW r \in Rollouts, gpu'[r] = gpu[r],
         \/ exec'[r] = exec[r]
         \/ /\ exec[r] # None /\ exec'[r] # None /\ exec'[r].cmd = exec[r].cmd
            /\ exec'[r].at # "recv" /\ exec[r].at # "recv"
            /\ exec'[r].at \in {"event", "versioned"} <=> exec[r].at \in {"event", "versioned"}
            /\ exec'[r].at \in R2RPhase => exec[r].cmd.type = "R2R"
  PROVE  Kept(r)
<1>. USE DEF Synchronised, Syncs
<1>1. line(r)' = line(r)
  BY DEF line
<1>2. \A k \in Steps : Runs(r, k)' <=> Runs(r, k)
  BY DEF Runs
<1>3. /\ Receives(r)' <=> Receives(r)
      /\ Receives(r)' => exec'[r].cmd = exec[r].cmd
  BY DEF Receives
<1>4. exec'[r] # None =>
        /\ exec'[r].at \in P2RPhase => exec'[r].cmd.type = "P2R"
        /\ exec'[r].at \in R2RPhase => exec'[r].cmd.type = "R2R"
  BY DEF Lines, P2RPhase
<1>5. \A k \in Steps : Unsent(r, k)' <=> Unsent(r, k)
  BY <1>1, <1>2 DEF Unsent, Sent
<1>. QED BY <1>1, <1>2, <1>3, <1>4, <1>5 DEF Kept, Lines

-----------------------------------------------------------------------------
(* The main thread *)

(* The copy waits for the event of the weights announced, if recorded.     *)
LEMMA SyncBufferToLiveStep ==
  ASSUME Synchronised, NEW r \in Rollouts, SyncBufferToLive(r)
  PROVE  Synchronised'
<1>. USE DEF Synchronised
<1>1. /\ UNCHANGED <<stream, wstq, exec, gpu, moving, published, received, buffer, version>>
      /\ \A q \in Rollouts : aborted[q] => aborted'[q]
  BY DEF SyncBufferToLive, TypeOK, gpuVars, wstVars
<1>2. (Syncs /\ Moves)'
  BY <1>1, PhaseKept, QueuesKept
<1>. DEFINE new == buffer_version[r] > synced_version[r]
            taken == wait_event(r)
<1>3. /\ waits' = IF new THEN [waits EXCEPT ![r] = taken] ELSE waits
      /\ unordered' = IF new THEN [unordered EXCEPT ![r] = (event[r] = None)] ELSE unordered
      /\ synced_version' = IF new THEN [synced_version EXCEPT ![r] = buffer_version[r]]
                                  ELSE synced_version
      /\ mpc' = [mpc EXCEPT ![r] = "stamping"] /\ weight_synced[r] /\ mpc[r] = "loop"
      /\ UNCHANGED <<published, stream, wstq, exec, wst_stop, aborted, redisVars, gpuVars, wstVars,
                     stop_queued, stamp>>
  BY DEF SyncBufferToLive
<1>4. /\ taken \in Nat /\ taken # None
      /\ event[r] # None => taken = event[r]
  BY SyncAssumption DEF TypeOK, wait_event
<1>. HIDE DEF new, taken
<1>5. TypeOK'
  <2>1. /\ waits' \in [Rollouts -> Nat \cup {None}] /\ unordered' \in [Rollouts -> BOOLEAN]
        /\ synced_version' \in [Rollouts -> Nat]
    BY <1>3, <1>4 DEF TypeOK
  <2>. QED BY <1>3, <2>1 DEF TypeOK, redisVars, gpuVars, wstVars
<1>6. Stops'
  BY <1>3 DEF TypeOK, Stops, gpuVars
<1>7. Serves'
  <2>. SUFFICES ASSUME NEW q \in Rollouts \ {Leader}, ~unordered'[q]
                PROVE  /\ waits'[q] # None => waits'[q] > 0 \/ buffer[q] >= 0
                       /\ copy[q] # Unsynced
                       /\ mpc'[q] \in {"stamping", "generating"} \/ synced_version'[q] > 0 =>
                            waits'[q] # None \/ copy[q] # None \/ live[q] # Unsynced
    BY <1>3 DEF Serves, gpuVars, wstVars
  <2>1. CASE q # r
    BY <1>3, <2>1 DEF TypeOK, Serves
  <2>2. CASE q = r /\ new
    <3>1. waits'[q] = taken /\ event[q] # None /\ copy[q] = None
      BY <1>3, <2>2 DEF TypeOK, Copies
    <3>. QED BY <1>4, <2>2, <3>1, SyncAssumption DEF Unsynced, Serves
  <2>3. CASE q = r /\ ~new
    <3>1. /\ waits'[q] = waits[q] /\ synced_version[q] > 0 /\ ~unordered[q]
          /\ synced_version'[q] = synced_version[q]
      BY <1>3, <2>3 DEF TypeOK, Serves, new
    <3>. QED BY <3>1 DEF Serves
  <2>. QED BY <2>1, <2>2, <2>3
<1>8. Copies'
  BY <1>3 DEF Copies, TypeOK, gpuVars
<1>. QED BY <1>2, <1>5, <1>6, <1>7, <1>8

(* Stamping moves the main thread only.                                    *)
LEMMA StampPayloadsStep ==
  ASSUME Synchronised, NEW r \in Rollouts, StampPayloads(r)
  PROVE  Synchronised'
<1>. USE DEF Synchronised
<1>1. /\ UNCHANGED <<stream, wstq, exec, gpu, moving, published, received, buffer, version>>
      /\ \A q \in Rollouts : aborted[q] => aborted'[q]
  BY DEF StampPayloads, TypeOK, gpuVars, wstVars
<1>2. (Syncs /\ Moves)'
  BY <1>1, PhaseKept, QueuesKept
<1>3. TypeOK'
  BY SyncAssumption DEF StampPayloads, TypeOK, redisVars, gpuVars, wstVars
<1>4. Stops'
  BY DEF StampPayloads, TypeOK, Stops, gpuVars
<1>5. Serves'
  BY SyncAssumption DEF StampPayloads, TypeOK, Serves, Unsynced, Torn, gpuVars, wstVars
<1>6. Copies'
  BY SyncAssumption DEF StampPayloads, TypeOK, Copies, Unsynced, Torn, Steps, gpuVars
<1>. QED BY <1>2, <1>3, <1>4, <1>5, <1>6

(* The generation ends with its copy made and the main thread goes on.     *)
LEMMA EndGenerationStep ==
  ASSUME Synchronised, NEW r \in Rollouts, EndGeneration(r)
  PROVE  Synchronised'
<1>. USE DEF Synchronised
<1>1. /\ UNCHANGED <<stream, wstq, exec, gpu, moving, published, received, buffer, version>>
      /\ \A q \in Rollouts : aborted[q] => aborted'[q]
  BY DEF EndGeneration, TypeOK, gpuVars, wstVars
<1>2. (Syncs /\ Moves)'
  BY <1>1, PhaseKept, QueuesKept
<1>3. TypeOK'
  BY SyncAssumption DEF EndGeneration, TypeOK, redisVars, gpuVars, wstVars, Generating
<1>4. Stops'
  BY DEF EndGeneration, TypeOK, Stops, gpuVars, Generating
<1>5. Serves'
  BY SyncAssumption DEF EndGeneration, TypeOK, Serves, Unsynced, Torn, gpuVars, wstVars, Generating
<1>6. Copies'
  BY SyncAssumption DEF EndGeneration, TypeOK, Copies, Unsynced, Torn, Steps, gpuVars, Generating
<1>. QED BY <1>2, <1>3, <1>4, <1>5, <1>6

(* The fence begins once STOP has been queued.                             *)
LEMMA HandleStopStep ==
  ASSUME Synchronised, NEW r \in Rollouts, HandleStop(r)
  PROVE  Synchronised'
<1>. USE DEF Synchronised
<1>1. /\ UNCHANGED <<stream, wstq, exec, gpu, moving, published, received, buffer, version>>
      /\ \A q \in Rollouts : aborted[q] => aborted'[q]
  BY DEF HandleStop, TypeOK, gpuVars, wstVars
<1>2. (Syncs /\ Moves)'
  BY <1>1, PhaseKept, QueuesKept
<1>3. TypeOK'
  BY SyncAssumption DEF HandleStop, TypeOK, redisVars, gpuVars, wstVars
<1>4. Stops'
  BY DEF HandleStop, TypeOK, Stops, gpuVars
<1>5. Serves'
  BY SyncAssumption DEF HandleStop, TypeOK, Serves, Unsynced, Torn, gpuVars, wstVars
<1>6. Copies'
  BY SyncAssumption DEF HandleStop, TypeOK, Copies, Unsynced, Torn, Steps, gpuVars
<1>. QED BY <1>2, <1>3, <1>4, <1>5, <1>6

(* The fence succeeds with nothing left to execute.                        *)
LEMMA FenceDoneStep ==
  ASSUME Synchronised, NEW r \in Rollouts, FenceDone(r)
  PROVE  Synchronised'
<1>. USE DEF Synchronised
<1>1. /\ UNCHANGED <<stream, wstq, exec, gpu, moving, published, received, buffer, version>>
      /\ \A q \in Rollouts : aborted[q] => aborted'[q]
  BY DEF FenceDone, TypeOK, gpuVars, wstVars
<1>2. (Syncs /\ Moves)'
  BY <1>1, PhaseKept, QueuesKept
<1>3. TypeOK'
  BY SyncAssumption DEF FenceDone, TypeOK, redisVars, gpuVars, wstVars, Drained
<1>4. Stops'
  BY DEF FenceDone, TypeOK, Stops, gpuVars, Drained
<1>5. Serves'
  BY SyncAssumption DEF FenceDone, TypeOK, Serves, Unsynced, Torn, gpuVars, wstVars, Drained
<1>6. Copies'
  BY SyncAssumption DEF FenceDone, TypeOK, Copies, Unsynced, Torn, Steps, gpuVars, Drained
<1>. QED BY <1>2, <1>3, <1>4, <1>5, <1>6

(* The fence gives up and aborts.                                          *)
LEMMA FenceTimeoutStep ==
  ASSUME Synchronised, NEW r \in Rollouts, FenceTimeout(r)
  PROVE  Synchronised'
<1>. USE DEF Synchronised
<1>1. /\ UNCHANGED <<stream, wstq, exec, gpu, moving, published, received, buffer, version>>
      /\ \A q \in Rollouts : aborted[q] => aborted'[q]
  BY DEF FenceTimeout, TypeOK, gpuVars, wstVars
<1>2. (Syncs /\ Moves)'
  BY <1>1, PhaseKept, QueuesKept
<1>3. TypeOK'
  BY SyncAssumption DEF FenceTimeout, TypeOK, redisVars, gpuVars, wstVars, Drained
<1>4. Stops'
  BY DEF FenceTimeout, TypeOK, Stops, gpuVars, Drained
<1>5. Serves'
  BY SyncAssumption DEF FenceTimeout, TypeOK, Serves, Unsynced, Torn, gpuVars, wstVars, Drained
<1>6. Copies'
  BY SyncAssumption DEF FenceTimeout, TypeOK, Copies, Unsynced, Torn, Steps, gpuVars, Drained
<1>. QED BY <1>2, <1>3, <1>4, <1>5, <1>6

(* The thread has ended.                                                   *)
LEMMA JoinDoneStep ==
  ASSUME Synchronised, NEW r \in Rollouts, JoinDone(r)
  PROVE  Synchronised'
<1>. USE DEF Synchronised
<1>1. /\ UNCHANGED <<stream, wstq, exec, gpu, moving, published, received, buffer, version>>
      /\ \A q \in Rollouts : aborted[q] => aborted'[q]
  BY DEF JoinDone, TypeOK, gpuVars, wstVars
<1>2. (Syncs /\ Moves)'
  BY <1>1, PhaseKept, QueuesKept
<1>3. TypeOK'
  BY SyncAssumption DEF JoinDone, TypeOK, redisVars, gpuVars, wstVars
<1>4. Stops'
  BY DEF JoinDone, TypeOK, Stops, gpuVars
<1>5. Serves'
  BY SyncAssumption DEF JoinDone, TypeOK, Serves, Unsynced, Torn, gpuVars, wstVars
<1>6. Copies'
  BY SyncAssumption DEF JoinDone, TypeOK, Copies, Unsynced, Torn, Steps, gpuVars
<1>. QED BY <1>2, <1>3, <1>4, <1>5, <1>6

(* The thread is left behind, aborted.                                     *)
LEMMA JoinTimeoutStep ==
  ASSUME Synchronised, NEW r \in Rollouts, JoinTimeout(r)
  PROVE  Synchronised'
<1>. USE DEF Synchronised
<1>1. /\ UNCHANGED <<stream, wstq, exec, gpu, moving, published, received, buffer, version>>
      /\ \A q \in Rollouts : aborted[q] => aborted'[q]
  BY DEF JoinTimeout, TypeOK, gpuVars, wstVars
<1>2. (Syncs /\ Moves)'
  BY <1>1, PhaseKept, QueuesKept
<1>3. TypeOK'
  BY SyncAssumption DEF JoinTimeout, TypeOK, redisVars, gpuVars, wstVars
<1>4. Stops'
  BY DEF JoinTimeout, TypeOK, Stops, gpuVars
<1>5. Serves'
  BY SyncAssumption DEF JoinTimeout, TypeOK, Serves, Unsynced, Torn, gpuVars, wstVars
<1>6. Copies'
  BY SyncAssumption DEF JoinTimeout, TypeOK, Copies, Unsynced, Torn, Steps, gpuVars
<1>. QED BY <1>2, <1>3, <1>4, <1>5, <1>6

(* A replica that dies leaves its state behind.                            *)
LEMMA CrashStep ==
  ASSUME Synchronised, NEW r \in Rollouts, Crash(r)
  PROVE  Synchronised'
<1>. USE DEF Synchronised
<1>1. /\ UNCHANGED <<stream, wstq, exec, gpu, moving, published, received, buffer, version>>
      /\ \A q \in Rollouts : aborted[q] => aborted'[q]
  BY DEF Crash, TypeOK, gpuVars, wstVars
<1>2. (Syncs /\ Moves)'
  BY <1>1, PhaseKept, QueuesKept
<1>3. TypeOK'
  BY SyncAssumption DEF Crash, TypeOK, redisVars, gpuVars, wstVars
<1>4. Stops'
  BY DEF Crash, TypeOK, Stops, gpuVars
<1>5. Serves'
  BY SyncAssumption DEF Crash, TypeOK, Serves, Unsynced, Torn, gpuVars, wstVars
<1>6. Copies'
  BY SyncAssumption DEF Crash, TypeOK, Copies, Unsynced, Torn, Steps, gpuVars
<1>. QED BY <1>2, <1>3, <1>4, <1>5, <1>6

-----------------------------------------------------------------------------
(* The GPU *)

(* A copy that has waited for its event reads received weights.            *)
LEMMA CopyStartStep ==
  ASSUME Synchronised, NEW r \in Rollouts, CopyStart(r)
  PROVE  Synchronised'
<1>. USE DEF Synchronised
<1>1. /\ UNCHANGED <<stream, wstq, exec, gpu, moving, published, received, buffer, version>>
      /\ \A q \in Rollouts : aborted[q] => aborted'[q]
  BY DEF CopyStart, TypeOK, wstVars
<1>2. (Syncs /\ Moves)'
  BY <1>1, PhaseKept, QueuesKept
<1>. DEFINE read == IF Writing(r) THEN Torn ELSE buffer[r]
<1>3. /\ waits[r] = 0 /\ waits' = [waits EXCEPT ![r] = None]
      /\ copy' = [copy EXCEPT ![r] = read]
      /\ read = Torn \/ read = buffer[r]
      /\ UNCHANGED <<published, stream, wstq, exec, wst_stop, aborted, redisVars, live, wstVars,
                     mainVars>>
  BY DEF CopyStart
<1>. HIDE DEF read
<1>4. /\ read \in Steps \cup {Unsynced, Torn} /\ read # None /\ read \in Int
  <2>1. read \in Steps \cup {Unsynced, Torn}
    BY <1>3 DEF TypeOK
  <2>2. read \in Int
    BY <2>1, Numbers DEF Unsynced, Torn
  <2>. QED BY <2>1, <2>2, SyncAssumption
<1>5. TypeOK'
  <2>1. /\ waits' \in [Rollouts -> Nat \cup {None}]
        /\ copy' \in [Rollouts -> Steps \cup {Unsynced, Torn, None}]
    BY <1>3, <1>4 DEF TypeOK
  <2>. QED BY <1>1, <1>3, <2>1 DEF TypeOK, redisVars, wstVars, mainVars
<1>6. Stops'
  BY <1>1, <1>3 DEF Stops, mainVars
<1>7. Serves'
  <2>. SUFFICES ASSUME NEW q \in Rollouts \ {Leader}, ~unordered[q]
                PROVE  /\ waits'[q] # None => waits'[q] > 0 \/ buffer[q] >= 0
                       /\ copy'[q] # Unsynced
                       /\ mpc[q] \in {"stamping", "generating"} \/ synced_version[q] > 0 =>
                            waits'[q] # None \/ copy'[q] # None \/ live[q] # Unsynced
    BY <1>1, <1>3 DEF Serves, wstVars, mainVars
  <2>1. CASE q # r
    BY <1>3, <2>1 DEF TypeOK, Serves
  <2>2. CASE q = r
    <3>1. copy'[q] = read /\ waits'[q] = None
      BY <1>3, <2>2 DEF TypeOK
    <3>2. buffer[q] >= 0
      BY <1>3, <2>2, SyncAssumption DEF Serves
    <3>. QED BY <1>3, <1>4, <2>2, <3>1, <3>2, Numbers DEF Torn, Unsynced
  <2>. QED BY <2>1, <2>2
<1>8. Copies'
  <2>. SUFFICES ASSUME NEW q \in Rollouts
                PROVE  /\ mpc[q] = "loop" => waits'[q] = None /\ copy'[q] = None
                       /\ copy'[q] # None =>
                            /\ copy'[q] <= buffer[q]
                            /\ copy'[q] # Torn /\ live[q] # Torn => live[q] <= copy'[q]
    BY <1>1, <1>3 DEF Copies, mainVars
  <2>1. CASE q # r
    BY <1>3, <2>1 DEF TypeOK, Copies
  <2>2. CASE q = r
    <3>1. copy'[q] = read /\ live[q] <= buffer[q] /\ buffer[q] \in Int /\ buffer[q] >= -1
      BY <1>3, <2>2, Numbers DEF TypeOK, Copies
    <3>2. mpc[q] # "loop"
      BY <1>3, <2>2, SyncAssumption DEF Copies
    <3>. QED BY <1>3, <2>2, <3>1, <3>2 DEF Torn
  <2>. QED BY <2>1, <2>2
<1>. QED BY <1>2, <1>5, <1>6, <1>7, <1>8

(* The copy becomes the live model.                                        *)
LEMMA CopyDoneStep ==
  ASSUME Synchronised, NEW r \in Rollouts, CopyDone(r)
  PROVE  Synchronised'
<1>. USE DEF Synchronised
<1>1. /\ UNCHANGED <<stream, wstq, exec, gpu, moving, published, received, buffer, version>>
      /\ \A q \in Rollouts : aborted[q] => aborted'[q]
  BY DEF CopyDone, TypeOK, wstVars
<1>2. (Syncs /\ Moves)'
  BY <1>1, PhaseKept, QueuesKept
<1>3. TypeOK'
  BY SyncAssumption DEF CopyDone, TypeOK, redisVars, wstVars, mainVars
<1>4. Stops'
  BY DEF CopyDone, TypeOK, Stops, mainVars
<1>5. Serves'
  <2>1. /\ copy[r] # None /\ live' = [live EXCEPT ![r] = copy[r]]
        /\ copy' = [copy EXCEPT ![r] = None]
        /\ UNCHANGED <<waits, wstVars, mainVars>>
    BY DEF CopyDone
  <2>. SUFFICES ASSUME NEW q \in Rollouts \ {Leader}, ~unordered[q]
                PROVE  /\ copy'[q] # Unsynced
                       /\ mpc[q] \in {"stamping", "generating"} \/ synced_version[q] > 0 =>
                            waits[q] # None \/ copy'[q] # None \/ live'[q] # Unsynced
    BY <1>1, <2>1 DEF Serves, wstVars, mainVars
  <2>2. CASE q # r
    BY <2>1, <2>2 DEF TypeOK, Serves
  <2>3. CASE q = r
    <3>1. copy'[q] = None /\ live'[q] = copy[q] /\ copy[q] # Unsynced
      BY <2>1, <2>3 DEF TypeOK, Serves
    <3>2. None # Unsynced
      BY SyncAssumption DEF Unsynced
    <3>. QED BY <3>1, <3>2
  <2>. QED BY <2>2, <2>3
<1>6. Copies'
  BY SyncAssumption DEF CopyDone, TypeOK, Copies, Unsynced, Torn, Steps, wstVars, mainVars
<1>. QED BY <1>2, <1>3, <1>4, <1>5, <1>6

(* A transfer that starts tears the copies it overlaps.                    *)
LEMMA Starts ==
  ASSUME Synchronised,
         UNCHANGED <<published, received, stream, wstq, exec, wst_stop, aborted, redisVars, gpu,
                     buffer, live, wstVars, waits, mainVars>>,
         moving' \in [Rollouts -> Steps \cup {Unsynced, None}],
         NEW w, OverlappingCopies(w), Moves'
  PROVE  Synchronised'
<1>. USE DEF Synchronised
<1>1. Syncs'
  BY PhaseKept, LinesKept DEF wstVars
<1>2. \A r \in Rollouts : copy'[r] = copy[r] \/ (copy[r] # None /\ copy'[r] = Torn)
  BY DEF OverlappingCopies
<1>3. TypeOK'
  <2>1. copy' \in [Rollouts -> Steps \cup {Unsynced, Torn, None}]
    BY DEF TypeOK, OverlappingCopies
  <2>. QED BY <2>1 DEF TypeOK, redisVars, wstVars, mainVars
<1>4. Stops'
  BY DEF Stops, mainVars
<1>5. Serves'
  BY <1>2, SyncAssumption DEF Serves, wstVars, mainVars, Torn, Unsynced
<1>6. Copies'
  BY <1>2, Numbers DEF Copies, mainVars, Torn
<1>. QED BY <1>1, <1>3, <1>4, <1>5, <1>6

(* The transfer from the policy brings the leader newer weights.           *)
LEMMA TransferStartStep ==
  ASSUME Synchronised, NEW r \in Rollouts, NEW s \in Steps, TransferStart(r, s)
  PROVE  Synchronised'
<1>. USE DEF Synchronised, Syncs
<1>1. /\ UNCHANGED <<published, received, stream, wstq, exec, wst_stop, aborted, redisVars, gpu,
                     buffer, live, wstVars, waits, mainVars>>
      /\ moving' = [moving EXCEPT ![r] = s] /\ OverlappingCopies({r})
      /\ gpu[r] # <<>> /\ Head(gpu[r]) = Transfer(s)
  BY DEF TransferStart, Ready, Transfer
<1>2. gpu[r][1] = Transfer(s) /\ Holds(gpu[r], Transfer(s))
  <2>1. gpu[r] \in Seq(SyncCommand)
    BY Typed
  <2>. QED BY <1>1, <2>1, Dequeued
<1>3. r = Leader /\ s = received /\ buffer[r] = received - 1
  BY <1>2 DEF Streams, OnItsWay, Newest
<1>4. /\ moving' \in [Rollouts -> Steps \cup {Unsynced, None}]
      /\ moving'[r] = s /\ \A q \in Rollouts : q # r => moving'[q] = moving[q]
  BY <1>1 DEF TypeOK
<1>5. Moves'
  <2>. SUFFICES ASSUME NEW q \in Rollouts, moving'[q] # None
                PROVE  /\ gpu[q] # <<>>
                       /\ gpu[q][1].type = "P2R" => moving'[q] = gpu[q][1].step
                       /\ gpu[q][1].type = "R2R" =>
                            gpu[q][1].step <= moving'[q] /\ moving'[q] <= buffer[Leader]
                       /\ buffer[q] <= moving'[q]
    BY <1>1 DEF Moves
  <2>1. CASE q # r
    BY <1>4, <2>1 DEF Moves
  <2>2. CASE q = r
    BY <1>1, <1>2, <1>3, <1>4, <2>2, Kinds, Numbers
  <2>. QED BY <2>1, <2>2
<1>. QED BY <1>1, <1>4, <1>5, Starts

(* The broadcast has come to the head of the leader's stream, behind the   *)
(* transfer of its weights: it brings every replica the newest there are.  *)
LEMMA BroadcastStartStep ==
  ASSUME Synchronised, NEW s \in Steps, BroadcastStart(s)
  PROVE  Synchronised'
<1>. USE DEF Synchronised, Syncs
<1>1. /\ UNCHANGED <<published, received, stream, wstq, exec, wst_stop, aborted, redisVars, gpu,
                     buffer, live, wstVars, waits, mainVars>>
      /\ moving' = [r \in Rollouts |-> buffer[Leader]]
      /\ OverlappingCopies(Rollouts \ {Leader})
      /\ \A r \in Rollouts : gpu[r] # <<>> /\ Head(gpu[r]) = Round(s)
  BY DEF BroadcastStart, Ready, Round, Source
<1>2. \A r \in Rollouts : gpu[r][1] = Round(s) /\ 1 \in 1 .. Len(gpu[r])
  <2>. SUFFICES ASSUME NEW r \in Rollouts PROVE gpu[r][1] = Round(s) /\ 1 \in 1 .. Len(gpu[r])
    OBVIOUS
  <2>1. gpu[r] \in Seq(SyncCommand)
    BY Typed
  <2>2. Len(gpu[r]) \in Nat \ {0} /\ Head(gpu[r]) = gpu[r][1]
    BY <1>1, <2>1, Dequeued
  <2>. QED BY <1>1, <2>2
<1>3. s < received
  <2>1. s < received \/ \E j \in 1 .. 1 - 1 : gpu[Leader][j] = Transfer(s)
    BY <1>2, SyncAssumption DEF Streams
  <2>. QED BY <2>1
<1>4. /\ s <= buffer[Leader] /\ buffer[Leader] \in Int
      /\ \A q \in Rollouts : buffer[q] <= buffer[Leader]
  BY <1>3, Numbers, SyncAssumption DEF Newest
<1>5. /\ moving' \in [Rollouts -> Steps \cup {Unsynced, None}]
      /\ \A q \in Rollouts : moving'[q] = buffer[Leader]
  BY <1>1, SyncAssumption DEF TypeOK
<1>6. Moves'
  <2>. SUFFICES ASSUME NEW q \in Rollouts
                PROVE  /\ gpu[q] # <<>>
                       /\ gpu[q][1].type = "P2R" => moving'[q] = gpu[q][1].step
                       /\ gpu[q][1].type = "R2R" =>
                            gpu[q][1].step <= moving'[q] /\ moving'[q] <= buffer[Leader]
                       /\ buffer[q] <= moving'[q]
    BY <1>1 DEF Moves
  <2>1. gpu[q][1] = Round(s) /\ moving'[q] = buffer[Leader] /\ gpu[q] # <<>>
    BY <1>1, <1>2, <1>5
  <2>. QED BY <1>4, <2>1, Kinds
<1>. QED BY <1>1, <1>5, <1>6, Starts

-----------------------------------------------------------------------------
(* The weight-sync thread *)

(* At the barrier only the phase changes.                                  *)
LEMMA BarrierStep ==
  ASSUME Synchronised, NEW r \in Rollouts,
         UNCHANGED <<stream, wstq, published, aborted, wst_stop, gpuVars, wstVars, waits, mainVars>>,
         exec[r] # None, exec[r].at \in {"barrier", "subscribe", "recheck", "wait"},
         NEW phase \in {"subscribe", "recheck", "wait", "go"},
         exec' = [exec EXCEPT ![r] = [exec[r] EXCEPT !.at = phase]],
         subscribed' \in [Steps -> SUBSET Rollouts], go' \in [Rollouts -> BOOLEAN],
         arrivals' \in [Steps -> Nat]
  PROVE  Synchronised'
<1>. USE DEF Synchronised
<1>1. /\ exec'[r] = [exec[r] EXCEPT !.at = phase] /\ exec[r] \in Task
      /\ \A q \in Rollouts : q # r => exec'[q] = exec[q]
  BY DEF TypeOK
<1>2. /\ exec'[r] \in Task /\ exec'[r].at = phase /\ exec'[r].cmd = exec[r].cmd
      /\ exec'[r] # None
  BY <1>1, NoneAssumption DEF Task, Phase, P2RPhase, R2RPhase
<1>3. exec[r].cmd.type = "R2R"
  BY DEF Syncs, Lines, R2RPhase
<1>4. gpu' = gpu
  BY DEF gpuVars
<1>5. \A q \in Rollouts : Kept(q)
  <2>1. ASSUME NEW q \in Rollouts, q # r PROVE Kept(q)
    BY <1>1, <1>4, <2>1, PhaseKept
  <2>2. Kept(r)
    BY <1>1, <1>2, <1>3, <1>4, PhaseKept
  <2>. QED BY <2>1, <2>2
<1>6. (Syncs /\ Moves)'
  BY <1>5, QueuesKept DEF gpuVars, wstVars
<1>7. TypeOK'
  <2>1. exec' \in [Rollouts -> Task \cup {None}]
    BY <1>1, <1>2 DEF TypeOK
  <2>. QED BY <2>1 DEF TypeOK, gpuVars, wstVars, mainVars
<1>8. Stops'
  BY <1>1, <1>2, <1>4 DEF Stops, mainVars
<1>9. Serves'
  BY <1>1, <1>2 DEF Serves, gpuVars, wstVars, mainVars
<1>10. Copies'
  BY DEF Copies, gpuVars, mainVars
<1>. QED BY <1>6, <1>7, <1>8, <1>9, <1>10

(* Arriving at the barrier is a matter of phases.                          *)
LEMMA BarrierArriveStep ==
  ASSUME Synchronised, NEW r \in Rollouts, BarrierArrive(r)
  PROVE  Synchronised'
<1>. USE DEF Synchronised
<1>1. /\ UNCHANGED <<stream, wstq, published, aborted, wst_stop, gpuVars, wstVars, waits, mainVars>>
      /\ exec[r] # None /\ exec[r].at \in {"barrier", "subscribe", "recheck"}
  BY DEF BarrierArrive, At
<1>2. PICK phase \in {"subscribe", "recheck", "wait", "go"} :
        exec' = [exec EXCEPT ![r] = [exec[r] EXCEPT !.at = phase]]
  BY DEF BarrierArrive, Goto
<1>3. /\ arrivals' \in [Steps -> Nat] /\ subscribed' \in [Steps -> SUBSET Rollouts]
      /\ go' \in [Rollouts -> BOOLEAN]
  <2>. DEFINE s == exec[r].cmd.step
  <2>1. /\ arrivals' = [arrivals EXCEPT ![s] = @ + 1] /\ subscribed' = subscribed
        /\ go' = [q \in Rollouts |-> go[q] \/ q \in subscribed[s]] \/ go' = go
    BY DEF BarrierArrive
  <2>. HIDE DEF s
  <2>2. go' \in [Rollouts -> BOOLEAN]
    BY <2>1 DEF TypeOK
  <2>3. s \in Steps
    BY <1>1 DEF TypeOK, Task, SyncCommand, s
  <2>4. arrivals' \in [Steps -> Nat]
    <3>1. arrivals \in [Steps -> Nat] /\ arrivals[s] + 1 \in Nat
      BY <2>3 DEF TypeOK
    <3>. QED BY <2>1, <2>3, <3>1
  <2>. QED BY <2>1, <2>2, <2>4 DEF TypeOK
<1>. QED BY <1>1, <1>2, <1>3, BarrierStep

(* So is subscribing to the channel.                                       *)
LEMMA BarrierSubscribeStep ==
  ASSUME Synchronised, NEW r \in Rollouts, BarrierSubscribe(r)
  PROVE  Synchronised'
<1>. USE DEF Synchronised
<1>1. /\ UNCHANGED <<stream, wstq, published, aborted, wst_stop, gpuVars, wstVars, waits, mainVars>>
      /\ exec[r] # None /\ exec[r].at \in {"barrier", "subscribe", "recheck"}
  BY DEF BarrierSubscribe, At
<1>2. PICK phase \in {"subscribe", "recheck", "wait", "go"} :
        exec' = [exec EXCEPT ![r] = [exec[r] EXCEPT !.at = phase]]
  BY DEF BarrierSubscribe, Goto
<1>3. /\ arrivals' \in [Steps -> Nat] /\ subscribed' \in [Steps -> SUBSET Rollouts]
      /\ go' \in [Rollouts -> BOOLEAN]
  BY DEF BarrierSubscribe, TypeOK
<1>. QED BY <1>1, <1>2, <1>3, BarrierStep

(* So is looking at the counter again.                                     *)
LEMMA BarrierRecheckStep ==
  ASSUME Synchronised, NEW r \in Rollouts, BarrierRecheck(r)
  PROVE  Synchronised'
<1>. USE DEF Synchronised
<1>1. /\ UNCHANGED <<stream, wstq, published, aborted, wst_stop, gpuVars, wstVars, waits, mainVars>>
      /\ exec[r] # None /\ exec[r].at \in {"barrier", "subscribe", "recheck"}
  BY DEF BarrierRecheck, At
<1>2. PICK phase \in {"subscribe", "recheck", "wait", "go"} :
        exec' = [exec EXCEPT ![r] = [exec[r] EXCEPT !.at = phase]]
  BY DEF BarrierRecheck, Goto
<1>3. /\ arrivals' \in [Steps -> Nat] /\ subscribed' \in [Steps -> SUBSET Rollouts]
      /\ go' \in [Rollouts -> BOOLEAN]
  <2>1. /\ arrivals' = arrivals
        /\ \/ UNCHANGED <<subscribed, go>>
           \/ /\ subscribed' = [s \in Steps |-> subscribed[s] \ {r}]
              /\ go' = [go EXCEPT ![r] = FALSE]
    BY DEF BarrierRecheck, LeaveBarrier
  <2>2. subscribed' \in [Steps -> SUBSET Rollouts]
    <3>1. \A s \in Steps : subscribed[s] \ {r} \in SUBSET Rollouts
      BY DEF TypeOK
    <3>. QED BY <2>1, <3>1 DEF TypeOK
  <2>3. go' \in [Rollouts -> BOOLEAN]
    BY <2>1 DEF TypeOK
  <2>. QED BY <2>1, <2>2, <2>3 DEF TypeOK
<1>. QED BY <1>1, <1>2, <1>3, BarrierStep

(* A replica that has been aborted may drop the task it executes.          *)
LEMMA GivesUp ==
  ASSUME Synchronised, NEW r \in Rollouts, aborted[r], TaskDone(r),
         UNCHANGED <<stream, wstq, published, aborted, wst_stop, gpuVars, wstVars, waits, mainVars>>,
         subscribed' \in [Steps -> SUBSET Rollouts], go' \in [Rollouts -> BOOLEAN],
         arrivals' \in [Steps -> Nat]
  PROVE  Synchronised'
<1>. USE DEF Synchronised, Syncs
<1>1. /\ exec'[r] = None
      /\ \A q \in Rollouts : q # r => exec'[q] = exec[q]
      /\ exec' \in [Rollouts -> Task \cup {None}]
  BY DEF TaskDone, TypeOK
<1>2. \A q \in Rollouts : line(q)' = line(q)
  BY DEF line
<1>3. /\ ~Receives(r)' /\ \A k : ~Runs(r, k)'
      /\ \A q \in Rollouts : q # r =>
           /\ Receives(q)' <=> Receives(q)
           /\ \A k : Runs(q, k)' <=> Runs(q, k)
           /\ Sent(q)' <=> Sent(q)
  BY <1>1 DEF Receives, Runs, Sent
<1>4. \A q \in Rollouts : \A k :
        /\ Pends(q, k)' => Pends(q, k)
        /\ q # r => (Pends(q, k)' <=> Pends(q, k)) /\ (Unsent(q, k)' <=> Unsent(q, k))
  BY <1>2, <1>3 DEF Pends, Unsent
<1>5. Lines'
  BY <1>1, <1>2, <1>3 DEF Lines
<1>6. Versions'
  BY <1>4 DEF Versions, wstVars
<1>7. Complete'
  BY <1>4 DEF Complete, gpuVars, wstVars
<1>8. Newest'
  BY DEF Newest, gpuVars
<1>9. Sends'
  BY <1>1, <1>2, <1>3, SyncAssumption DEF Sends, OnItsWay, gpuVars
<1>10. Streams'
  BY <1>2, <1>3, SyncAssumption DEF Streams, OnItsWay, gpuVars
<1>11. Moves'
  BY DEF Moves, gpuVars
<1>12. Stops'
  BY <1>1 DEF Stops, gpuVars, mainVars
<1>13. Serves'
  BY <1>1 DEF Serves, gpuVars, wstVars, mainVars
<1>14. Copies'
  BY DEF Copies, gpuVars, mainVars
<1>15. TypeOK'
  BY <1>1 DEF TypeOK, gpuVars, wstVars, mainVars
<1>. QED BY <1>5, <1>6, <1>7, <1>8, <1>9, <1>10, <1>11, <1>12, <1>13, <1>14, <1>15

(* An aborted communicator fails the transfer.                             *)
LEMMA TransferFailsStep ==
  ASSUME Synchronised, NEW r \in Rollouts, TransferFails(r)
  PROVE  Synchronised'
<1>1. /\ aborted[r] /\ TaskDone(r)
      /\ UNCHANGED <<published, stream, wstq, wst_stop, aborted, redisVars, gpuVars, wstVars,
                     waits, mainVars>>
  BY DEF TransferFails
<1>2. /\ subscribed' \in [Steps -> SUBSET Rollouts] /\ go' \in [Rollouts -> BOOLEAN]
      /\ arrivals' \in [Steps -> Nat]
  BY <1>1 DEF Synchronised, TypeOK, redisVars
<1>. QED BY <1>1, <1>2, GivesUp

(* A waiter is let through, or gives up after an abort.                    *)
LEMMA BarrierWaitStep ==
  ASSUME Synchronised, NEW r \in Rollouts, BarrierWait(r)
  PROVE  Synchronised'
<1>. USE DEF Synchronised
<1>1. /\ UNCHANGED <<published, stream, wstq, wst_stop, aborted, arrivals, gpuVars, wstVars,
                     waits, mainVars>>
      /\ exec[r] # None /\ exec[r].at = "wait"
      /\ LeaveBarrier(r)
      /\ Goto(r, "go") \/ (wst_stop[r] /\ TaskDone(r))
  BY DEF BarrierWait, At
<1>2. /\ subscribed' \in [Steps -> SUBSET Rollouts] /\ go' \in [Rollouts -> BOOLEAN]
      /\ arrivals' \in [Steps -> Nat]
  <2>1. \A s \in Steps : subscribed[s] \ {r} \in SUBSET Rollouts
    BY DEF TypeOK
  <2>. QED BY <1>1, <2>1 DEF TypeOK, LeaveBarrier
<1>3. CASE wst_stop[r] /\ TaskDone(r)
  <2>1. aborted[r]
    BY <1>1, <1>3 DEF Stops
  <2>. QED BY <1>1, <1>2, <1>3, <2>1, GivesUp
<1>4. CASE Goto(r, "go")
  <2>1. exec' = [exec EXCEPT ![r] = [exec[r] EXCEPT !.at = "go"]]
    BY <1>4 DEF Goto
  <2>. QED BY <1>1, <1>2, <2>1, BarrierStep
<1>. QED BY <1>1, <1>3, <1>4

(* The event is recorded behind the transfer just enqueued.                *)
LEMMA RecordEventStep ==
  ASSUME Synchronised, NEW r \in Rollouts, RecordEvent(r)
  PROVE  Synchronised'
<1>. USE DEF Synchronised
<1>1. /\ UNCHANGED <<published, stream, wstq, wst_stop, aborted, redisVars, gpuVars, version,
                     weight_synced, waits, mainVars>>
      /\ exec[r] # None /\ exec[r].at = "event"
      /\ event' = [event EXCEPT ![r] = Len(gpu[r])]
      /\ buffer_version' = [buffer_version EXCEPT ![r] = buffer_version[r] + 1]
      /\ IF exec[r].cmd.type = "P2R"
         THEN exec' = [exec EXCEPT ![r] = None]
         ELSE exec' = [exec EXCEPT ![r] = [exec[r] EXCEPT !.at = "versioned"]]
  BY DEF RecordEvent, At, TaskDone, Goto, Record
<1>2. \A q \in Rollouts : q # r => exec'[q] = exec[q]
  BY <1>1 DEF TypeOK
<1>3. exec[r].cmd.type = "P2R" => exec'[r] = None
  BY <1>1 DEF TypeOK
<1>4. exec[r].cmd.type # "P2R" =>
        /\ exec'[r] \in Task /\ exec'[r].at = "versioned" /\ exec'[r].cmd = exec[r].cmd
        /\ exec'[r] # None /\ exec[r].cmd.type = "R2R"
  <2>. SUFFICES ASSUME exec[r].cmd.type # "P2R"
                PROVE  /\ exec'[r] \in Task /\ exec'[r].at = "versioned"
                       /\ exec'[r].cmd = exec[r].cmd
                       /\ exec'[r] # None /\ exec[r].cmd.type = "R2R"
    OBVIOUS
  <2>1. exec'[r] = [exec[r] EXCEPT !.at = "versioned"] /\ exec[r] \in Task
    BY <1>1 DEF TypeOK
  <2>. QED BY <2>1, NoneAssumption DEF Task, Phase, P2RPhase, R2RPhase, SyncCommand
<1>5. gpu' = gpu /\ gpu[r] \in Seq(SyncCommand)
  BY <1>1, Typed DEF gpuVars
<1>6. \A q \in Rollouts : Kept(q)
  <2>1. ASSUME NEW q \in Rollouts, q # r PROVE Kept(q)
    BY <1>1, <1>2, <1>5, <2>1, PhaseKept
  <2>2. CASE exec[r].cmd.type # "P2R"
    <3>1. Kept(r)
      BY <1>1, <1>4, <1>5, <2>2, PhaseKept
    <3>. QED BY <2>1, <3>1
  <2>3. CASE exec[r].cmd.type = "P2R"
    <3>1. line(r)' = line(r)
      BY <1>1 DEF line
    <3>2. \A k : ~Runs(r, k) /\ ~Runs(r, k)'
      BY <1>3, <2>3, Kinds DEF Runs
    <3>3. ~Receives(r) /\ ~Receives(r)'
      BY <1>1, <1>3, <2>3 DEF Receives
    <3>4. \A k \in Steps : Unsent(r, k)' <=> Unsent(r, k)
      BY <3>1, <3>2 DEF Unsent
    <3>5. Kept(r)
      BY <1>3, <1>5, <2>3, <3>1, <3>2, <3>3, <3>4 DEF Kept, Syncs, Lines
    <3>. QED BY <2>1, <3>5
  <2>. QED BY <2>2, <2>3
<1>7. (Syncs /\ Moves)'
  BY <1>1, <1>6, QueuesKept DEF gpuVars
<1>8. TypeOK'
  <2>1. exec' \in [Rollouts -> Task \cup {None}]
    <3>1. /\ exec' = [exec EXCEPT ![r] = exec'[r]]
          /\ exec'[r] \in Task \cup {None}
      BY <1>1, <1>3, <1>4 DEF TypeOK
    <3>. QED BY <3>1 DEF TypeOK
  <2>2. Len(gpu[r]) \in Nat
    BY <1>5, LenProperties
  <2>3. event' \in [Rollouts -> Nat \cup {None}]
    BY <1>1, <2>2 DEF TypeOK
  <2>4. buffer_version' \in [Rollouts -> Nat]
    <3>1. buffer_version[r] + 1 \in Nat
      BY DEF TypeOK
    <3>. QED BY <1>1, <3>1 DEF TypeOK
  <2>. QED BY <1>1, <2>1, <2>3, <2>4 DEF TypeOK, redisVars, gpuVars, mainVars
<1>9. Stops'
  BY <1>1, <1>2, <1>3, <1>4, <1>5 DEF Stops, mainVars
<1>10. Serves'
  <2>. SUFFICES ASSUME NEW q \in Rollouts \ {Leader}
                PROVE  /\ weight_synced[q] => buffer_version'[q] > 0
                       /\ exec'[q] # None /\ exec'[q].at = "versioned" => buffer_version'[q] > 0
                       /\ exec'[q] # None /\ exec'[q].at = "event" => gpu[q] # <<>> \/ buffer[q] >= 0
                       /\ event'[q] # None => event'[q] > 0 \/ buffer[q] >= 0
    BY <1>1 DEF Serves, gpuVars, mainVars
  <2>1. CASE q # r
    BY <1>1, <1>2, <2>1 DEF Serves, TypeOK
  <2>2. CASE q = r
    <3>1. event'[q] = Len(gpu[q]) /\ (gpu[q] # <<>> \/ buffer[q] >= 0)
      BY <1>1, <2>2 DEF Serves, TypeOK
    <3>2. gpu[q] # <<>> => Len(gpu[q]) > 0
      BY <1>5, <2>2, EmptySeq, LenProperties
    <3>3. buffer_version'[q] > 0
      <4>1. buffer_version'[q] = buffer_version[q] + 1 /\ buffer_version[q] \in Nat
        BY <1>1, <2>2 DEF TypeOK
      <4>. QED BY <4>1
    <3>. QED BY <1>3, <1>4, <2>2, <3>1, <3>2, <3>3
  <2>. QED BY <2>1, <2>2
<1>11. Copies'
  BY <1>1 DEF Copies, gpuVars, mainVars
<1>. QED BY <1>7, <1>8, <1>9, <1>10, <1>11

-----------------------------------------------------------------------------
(* The steps that move a sync on *)

(* A task whose transfer is enqueued, apart from the order of transfers.   *)
LEMMA Enqueues ==
  ASSUME Synchronised, NEW r \in Rollouts, Enqueue(r),
         exec[r] # None, exec[r].at \in {"recv", "go"},
         UNCHANGED <<published, received, stream, wstq, wst_stop, aborted, redisVars, moving,
                     buffer, live, copy, buffer_version, version, waits, mainVars>>,
         \/ weight_synced' = weight_synced
         \/ r = Leader /\ weight_synced' = [weight_synced EXCEPT ![r] = TRUE]
  PROVE  /\ exec'[r] # None /\ exec'[r].at = "event" /\ exec'[r].cmd = exec[r].cmd
         /\ \A q \in Rollouts : q # r => exec'[q] = exec[q] /\ gpu'[q] = gpu[q]
         /\ gpu'[r] = Append(gpu[r], exec[r].cmd)
         /\ (TypeOK /\ Moves /\ Stops /\ Serves /\ Copies)'
<1>. USE DEF Synchronised
<1>1. /\ gpu' = [gpu EXCEPT ![r] = Append(gpu[r], exec[r].cmd)]
      /\ event' = [event EXCEPT ![r] = None]
      /\ exec' = [exec EXCEPT ![r] = [exec[r] EXCEPT !.at = "event"]]
  BY DEF Enqueue, Goto
<1>2. /\ exec'[r] = [exec[r] EXCEPT !.at = "event"] /\ exec[r] \in Task
      /\ \A q \in Rollouts : q # r => exec'[q] = exec[q] /\ gpu'[q] = gpu[q]
      /\ gpu'[r] = Append(gpu[r], exec[r].cmd) /\ event'[r] = None
  BY <1>1 DEF TypeOK
<1>3. /\ exec'[r] \in Task /\ exec'[r].at = "event" /\ exec'[r].cmd = exec[r].cmd
      /\ exec'[r] # None
  BY <1>2, NoneAssumption DEF Task, Phase
<1>4. gpu[r] \in Seq(SyncCommand) /\ exec[r].cmd \in SyncCommand
  BY Typed
<1>5. /\ gpu'[r] \in Seq(SyncCommand) /\ gpu'[r] # <<>>
      /\ gpu[r] # <<>> => gpu'[r][1] = gpu[r][1]
  BY <1>2, <1>4, Enqueued
<1>6. TypeOK'
  <2>1. gpu' \in [Rollouts -> Seq(SyncCommand)]
    BY <1>1, <1>2, <1>5 DEF TypeOK
  <2>2. exec' \in [Rollouts -> Task \cup {None}]
    BY <1>1, <1>2, <1>3 DEF TypeOK
  <2>3. event' \in [Rollouts -> Nat \cup {None}] /\ weight_synced' \in [Rollouts -> BOOLEAN]
    BY <1>1 DEF TypeOK
  <2>. QED BY <2>1, <2>2, <2>3 DEF TypeOK, redisVars, mainVars
<1>7. Moves'
  <2>. SUFFICES ASSUME NEW q \in Rollouts, moving[q] # None
                PROVE  gpu'[q] # <<>> /\ gpu'[q][1] = gpu[q][1]
    BY DEF Moves
  <2>1. gpu[q] # <<>>
    BY DEF Moves
  <2>. QED BY <1>2, <1>5, <2>1
<1>8. Stops'
  BY <1>2, <1>3 DEF Stops, mainVars
<1>9. Serves'
  <2>. SUFFICES ASSUME NEW q \in Rollouts \ {Leader}
                PROVE  /\ weight_synced'[q] => buffer_version[q] > 0
                       /\ exec'[q] # None /\ exec'[q].at = "versioned" => buffer_version[q] > 0
                       /\ exec'[q] # None /\ exec'[q].at = "event" => gpu'[q] # <<>> \/ buffer[q] >= 0
                       /\ event'[q] # None => event'[q] > 0 \/ buffer[q] >= 0
    BY DEF Serves, mainVars
  <2>1. weight_synced'[q] = weight_synced[q]
    BY DEF TypeOK
  <2>2. CASE q # r
    BY <1>1, <1>2, <2>1, <2>2 DEF Serves, TypeOK
  <2>3. CASE q = r
    BY <1>2, <1>3, <1>5, <2>1, <2>3 DEF Serves
  <2>. QED BY <2>2, <2>3
<1>10. Copies'
  BY DEF Copies, mainVars
<1>. QED BY <1>2, <1>3, <1>6, <1>7, <1>8, <1>9, <1>10

(* The transfer from the policy is alone on the leader's stream.           *)
LEMMA P2RReceiveStep ==
  ASSUME Synchronised, NEW r \in Rollouts, P2RReceive(r)
  PROVE  Synchronised'
<1>. USE DEF Synchronised, Syncs
<1>. DEFINE m == exec[r].cmd.step
            c == Transfer(m)
<1>1. /\ UNCHANGED <<published, received, stream, wstq, wst_stop, aborted, redisVars, moving,
                     buffer, live, copy, buffer_version, version, waits, mainVars>>
      /\ exec[r] # None /\ exec[r].at = "recv" /\ Receives(r) /\ Enqueue(r)
      /\ weight_synced' = [weight_synced EXCEPT ![r] = TRUE]
  BY DEF P2RReceive, At, Receives
<1>2. /\ OnItsWay(r, m) /\ r = Leader /\ m \in Steps
      /\ exec[r].cmd = c
  <2>1. OnItsWay(r, m) /\ r = Leader
    BY <1>1 DEF Sends, OnItsWay
  <2>2. exec[r].cmd.type = "P2R"
    BY <1>1 DEF Lines, P2RPhase
  <2>. QED BY <1>1, <2>1, <2>2, Typed, Kinds
<1>3. /\ exec'[r] # None /\ exec'[r].at = "event" /\ exec'[r].cmd = exec[r].cmd
      /\ \A q \in Rollouts : q # r => exec'[q] = exec[q] /\ gpu'[q] = gpu[q]
      /\ gpu'[r] = Append(gpu[r], c)
      /\ (TypeOK /\ Moves /\ Stops /\ Serves /\ Copies)'
  BY <1>1, <1>2, Enqueues
<1>4. gpu[r] \in Seq(SyncCommand) /\ c \in SyncCommand
  BY <1>1, <1>2, Typed
<1>. HIDE DEF m, c
<1>5. /\ Len(gpu'[r]) = Len(gpu[r]) + 1 /\ Len(gpu[r]) \in Nat
      /\ \A i \in 1 .. Len(gpu[r]) : gpu'[r][i] = gpu[r][i]
      /\ gpu'[r][Len(gpu[r]) + 1] = c
      /\ \A d : Holds(gpu'[r], d) <=> Holds(gpu[r], d) \/ d = c
  BY <1>3, <1>4, Enqueued
<1>6. \A q \in Rollouts : line(q)' = line(q)
  BY <1>1 DEF line
<1>7. /\ ~Receives(r)'
      /\ \A q \in Rollouts : Receives(q)' => Receives(q)
      /\ \A k : ~Runs(r, k) /\ ~Runs(r, k)'
      /\ \A q \in Rollouts : \A k : Runs(q, k)' <=> Runs(q, k)
  <2>1. \A k : ~Runs(r, k) /\ ~Runs(r, k)'
    BY <1>2, <1>3, Kinds DEF Runs, c
  <2>. QED BY <1>3, <2>1 DEF Receives, Runs
<1>8. \A q \in Rollouts : \A k : /\ Pends(q, k)' <=> Pends(q, k)
                                 /\ Unsent(q, k)' <=> Unsent(q, k)
  <2>1. \A q \in Rollouts : q # r => (Sent(q)' <=> Sent(q))
    BY <1>3 DEF Sent
  <2>. QED BY <1>6, <1>7, <2>1 DEF Pends, Unsent
<1>9. /\ \A k : Transfer(k) = c <=> k = m
      /\ \A k : Round(k) # c
  BY Kinds DEF c
<1>10. /\ \A k \in Steps : ~Holds(line(r), Transfer(k)) /\ ~Holds(gpu[r], Transfer(k))
       /\ \A i \in 1 .. Len(gpu[r]) : gpu[r][i].type # "P2R"
  <2>1. \A k \in Steps : ~Holds(line(r), Transfer(k)) /\ ~Holds(gpu[r], Transfer(k))
    BY <1>1 DEF Sends, Streams
  <2>2. ASSUME NEW i \in 1 .. Len(gpu[r]), gpu[r][i].type = "P2R" PROVE FALSE
    <3>1. gpu[r][i] \in SyncCommand
      BY <1>4, ElementOfSeq
    <3>2. gpu[r][i].step \in Steps /\ gpu[r][i] = Transfer(gpu[r][i].step)
      BY <2>2, <3>1 DEF SyncCommand, Transfer
    <3>. QED BY <2>1, <3>2 DEF Holds
  <2>. QED BY <2>1, <2>2
<1>11. Lines'
  BY <1>3, <1>6, <1>7 DEF Lines, P2RPhase, R2RPhase
<1>12. Versions'
  BY <1>1, <1>8 DEF Versions
<1>13. Complete'
  BY <1>1, <1>3, <1>5, <1>8 DEF Complete
<1>14. Newest'
  BY <1>1 DEF Newest
<1>15. Sends'
  <2>1. \A q \in Rollouts, k \in Steps : Holds(line(q)', Transfer(k)) => OnItsWay(q, k) /\ ~Receives(q)'
    BY <1>6, <1>7 DEF Sends
  <2>2. \A q \in Rollouts : Receives(q)' => OnItsWay(q, exec'[q].cmd.step)
    BY <1>3, <1>7 DEF Sends
  <2>3. \E k \in Steps : Holds(gpu'[Leader], Transfer(k))
    BY <1>2, <1>5, <1>9
  <2>4. \A k \in Steps : ~Runs(Leader, k)'
    BY <1>2, <1>7
  <2>. QED BY <1>1, <2>1, <2>2, <2>3, <2>4 DEF Sends, OnItsWay
<1>16. Streams'
  <2>1. ASSUME NEW q \in Rollouts, NEW k \in Steps, Holds(gpu'[q], Transfer(k))
        PROVE  /\ OnItsWay(q, k) /\ ~Receives(q)'
               /\ \A l \in Steps : ~Holds(line(q)', Transfer(l))
    <3>1. CASE q # r
      BY <1>3, <1>6, <1>7, <2>1, <3>1 DEF Streams
    <3>2. CASE q = r
      BY <1>2, <1>5, <1>6, <1>7, <1>9, <1>10, <2>1, <3>2
    <3>. QED BY <3>1, <3>2
  <2>2. ASSUME NEW q \in Rollouts, NEW i \in 1 .. Len(gpu'[q]), NEW j \in 1 .. Len(gpu'[q]), i < j
        PROVE  ~(gpu'[q][i].type = "P2R" /\ gpu'[q][j].type = "P2R")
    <3>1. CASE q # r
      BY <1>3, <2>2, <3>1 DEF Streams
    <3>2. CASE q = r
      <4>1. i \in 1 .. Len(gpu[r])
        BY <1>5, <2>2, <3>2
      <4>. QED BY <1>5, <1>10, <3>2, <4>1
    <3>. QED BY <3>1, <3>2
  <2>3. ASSUME NEW i \in 1 .. Len(gpu'[Leader]), NEW k \in Steps, gpu'[Leader][i] = Round(k)
        PROVE  k < received \/ \E j \in 1 .. i - 1 : gpu'[Leader][j] = Transfer(k)
    <3>1. i \in 1 .. Len(gpu[r]) /\ gpu[r][i] = Round(k)
      BY <1>2, <1>5, <1>9, <2>3
    <3>2. k < received \/ \E j \in 1 .. i - 1 : gpu[r][j] = Transfer(k)
      BY <1>2, <3>1 DEF Streams
    <3>3. \A j \in 1 .. i - 1 : gpu'[r][j] = gpu[r][j]
      <4>1. \A j \in 1 .. i - 1 : j \in 1 .. Len(gpu[r])
        BY <1>5, <3>1
      <4>. QED BY <1>5, <4>1
    <3>. QED BY <1>2, <3>2, <3>3
  <2>. QED BY <1>1, <2>1, <2>2, <2>3 DEF Streams, OnItsWay
<1>. QED BY <1>3, <1>11, <1>12, <1>13, <1>14, <1>15, <1>16

(* A broadcast is enqueued; the leader's comes behind its transfer.        *)
LEMMA EnqueueBroadcastStep ==
  ASSUME Synchronised, NEW r \in Rollouts, EnqueueBroadcast(r)
  PROVE  Synchronised'
<1>. USE DEF Synchronised, Syncs
<1>. DEFINE m == exec[r].cmd.step
            c == Round(m)
<1>1. /\ UNCHANGED <<published, received, stream, wstq, wst_stop, aborted, redisVars, moving,
                     buffer, live, copy, buffer_version, version, weight_synced, waits, mainVars>>
      /\ exec[r] # None /\ exec[r].at = "go" /\ Enqueue(r) /\ ~aborted[r]
  BY DEF EnqueueBroadcast, At
<1>2. m \in Steps /\ exec[r].cmd = c /\ Runs(r, m)
  <2>1. exec[r].cmd.type = "R2R"
    BY <1>1 DEF Lines, R2RPhase
  <2>2. m \in Steps /\ exec[r].cmd = c
    BY <1>1, <2>1, Typed, Kinds
  <2>. QED BY <1>1, <2>2 DEF Runs
<1>3. /\ exec'[r] # None /\ exec'[r].at = "event" /\ exec'[r].cmd = exec[r].cmd
      /\ \A q \in Rollouts : q # r => exec'[q] = exec[q] /\ gpu'[q] = gpu[q]
      /\ gpu'[r] = Append(gpu[r], c)
      /\ (TypeOK /\ Moves /\ Stops /\ Serves /\ Copies)'
  BY <1>1, <1>2, Enqueues
<1>4. gpu[r] \in Seq(SyncCommand) /\ c \in SyncCommand
  BY <1>1, <1>2, Typed
<1>. HIDE DEF m, c
<1>5. /\ Len(gpu'[r]) = Len(gpu[r]) + 1 /\ Len(gpu[r]) \in Nat
      /\ \A i \in 1 .. Len(gpu[r]) : gpu'[r][i] = gpu[r][i]
      /\ gpu'[r][Len(gpu[r]) + 1] = c
      /\ \A d : Holds(gpu'[r], d) <=> Holds(gpu[r], d) \/ d = c
  BY <1>3, <1>4, Enqueued
<1>6. \A q \in Rollouts : line(q)' = line(q)
  BY <1>1 DEF line
<1>7. \A q \in Rollouts : /\ Receives(q)' <=> Receives(q)
                          /\ \A k : Runs(q, k)' <=> Runs(q, k)
  <2>1. /\ Receives(r)' <=> Receives(r)
        /\ \A k : Runs(r, k)' <=> Runs(r, k)
    BY <1>1, <1>3 DEF Receives, Runs
  <2>. QED BY <1>3, <2>1 DEF Receives, Runs
<1>8. /\ \A k : Round(k) = c <=> k = m
      /\ \A k : Transfer(k) # c
      /\ \A k : Runs(r, k) <=> k = m
      /\ c.type = "R2R"
  BY <1>2, Kinds DEF c, Runs
<1>9. \A q \in Rollouts : \A k :
        /\ Pends(q, k)' <=> Pends(q, k)
        /\ Unsent(q, k) => Unsent(q, k)' \/ Holds(gpu'[q], Round(k))
        /\ Holds(gpu[q], Round(k)) => Holds(gpu'[q], Round(k))
        /\ Holds(gpu'[q], Transfer(k)) <=> Holds(gpu[q], Transfer(k))
  <2>1. \A q \in Rollouts : q # r => (Sent(q)' <=> Sent(q)) /\ gpu'[q] = gpu[q]
    BY <1>3 DEF Sent
  <2>2. \A k : Unsent(r, k) => Holds(line(r)', Round(k)) \/ k = m
    BY <1>6, <1>8 DEF Unsent
  <2>3. \A k : Unsent(r, k) => Unsent(r, k)' \/ Holds(gpu'[r], Round(k))
    BY <1>5, <1>8, <2>2 DEF Unsent
  <2>4. \A k : /\ Holds(gpu[r], Round(k)) => Holds(gpu'[r], Round(k))
               /\ Holds(gpu'[r], Transfer(k)) <=> Holds(gpu[r], Transfer(k))
    BY <1>5, <1>8
  <2>5. \A q \in Rollouts : \A k : Pends(q, k)' <=> Pends(q, k)
    BY <1>6, <1>7 DEF Pends
  <2>6. \A q \in Rollouts : q # r => \A k : Unsent(q, k) => Unsent(q, k)'
    BY <1>6, <1>7, <2>1 DEF Unsent
  <2>. QED BY <2>1, <2>3, <2>4, <2>5, <2>6
<1>10. Lines'
  BY <1>3, <1>6, <1>7 DEF Lines, P2RPhase, R2RPhase
<1>11. Versions'
  BY <1>1, <1>9 DEF Versions
<1>12. Complete'
  <2>. SUFFICES ASSUME NEW q \in Rollouts, ~aborted[q], NEW k \in Steps, k < published
                PROVE  /\ Pends(q, k)' \/ k <= version[q]
                       /\ Unsent(q, k)' \/ Holds(gpu'[q], Round(k)) \/ k <= buffer[q]
    BY <1>1 DEF Complete
  <2>. QED BY <1>9 DEF Complete
<1>13. Newest'
  BY <1>1 DEF Newest
<1>14. Sends'
  <2>1. \A q \in Rollouts : Receives(q)' => exec'[q] = exec[q]
    BY <1>3 DEF Receives
  <2>. QED BY <1>1, <1>6, <1>7, <1>9, <2>1, SyncAssumption DEF Sends, OnItsWay
<1>15. Streams'
  <2>1. \A q \in Rollouts, k \in Steps : Holds(gpu'[q], Transfer(k)) =>
          /\ OnItsWay(q, k) /\ ~Receives(q)'
          /\ \A l \in Steps : ~Holds(line(q)', Transfer(l))
    BY <1>6, <1>7, <1>9 DEF Streams
  <2>2. ASSUME NEW q \in Rollouts, NEW i \in 1 .. Len(gpu'[q]), NEW j \in 1 .. Len(gpu'[q]), i < j
        PROVE  ~(gpu'[q][i].type = "P2R" /\ gpu'[q][j].type = "P2R")
    <3>1. CASE q # r
      BY <1>3, <2>2, <3>1 DEF Streams
    <3>2. CASE q = r /\ j = Len(gpu[r]) + 1
      BY <1>5, <1>8, <3>2
    <3>3. CASE q = r /\ j # Len(gpu[r]) + 1
      <4>1. i \in 1 .. Len(gpu[r]) /\ j \in 1 .. Len(gpu[r])
        BY <1>5, <2>2, <3>3
      <4>. QED BY <1>5, <2>2, <3>3, <4>1 DEF Streams
    <3>. QED BY <3>1, <3>2, <3>3
  <2>3. ASSUME NEW i \in 1 .. Len(gpu'[Leader]), NEW k \in Steps, gpu'[Leader][i] = Round(k)
        PROVE  k < received \/ \E j \in 1 .. i - 1 : gpu'[Leader][j] = Transfer(k)
    <3>1. CASE r # Leader
      BY <1>3, <2>3, <3>1, SyncAssumption DEF Streams
    <3>2. CASE r = Leader /\ i = Len(gpu[r]) + 1
      <4>1. k = m /\ i - 1 = Len(gpu[r])
        BY <1>5, <1>8, <2>3, <3>2
      <4>2. k < received \/ Holds(gpu[r], Transfer(k))
        BY <1>1, <1>2, <3>2, <4>1 DEF Sends
      <4>3. Holds(gpu[r], Transfer(k)) => \E j \in 1 .. i - 1 : gpu'[r][j] = Transfer(k)
        BY <1>5, <4>1 DEF Holds
      <4>. QED BY <3>2, <4>2, <4>3
    <3>3. CASE r = Leader /\ i # Len(gpu[r]) + 1
      <4>1. i \in 1 .. Len(gpu[r]) /\ gpu[r][i] = Round(k)
        BY <1>5, <2>3, <3>3
      <4>2. k < received \/ \E j \in 1 .. i - 1 : gpu[r][j] = Transfer(k)
        BY <3>3, <4>1 DEF Streams
      <4>3. \A j \in 1 .. i - 1 : j \in 1 .. Len(gpu[r])
        BY <1>5, <4>1
      <4>4. \A j \in 1 .. i - 1 : gpu'[r][j] = gpu[r][j]
        BY <1>5, <4>3
      <4>. QED BY <3>3, <4>2, <4>4
    <3>. QED BY <3>1, <3>2, <3>3
  <2>. QED BY <1>1, <2>1, <2>2, <2>3 DEF Streams, OnItsWay
<1>. QED BY <1>3, <1>10, <1>11, <1>12, <1>13, <1>14, <1>15

(* A transfer that completes leaves newer weights, and the stream.         *)
LEMMA TransferEnds ==
  ASSUME Synchronised, NEW r \in Rollouts, TransferEnd(r)
  PROVE  LET c == gpu[r][1] IN
         /\ UNCHANGED <<published, stream, wstq, exec, wst_stop, aborted, redisVars, live, copy,
                        buffer_version, version, weight_synced, mainVars>>
         /\ moving[r] # None /\ gpu[r] # <<>> /\ gpu'[r] = Tail(gpu[r])
         /\ \A q \in Rollouts : q # r =>
              /\ gpu'[q] = gpu[q] /\ buffer'[q] = buffer[q] /\ moving'[q] = moving[q]
              /\ event'[q] = event[q] /\ waits'[q] = waits[q]
         /\ buffer'[r] = moving[r] /\ moving'[r] = None
         /\ event'[r] = Earlier(event[r]) /\ waits'[r] = Earlier(waits[r])
         /\ gpu[r] \in Seq(SyncCommand) /\ c.step \in Steps
         /\ \/ /\ c = Transfer(c.step) /\ received' = received + 1
               /\ r = Leader /\ c.step = received /\ published = received + 1
               /\ moving[r] = received
            \/ /\ c = Round(c.step) /\ received' = received
               /\ c.step <= moving[r] /\ moving[r] <= buffer[Leader]
         /\ \A q \in Rollouts : buffer'[q] \in Int /\ buffer[q] <= buffer'[q]
         /\ r = Leader \/ buffer'[Leader] = buffer[Leader]
<1>. USE DEF Synchronised, Syncs
<1>. DEFINE c == gpu[r][1]
<1>1. /\ UNCHANGED <<published, stream, wstq, exec, wst_stop, aborted, redisVars, live, copy,
                     buffer_version, version, weight_synced, mainVars>>
      /\ moving[r] # None
      /\ buffer' = [buffer EXCEPT ![r] = moving[r]]
      /\ moving' = [moving EXCEPT ![r] = None]
      /\ gpu' = [gpu EXCEPT ![r] = Tail(gpu[r])]
      /\ event' = [event EXCEPT ![r] = Earlier(event[r])]
      /\ waits' = [waits EXCEPT ![r] = Earlier(waits[r])]
      /\ received' = IF Head(gpu[r]).type = "P2R" THEN received + 1 ELSE received
  BY DEF TransferEnd
<1>2. /\ gpu'[r] = Tail(gpu[r])
      /\ \A q \in Rollouts : q # r =>
           /\ gpu'[q] = gpu[q] /\ buffer'[q] = buffer[q] /\ moving'[q] = moving[q]
           /\ event'[q] = event[q] /\ waits'[q] = waits[q]
      /\ buffer'[r] = moving[r] /\ moving'[r] = None
      /\ event'[r] = Earlier(event[r]) /\ waits'[r] = Earlier(waits[r])
  BY <1>1 DEF TypeOK
<1>3. gpu[r] \in Seq(SyncCommand) /\ gpu[r] # <<>>
  BY <1>1, Typed DEF Moves
<1>4. c \in SyncCommand /\ Head(gpu[r]) = c /\ Holds(gpu[r], c)
  BY <1>3, Dequeued
<1>. HIDE DEF c
<1>5. /\ c.step \in Steps
      /\ (c = Transfer(c.step) /\ c.type = "P2R") \/ (c = Round(c.step) /\ c.type = "R2R")
  BY <1>4 DEF SyncCommand, Transfer, Round
<1>6. /\ moving[r] \in Int /\ buffer[r] <= moving[r]
      /\ c.type = "P2R" => moving[r] = c.step
      /\ c.type = "R2R" => c.step <= moving[r] /\ moving[r] <= buffer[Leader]
  BY <1>1, Numbers DEF Moves, c
<1>7. ASSUME c.type = "P2R"
      PROVE  /\ r = Leader /\ c.step = received /\ published = received + 1
             /\ moving[r] = received
  <2>1. OnItsWay(r, c.step)
    BY <1>4, <1>5, <1>7, Kinds DEF Streams
  <2>. QED BY <1>6, <1>7, <2>1 DEF OnItsWay
<1>8. \/ /\ c = Transfer(c.step) /\ received' = received + 1
         /\ r = Leader /\ c.step = received /\ published = received + 1
         /\ moving[r] = received
      \/ /\ c = Round(c.step) /\ received' = received
         /\ c.step <= moving[r] /\ moving[r] <= buffer[Leader]
  BY <1>1, <1>4, <1>5, <1>6, <1>7
<1>9. \A q \in Rollouts : buffer'[q] \in Int /\ buffer[q] <= buffer'[q]
  <2>. SUFFICES ASSUME NEW q \in Rollouts PROVE buffer'[q] \in Int /\ buffer[q] <= buffer'[q]
    OBVIOUS
  <2>1. buffer[q] \in Int
    BY Numbers
  <2>2. CASE q = r
    BY <1>2, <1>6, <2>1, <2>2
  <2>3. CASE q # r
    BY <1>2, <2>1, <2>3
  <2>. QED BY <2>2, <2>3
<1>10. r = Leader \/ buffer'[Leader] = buffer[Leader]
  BY <1>2, SyncAssumption
<1>. QED BY <1>1, <1>2, <1>3, <1>5, <1>8, <1>9, <1>10 DEF c

(* The transfers left are those behind it.                                 *)
LEMMA StreamAdvances ==
  ASSUME Synchronised, NEW r \in Rollouts, TransferEnd(r)
  PROVE  (Complete /\ Newest /\ Sends /\ Streams)'
<1>. USE DEF Synchronised, Syncs
<1>. DEFINE c == gpu[r][1]
<1>1. /\ UNCHANGED <<published, stream, wstq, exec, wst_stop, aborted, version>>
      /\ gpu[r] # <<>> /\ gpu'[r] = Tail(gpu[r]) /\ gpu[r] \in Seq(SyncCommand)
      /\ \A q \in Rollouts : q # r => gpu'[q] = gpu[q] /\ buffer'[q] = buffer[q]
      /\ buffer'[r] = moving[r] /\ c.step \in Steps
      /\ \A q \in Rollouts : buffer'[q] \in Int /\ buffer[q] <= buffer'[q]
      /\ r = Leader \/ buffer'[Leader] = buffer[Leader]
  BY TransferEnds
<1>2. \/ /\ c = Transfer(c.step) /\ received' = received + 1
         /\ r = Leader /\ c.step = received /\ published = received + 1
         /\ moving[r] = received
      \/ /\ c = Round(c.step) /\ received' = received
         /\ c.step <= moving[r] /\ moving[r] <= buffer[Leader]
  BY TransferEnds
<1>3. /\ Len(gpu[r]) \in Nat \ {0} /\ Len(gpu'[r]) = Len(gpu[r]) - 1
      /\ \A i \in 1 .. Len(gpu[r]) - 1 : gpu'[r][i] = gpu[r][i + 1] /\ i + 1 \in 1 .. Len(gpu[r])
      /\ \A d : Holds(gpu[r], d) <=> Holds(gpu'[r], d) \/ d = c
  BY <1>1, Dequeued
<1>. HIDE DEF c
<1>4. \A q \in Rollouts :
        /\ line(q)' = line(q) /\ (Receives(q)' <=> Receives(q))
        /\ \A k : /\ Runs(q, k)' <=> Runs(q, k)
                  /\ Pends(q, k)' <=> Pends(q, k)
                  /\ Unsent(q, k)' <=> Unsent(q, k)
  BY <1>1 DEF line, Receives, Runs, Pends, Unsent, Sent
<1>5. /\ received \in Nat /\ published \in Nat /\ buffer[Leader] \in Int
      /\ buffer[Leader] = received - 1 /\ received <= published /\ published <= received + 1
      /\ \A q \in Rollouts : buffer[q] \in Int /\ buffer[q] <= buffer[Leader]
      /\ \A k \in Steps : k \in Nat
  BY Numbers, SyncAssumption DEF Newest
<1>6. Complete'
  <2>. SUFFICES ASSUME NEW q \in Rollouts, ~aborted[q], NEW k \in Steps, k < published,
                       ~Unsent(q, k), ~Holds(gpu'[q], Round(k))
                PROVE  k <= buffer'[q]
    BY <1>1, <1>4 DEF Complete
  <2>1. CASE Holds(gpu[q], Round(k))
    <3>1. q = r /\ Round(k) = c
      BY <1>1, <1>3, <2>1
    <3>2. k <= moving[r]
      BY <1>2, <3>1, Kinds
    <3>. QED BY <1>1, <3>1, <3>2
  <2>2. CASE ~Holds(gpu[q], Round(k))
    <3>1. k <= buffer[q]
      BY <2>2 DEF Complete
    <3>2. k \in Int /\ buffer[q] \in Int /\ buffer'[q] \in Int /\ buffer[q] <= buffer'[q]
      BY <1>1, <1>5
    <3>. QED BY <3>1, <3>2
  <2>. QED BY <2>1, <2>2
<1>7. CASE c = Transfer(c.step)
  <2>1. /\ received' = received + 1 /\ r = Leader /\ c.step = received /\ published = received + 1
        /\ buffer'[Leader] = received /\ c.type = "P2R"
    BY <1>1, <1>2, <1>7, Kinds
  <2>2. \A q \in Rollouts, k \in Steps :
          ~Holds(line(q), Transfer(k)) /\ ~Receives(q)
    <3>1. Holds(gpu[Leader], Transfer(c.step)) /\ c.step \in Steps
      BY <1>1, <1>3, <1>7, <2>1
    <3>2. ~Receives(Leader) /\ \A l \in Steps : ~Holds(line(Leader), Transfer(l))
      BY <3>1, SyncAssumption DEF Streams
    <3>. QED BY <3>2 DEF Sends, OnItsWay
  <2>3. \A q \in Rollouts, k \in Steps : ~Holds(gpu'[q], Transfer(k))
    <3>. SUFFICES ASSUME NEW q \in Rollouts, NEW k \in Steps, Holds(gpu'[q], Transfer(k)) PROVE FALSE
      OBVIOUS
    <3>1. q = r
      <4>1. q # r => Holds(gpu[q], Transfer(k))
        BY <1>1
      <4>. QED BY <2>1, <4>1 DEF Streams, OnItsWay
    <3>2. PICK i \in 1 .. Len(gpu'[r]) : gpu'[r][i] = Transfer(k)
      BY <3>1 DEF Holds
    <3>3. gpu[r][i + 1] = Transfer(k) /\ i + 1 \in 1 .. Len(gpu[r]) /\ 1 \in 1 .. Len(gpu[r]) /\ 1 < i + 1
      BY <1>3, <3>2
    <3>4. gpu[r][1].type = "P2R"
      BY <2>1 DEF c
    <3>. QED BY <3>3, <3>4, Kinds DEF Streams
  <2>4. \A k \in Steps : ~aborted[Leader] /\ Runs(Leader, k) => k < received + 1
    <3>. SUFFICES ASSUME NEW k \in Steps, ~aborted[Leader], Runs(Leader, k) PROVE k < received + 1
      OBVIOUS
    <3>1. k < received \/ Holds(gpu[Leader], Transfer(k))
      BY DEF Sends
    <3>2. Holds(gpu[Leader], Transfer(k)) => k = received
      BY SyncAssumption DEF Streams, OnItsWay
    <3>. QED BY <1>5, <3>1, <3>2
  <2>5. Newest'
    <3>1. \A q \in Rollouts : buffer'[q] <= received
      <4>. SUFFICES ASSUME NEW q \in Rollouts PROVE buffer'[q] <= received
        OBVIOUS
      <4>1. CASE q = r
        BY <1>5, <2>1, <4>1
      <4>2. CASE q # r
        BY <1>1, <1>5, <4>2
      <4>. QED BY <4>1, <4>2
    <3>. QED BY <1>1, <1>5, <2>1, <3>1 DEF Newest
  <2>6. Sends'
    <3>1. ~(received' < published')
      BY <1>1, <1>5, <2>1
    <3>. QED BY <1>1, <1>4, <2>1, <2>2, <2>4, <3>1 DEF Sends
  <2>7. Streams'
    <3>1. ASSUME NEW q \in Rollouts, NEW i \in 1 .. Len(gpu'[q])
          PROVE  gpu'[q][i].type # "P2R"
      <4>1. gpu'[q] \in Seq(SyncCommand)
        <5>1. CASE q = r
          BY <1>1, <5>1, Dequeued
        <5>2. CASE q # r
          BY <1>1, <5>2, Typed
        <5>. QED BY <5>1, <5>2
      <4>2. gpu'[q][i] \in SyncCommand
        BY <4>1, ElementOfSeq
      <4>3. gpu'[q][i].type = "P2R" => gpu'[q][i].step \in Steps /\ gpu'[q][i] = Transfer(gpu'[q][i].step)
        BY <4>2 DEF SyncCommand, Transfer
      <4>. QED BY <2>3, <4>3 DEF Holds
    <3>2. ASSUME NEW i \in 1 .. Len(gpu'[Leader]), NEW k \in Steps, gpu'[Leader][i] = Round(k)
          PROVE  k < received'
      <4>1. gpu[Leader][i + 1] = Round(k) /\ i + 1 \in 1 .. Len(gpu[Leader])
        BY <1>3, <2>1, <3>2
      <4>2. k < received \/ \E j \in 1 .. (i + 1) - 1 : gpu[Leader][j] = Transfer(k)
        BY <4>1 DEF Streams
      <4>3. (\E j \in 1 .. (i + 1) - 1 : gpu[Leader][j] = Transfer(k)) => Holds(gpu[Leader], Transfer(k))
        <5>1. \A j \in 1 .. (i + 1) - 1 : j \in 1 .. Len(gpu[Leader])
          BY <1>3, <2>1, <4>1
        <5>. QED BY <5>1 DEF Holds
      <4>4. Holds(gpu[Leader], Transfer(k)) => k = received
        BY SyncAssumption DEF Streams, OnItsWay
      <4>. QED BY <1>5, <2>1, <4>2, <4>3, <4>4
    <3>. QED BY <2>3, <3>1, <3>2 DEF Streams
  <2>. QED BY <1>6, <2>5, <2>6, <2>7
<1>8. CASE c = Round(c.step)
  <2>1. received' = received /\ moving[r] <= buffer[Leader] /\ c.type = "R2R" /\ \A k : Transfer(k) # c
    BY <1>2, <1>8, Kinds
  <2>2. buffer'[Leader] = buffer[Leader]
    <3>1. r = Leader => buffer'[Leader] <= buffer[Leader] /\ buffer[Leader] <= buffer'[Leader]
      BY <1>1, <2>1
    <3>2. buffer'[Leader] \in Int
      BY <1>1, SyncAssumption
    <3>. QED BY <1>1, <1>5, <3>1, <3>2
  <2>3. \A q \in Rollouts : \A k : Holds(gpu'[q], Transfer(k)) <=> Holds(gpu[q], Transfer(k))
    BY <1>1, <1>3, <2>1
  <2>4. Newest'
    <3>1. \A q \in Rollouts : buffer'[q] <= buffer[Leader]
      BY <1>1, <1>5, <2>1
    <3>. QED BY <1>1, <2>1, <2>2, <3>1 DEF Newest
  <2>5. Sends'
    BY <1>1, <1>4, <2>1, <2>3, SyncAssumption DEF Sends, OnItsWay
  <2>6. Streams'
    <3>1. \A q \in Rollouts, k \in Steps : Holds(gpu'[q], Transfer(k)) =>
            /\ OnItsWay(q, k)' /\ ~Receives(q)'
            /\ \A l \in Steps : ~Holds(line(q)', Transfer(l))
      BY <1>1, <1>4, <2>1, <2>3 DEF Streams, OnItsWay
    <3>2. ASSUME NEW q \in Rollouts, NEW i \in 1 .. Len(gpu'[q]), NEW j \in 1 .. Len(gpu'[q]), i < j
          PROVE  ~(gpu'[q][i].type = "P2R" /\ gpu'[q][j].type = "P2R")
      <4>1. CASE q # r
        BY <1>1, <3>2, <4>1 DEF Streams
      <4>2. CASE q = r
        <5>1. /\ i + 1 \in 1 .. Len(gpu[r]) /\ j + 1 \in 1 .. Len(gpu[r]) /\ i + 1 < j + 1
              /\ gpu'[r][i] = gpu[r][i + 1] /\ gpu'[r][j] = gpu[r][j + 1]
          BY <1>3, <3>2, <4>2
        <5>. QED BY <4>2, <5>1 DEF Streams
      <4>. QED BY <4>1, <4>2
    <3>3. ASSUME NEW i \in 1 .. Len(gpu'[Leader]), NEW k \in Steps, gpu'[Leader][i] = Round(k)
          PROVE  k < received \/ \E j \in 1 .. i - 1 : gpu'[Leader][j] = Transfer(k)
      <4>1. CASE r # Leader
        BY <1>1, <3>3, <4>1, SyncAssumption DEF Streams
      <4>2. CASE r = Leader
        <5>1. gpu[Leader][i + 1] = Round(k) /\ i + 1 \in 1 .. Len(gpu[Leader])
          BY <1>3, <3>3, <4>2
        <5>2. k < received \/ \E j \in 1 .. (i + 1) - 1 : gpu[Leader][j] = Transfer(k)
          BY <5>1 DEF Streams
        <5>3. ASSUME NEW j \in 1 .. (i + 1) - 1, gpu[Leader][j] = Transfer(k)
              PROVE  \E l \in 1 .. i - 1 : gpu'[Leader][l] = Transfer(k)
          <6>1. j # 1
            BY <2>1, <4>2, <5>3 DEF c
          <6>2. j - 1 \in 1 .. i - 1 /\ j - 1 \in 1 .. Len(gpu[r]) - 1 /\ (j - 1) + 1 = j
            BY <1>3, <4>2, <5>1, <6>1
          <6>3. gpu'[Leader][j - 1] = Transfer(k)
            BY <1>3, <4>2, <5>3, <6>2
          <6>. QED BY <6>2, <6>3
        <5>. QED BY <5>2, <5>3
      <4>. QED BY <4>1, <4>2
    <3>. QED BY <2>1, <3>1, <3>2, <3>3 DEF Streams
  <2>. QED BY <1>6, <2>4, <2>5, <2>6
<1>. QED BY <1>2, <1>7, <1>8

(* The transfer completes.                                                 *)
LEMMA TransferEndStep ==
  ASSUME Synchronised, NEW r \in Rollouts, TransferEnd(r)
  PROVE  Synchronised'
<1>. USE DEF Synchronised, Syncs
<1>. DEFINE c == gpu[r][1]
<1>1. /\ UNCHANGED <<published, stream, wstq, exec, wst_stop, aborted, redisVars, live, copy,
                     buffer_version, version, weight_synced, mainVars>>
      /\ moving[r] # None /\ gpu[r] # <<>> /\ gpu'[r] = Tail(gpu[r])
      /\ \A q \in Rollouts : q # r =>
           /\ gpu'[q] = gpu[q] /\ buffer'[q] = buffer[q] /\ moving'[q] = moving[q]
           /\ event'[q] = event[q] /\ waits'[q] = waits[q]
      /\ buffer'[r] = moving[r] /\ moving'[r] = None
      /\ event'[r] = Earlier(event[r]) /\ waits'[r] = Earlier(waits[r])
      /\ gpu[r] \in Seq(SyncCommand) /\ c.step \in Steps
      /\ \A q \in Rollouts : buffer'[q] \in Int /\ buffer[q] <= buffer'[q]
  BY TransferEnds
<1>2. \/ /\ c = Transfer(c.step) /\ received' = received + 1
         /\ r = Leader /\ c.step = received /\ published = received + 1
         /\ moving[r] = received
      \/ /\ c = Round(c.step) /\ received' = received
         /\ c.step <= moving[r] /\ moving[r] <= buffer[Leader]
  BY TransferEnds
<1>. HIDE DEF c
<1>3. (Complete /\ Newest /\ Sends /\ Streams)'
  BY StreamAdvances
<1>4. \A q \in Rollouts :
        /\ line(q)' = line(q)
        /\ \A k : (Runs(q, k)' <=> Runs(q, k)) /\ (Pends(q, k)' <=> Pends(q, k))
  BY <1>1 DEF line, Runs, Pends
<1>5. Lines' /\ Versions'
  BY <1>1, <1>4 DEF Lines, Versions
<1>6. /\ received \in Nat /\ c.step \in Nat /\ moving[r] \in Int /\ moving[r] >= 0
      /\ buffer[Leader] \in Int /\ buffer'[Leader] \in Int /\ buffer[Leader] <= buffer'[Leader]
  <2>1. received \in Nat /\ c.step \in Nat /\ moving[r] \in Int
    BY <1>1, Numbers
  <2>. QED BY <1>1, <1>2, <2>1, Numbers, SyncAssumption
<1>7. Moves'
  <2>. SUFFICES ASSUME NEW q \in Rollouts, moving'[q] # None
                PROVE  /\ gpu'[q] # <<>>
                       /\ gpu'[q][1].type = "P2R" => moving'[q] = gpu'[q][1].step
                       /\ gpu'[q][1].type = "R2R" =>
                            gpu'[q][1].step <= moving'[q] /\ moving'[q] <= buffer'[Leader]
                       /\ buffer'[q] <= moving'[q]
    BY DEF Moves
  <2>1. /\ q # r /\ gpu'[q] = gpu[q] /\ buffer'[q] = buffer[q] /\ moving'[q] = moving[q]
        /\ moving[q] \in Int
    BY <1>1, Numbers
  <2>. QED BY <1>6, <2>1 DEF Moves
<1>8. Stops'
  <2>1. ~(mpc[r] = "stopped" /\ ~aborted[r])
    BY <1>1 DEF Stops
  <2>. QED BY <1>1, <2>1 DEF Stops, mainVars
<1>9. TypeOK'
  <2>1. /\ buffer' = [q \in Rollouts |-> buffer'[q]] /\ moving' = [q \in Rollouts |-> moving'[q]]
        /\ gpu' = [q \in Rollouts |-> gpu'[q]]
        /\ event' = [q \in Rollouts |-> event'[q]] /\ waits' = [q \in Rollouts |-> waits'[q]]
    BY DEF TransferEnd, TypeOK
  <2>2. \A n \in Nat \cup {None} : Earlier(n) \in Nat \cup {None}
    BY SyncAssumption DEF Earlier
  <2>3. ASSUME NEW q \in Rollouts
        PROVE  /\ buffer'[q] \in Steps \cup {Unsynced}
               /\ moving'[q] \in Steps \cup {Unsynced, None}
               /\ gpu'[q] \in Seq(SyncCommand)
               /\ event'[q] \in Nat \cup {None} /\ waits'[q] \in Nat \cup {None}
    <3>1. CASE q # r
      BY <1>1, <3>1 DEF TypeOK
    <3>2. CASE q = r
      <4>1. gpu'[q] \in Seq(SyncCommand)
        BY <1>1, <3>2, Dequeued
      <4>2. event[r] \in Nat \cup {None} /\ waits[r] \in Nat \cup {None}
        BY DEF TypeOK
      <4>3. moving[r] \in Steps \cup {Unsynced}
        BY <1>1 DEF TypeOK
      <4>. QED BY <1>1, <2>2, <3>2, <4>1, <4>2, <4>3
    <3>. QED BY <3>1, <3>2
  <2>4. /\ buffer' \in [Rollouts -> Steps \cup {Unsynced}]
        /\ moving' \in [Rollouts -> Steps \cup {Unsynced, None}]
        /\ gpu' \in [Rollouts -> Seq(SyncCommand)]
        /\ event' \in [Rollouts -> Nat \cup {None}] /\ waits' \in [Rollouts -> Nat \cup {None}]
    BY <2>1, <2>3
  <2>5. received' \in 0 .. LastStep + 1
    BY <1>2, Numbers DEF TypeOK
  <2>. QED BY <1>1, <2>4, <2>5 DEF TypeOK, redisVars, mainVars
<1>10. Serves'
  <2>. SUFFICES ASSUME NEW q \in Rollouts \ {Leader}
                PROVE  /\ exec[q] # None /\ exec[q].at = "event" => gpu'[q] # <<>> \/ buffer'[q] >= 0
                       /\ event'[q] # None => event'[q] > 0 \/ buffer'[q] >= 0
                       /\ ~unordered[q] =>
                            /\ waits'[q] # None => waits'[q] > 0 \/ buffer'[q] >= 0
                            /\ mpc[q] \in {"stamping", "generating"} \/ synced_version[q] > 0 =>
                                 waits'[q] # None \/ copy[q] # None \/ live[q] # Unsynced
    BY <1>1 DEF Serves, mainVars
  <2>1. CASE q # r
    BY <1>1, <2>1 DEF Serves
  <2>2. CASE q = r
    <3>1. buffer'[q] >= 0
      BY <1>1, <1>6, <2>2
    <3>2. waits[q] # None => waits'[q] # None
      <4>1. waits[q] \in Nat \cup {None} /\ waits'[q] = Earlier(waits[q])
        BY <1>1, <2>2 DEF TypeOK
      <4>. QED BY <4>1, SyncAssumption DEF Earlier
    <3>. QED BY <3>1, <3>2 DEF Serves
  <2>. QED BY <2>1, <2>2
<1>11. Copies'
  <2>. SUFFICES ASSUME NEW q \in Rollouts
                PROVE  /\ mpc[q] = "loop" => waits'[q] = None
                       /\ live[q] <= buffer'[q]
                       /\ copy[q] # None => copy[q] <= buffer'[q]
    BY <1>1 DEF Copies, mainVars
  <2>1. /\ buffer[q] \in Int /\ buffer'[q] \in Int /\ buffer[q] <= buffer'[q] /\ live[q] \in Int
        /\ copy[q] # None => copy[q] \in Int
    BY <1>1, Numbers
  <2>2. waits[q] = None => waits'[q] = None
    BY <1>1 DEF Earlier
  <2>. QED BY <2>1, <2>2 DEF Copies
<1>. QED BY <1>3, <1>5, <1>7, <1>8, <1>9, <1>10, <1>11

-----------------------------------------------------------------------------
(* STOP and the command thread *)

(* STOP is not a sync.                                                     *)
LEMMA PublishStopStep ==
  ASSUME Synchronised, PublishStop
  PROVE  Synchronised'
<1>. USE DEF Synchronised, Syncs
<1>. DEFINE stop == [type |-> "STOP"]
<1>1. /\ UNCHANGED <<published, wstq, exec, wst_stop, aborted, redisVars, gpuVars, wstVars, waits,
                     mainVars>>
      /\ \A r \in Rollouts : ~stop_queued[r]
      /\ \A r \in Rollouts : \A i \in DOMAIN stream[r] : stream[r][i].type # "STOP"
      /\ stream' = [r \in Rollouts |-> Append(stream[r], stop)]
  BY DEF PublishStop
<1>2. stop \in Command /\ stop.type = "STOP"
  BY DEF Command
<1>3. ASSUME NEW r \in Rollouts PROVE stream'[r] \in Seq(Command) /\ Kept(r)
  <2>1. stream'[r] = Append(stream[r], stop)
    BY <1>1
  <2>. HIDE DEF stop
  <2>2. /\ stream[r] \in Seq(Command) /\ wstq[r] \in Seq(Command) /\ line(r) \in Seq(Command)
        /\ wstq[r] \in Seq(SyncCommand) /\ Append(stream[r], stop) = stream[r] \o <<stop>>
        /\ <<stop>> \in Seq(Command)
    BY <1>2, Typed, AppendIsConcat
  <2>3. line(r)' = line(r) \o <<stop>>
    <3>1. line(r)' = wstq[r] \o (stream[r] \o <<stop>>)
      BY <1>1, <2>1, <2>2 DEF line
    <3>2. (wstq[r] \o stream[r]) \o <<stop>> = wstq[r] \o (stream[r] \o <<stop>>)
      BY <1>2, <2>2, JoinsParts
    <3>. QED BY <3>1, <3>2 DEF line
  <2>4. \A d \in Command : Holds(line(r), d) => Before(d, stop)
    <3>1. \A d : Holds(line(r), d) => Holds(wstq[r], d) \/ Holds(stream[r], d)
      BY <2>2, Parts DEF line
    <3>2. \A d : Holds(wstq[r], d) => d \in SyncCommand
      BY <2>2, ElementOfSeq DEF Holds
    <3>3. \A d : Holds(stream[r], d) => d.type # "STOP"
      BY <1>1, <2>2, LenProperties DEF Holds
    <3>. QED BY <1>2, <3>1, <3>2, <3>3 DEF Before, SyncCommand
  <2>5. Sorted(line(r)') /\ \A d : Holds(line(r)', d) <=> Holds(line(r), d) \/ d = stop
    BY <1>2, <2>2, <2>3, <2>4, JoinsLine DEF Lines
  <2>6. \A k : Round(k) # stop /\ Transfer(k) # stop
    BY <1>2, Kinds
  <2>7. /\ \A k \in Steps : Runs(r, k)' <=> Runs(r, k)
        /\ (Receives(r)' <=> Receives(r)) /\ (Sent(r)' <=> Sent(r)) /\ gpu'[r] = gpu[r]
    BY <1>1 DEF Runs, Receives, Sent, gpuVars
  <2>8. stream'[r] \in Seq(Command)
    BY <1>2, <2>1, <2>2, AppendProperties
  <2>. QED BY <1>1, <2>5, <2>6, <2>7, <2>8 DEF Kept, Lines, Unsent
<1>4. (Syncs /\ Moves)'
  BY <1>1, <1>3, QueuesKept DEF gpuVars, wstVars
<1>5. TypeOK'
  <2>1. stream' \in [Rollouts -> Seq(Command)]
    BY <1>1, <1>3
  <2>. QED BY <1>1, <2>1 DEF TypeOK, Command, redisVars, gpuVars, wstVars, mainVars
<1>7. Stops'
  BY <1>1 DEF Stops, gpuVars, mainVars
<1>8. Serves'
  BY <1>1 DEF Serves, gpuVars, wstVars, mainVars
<1>9. Copies'
  BY <1>1 DEF Copies, gpuVars, mainVars
<1>. QED BY <1>4, <1>5, <1>7, <1>8, <1>9

(* A sync passes from the stream to the queue, STOP to the main thread.    *)
LEMMA QueryCommandStep ==
  ASSUME Synchronised, NEW r \in Rollouts, QueryCommand(r)
  PROVE  Synchronised'
<1>. USE DEF Synchronised, Syncs
<1>. DEFINE cmd == Head(stream[r])
<1>1. /\ UNCHANGED <<published, exec, wst_stop, aborted, redisVars, gpuVars, wstVars, waits,
                     synced_version, mpc, stamp, unordered>>
      /\ ~stop_queued[r] /\ stream[r] # <<>>
      /\ stream' = [stream EXCEPT ![r] = Tail(stream[r])]
      /\ \/ /\ cmd.type = "STOP" /\ wstq' = wstq
            /\ stop_queued' = [stop_queued EXCEPT ![r] = TRUE]
         \/ /\ cmd.type # "STOP" /\ wstq' = [wstq EXCEPT ![r] = Append(wstq[r], cmd)]
            /\ stop_queued' = stop_queued
  BY DEF QueryCommand
<1>2. /\ stream[r] \in Seq(Command) /\ wstq[r] \in Seq(Command)
      /\ wstq[r] \in Seq(SyncCommand)
      /\ cmd \in Command /\ Tail(stream[r]) \in Seq(Command) /\ Sorted(line(r))
  BY <1>1, Typed, HeadTailProperties DEF Lines
<1>3. /\ stream'[r] = Tail(stream[r])
      /\ \A q \in Rollouts : q # r =>
           stream'[q] = stream[q] /\ wstq'[q] = wstq[q] /\ stop_queued'[q] = stop_queued[q]
  BY <1>1 DEF TypeOK
<1>4. \A q \in Rollouts : /\ \A k \in Steps : Runs(q, k)' <=> Runs(q, k)
                          /\ (Receives(q)' <=> Receives(q)) /\ (Sent(q)' <=> Sent(q))
                          /\ gpu'[q] = gpu[q]
  BY <1>1 DEF Runs, Receives, Sent, gpuVars
<1>5. ASSUME NEW q \in Rollouts, line(q)' = line(q) PROVE Kept(q)
  BY <1>1, <1>4, <1>5 DEF Kept, Lines, Unsent
<1>6. \A q \in Rollouts : q # r => Kept(q)
  BY <1>3, <1>5 DEF line
<1>7. ASSUME cmd.type = "STOP"
      PROVE  /\ Kept(r) /\ Stops'
             /\ wstq' \in [Rollouts -> Seq(SyncCommand)] /\ stop_queued' \in [Rollouts -> BOOLEAN]
  <2>1. /\ wstq' = wstq /\ stop_queued' = [stop_queued EXCEPT ![r] = TRUE]
        /\ line(r)' = wstq[r] \o Tail(stream[r])
    BY <1>1, <1>3, <1>7 DEF line
  <2>2. /\ Tail(stream[r]) = <<>>
        /\ Sorted(line(r)')
        /\ \A k : /\ Holds(line(r)', Round(k)) <=> Holds(line(r), Round(k))
                  /\ Holds(line(r)', Transfer(k)) <=> Holds(line(r), Transfer(k))
    BY <1>1, <1>2, <1>7, <2>1, StopsLine DEF line
  <2>3. Kept(r)
    BY <1>1, <1>4, <2>2 DEF Kept, Lines, Unsent
  <2>4. wstq' \in [Rollouts -> Seq(SyncCommand)] /\ stop_queued' \in [Rollouts -> BOOLEAN]
    BY <2>1 DEF TypeOK
  <2>5. Stops'
    BY <1>1, <1>3, <2>1, <2>2 DEF Stops, TypeOK, gpuVars
  <2>. QED BY <2>3, <2>4, <2>5
<1>8. ASSUME cmd.type # "STOP"
      PROVE  /\ Kept(r) /\ Stops'
             /\ wstq' \in [Rollouts -> Seq(SyncCommand)] /\ stop_queued' \in [Rollouts -> BOOLEAN]
  <2>1. /\ wstq' = [wstq EXCEPT ![r] = Append(wstq[r], cmd)] /\ stop_queued' = stop_queued
        /\ line(r)' = Append(wstq[r], cmd) \o Tail(stream[r])
    BY <1>1, <1>3, <1>8 DEF line, TypeOK
  <2>2. line(r)' = line(r)
    BY <1>1, <1>2, <2>1, PassOn DEF line
  <2>3. Kept(r)
    BY <1>5, <2>2
  <2>4. wstq' \in [Rollouts -> Seq(SyncCommand)] /\ stop_queued' \in [Rollouts -> BOOLEAN]
    <3>1. cmd \in SyncCommand
      BY <1>2, <1>8 DEF Command
    <3>. HIDE DEF cmd
    <3>2. Append(wstq[r], cmd) \in Seq(SyncCommand)
      BY <1>2, <3>1, AppendProperties
    <3>. QED BY <2>1, <3>2 DEF TypeOK
  <2>5. Stops'
    BY <1>1, <1>3, <2>1 DEF Stops, TypeOK, gpuVars
  <2>. QED BY <2>3, <2>4, <2>5
<1>9. (Syncs /\ Moves)'
  BY <1>1, <1>6, <1>7, <1>8, QueuesKept DEF gpuVars, wstVars
<1>10. TypeOK'
  <2>1. stream' \in [Rollouts -> Seq(Command)]
    BY <1>1, <1>2 DEF TypeOK, Command
  <2>. QED BY <1>1, <1>7, <1>8, <2>1 DEF TypeOK, Command, redisVars, gpuVars, wstVars
<1>12. Serves'
  BY <1>1 DEF Serves, gpuVars, wstVars
<1>13. Copies'
  BY <1>1 DEF Copies, gpuVars, mainVars
<1>. QED BY <1>7, <1>8, <1>9, <1>10, <1>12, <1>13

(* Only one transfer is outstanding, so nothing is left behind it; a round *)
(* is taken only when no transfer waits, so the leader has received its    *)
(* weights.                                                                *)
LEMMA TakeTaskStep ==
  ASSUME Synchronised, NEW r \in Rollouts, TakeTask(r)
  PROVE  Synchronised'
<1>. USE DEF Synchronised, Syncs
<1>. DEFINE i == next_task(wstq[r])
            c == wstq[r][i]
            w == Without(wstq[r], i)
            task == [cmd |-> c, at |-> IF c.type = "P2R" THEN "recv" ELSE "barrier"]
<1>1. /\ UNCHANGED <<published, stream, wst_stop, aborted, redisVars, gpuVars, wstVars, waits,
                     mainVars>>
      /\ UNCHANGED <<received, gpu, moving, buffer, version>>
      /\ ~wst_stop[r] /\ exec[r] = None /\ wstq[r] # <<>>
      /\ wstq' = [wstq EXCEPT ![r] = w]
      /\ exec' = [exec EXCEPT ![r] = task]
  BY DEF TakeTask, gpuVars, wstVars
<1>2. /\ wstq[r] \in Seq(SyncCommand) /\ wstq[r] \in Seq(Command) /\ stream[r] \in Seq(Command)
      /\ Sorted(line(r)) /\ Sorted(wstq[r])
  BY Typed, Parts DEF Lines, line
<1>3. /\ i \in 1 .. Len(wstq[r])
      /\ c.type = "R2R" => i = 1
  BY <1>1, <1>2, NextTask
<1>. HIDE DEF i, c, w, task
<1>4. c = wstq[r][i] /\ c \in SyncCommand
  BY <1>2, <1>3, ElementOfSeq DEF c
<1>5. /\ w \in Seq(SyncCommand)
      /\ \A d : Holds(w \o stream[r], d) => Holds(line(r), d)
      /\ \A d : Holds(line(r), d) => d = c \/ Holds(w \o stream[r], d)
      /\ Sorted(w \o stream[r])
      /\ \A d : Holds(w \o stream[r], d) => Before(c, d) \/ Before(d, c)
      /\ i = 1 => \A d : Holds(w \o stream[r], d) => Before(c, d)
  BY <1>2, <1>3, LeavesLine DEF line, c, w
<1>6. /\ wstq'[r] = w /\ exec'[r] = task
      /\ \A q \in Rollouts : q # r => wstq'[q] = wstq[q] /\ exec'[q] = exec[q]
  BY <1>1 DEF TypeOK
<1>7. /\ line(r)' = w \o stream[r]
      /\ \A q \in Rollouts : q # r => line(q)' = line(q)
  BY <1>1, <1>6 DEF line
<1>8. Holds(line(r), c)
  <2>1. Holds(wstq[r], c)
    BY <1>3, <1>4 DEF Holds
  <2>. QED BY <1>2, <2>1, Parts DEF line
<1>9. /\ task \in Task /\ task # None /\ task.cmd = c
      /\ task.at = IF c.type = "P2R" THEN "recv" ELSE "barrier"
      /\ c.type \in {"P2R", "R2R"} /\ c.step \in Steps
      /\ c = IF c.type = "P2R" THEN Transfer(c.step) ELSE Round(c.step)
  <2>1. task \in Task
    BY <1>4 DEF Task, task, Phase, P2RPhase, R2RPhase
  <2>2. /\ task.cmd = c
        /\ task.at = IF c.type = "P2R" THEN "recv" ELSE "barrier"
    BY DEF task
  <2>. QED BY <1>4, <2>1, <2>2, NoneAssumption DEF SyncCommand, Transfer, Round
<1>10. /\ ~Receives(r) /\ \A k : ~Runs(r, k)
       /\ Receives(r)' <=> c.type = "P2R"
       /\ Receives(r)' => exec'[r].cmd = c
       /\ \A k : Runs(r, k)' <=> c = Round(k)
       /\ \A q \in Rollouts : q # r =>
            /\ Receives(q)' <=> Receives(q)
            /\ \A k : Runs(q, k)' <=> Runs(q, k)
  BY <1>1, <1>6, <1>9 DEF Receives, Runs
<1>11. \A q \in Rollouts : \A k \in Steps :
         /\ Pends(q, k)' <=> Pends(q, k)
         /\ Unsent(q, k)' <=> Unsent(q, k)
  <2>1. \A k \in Steps : Pends(r, k)' <=> Pends(r, k)
    BY <1>5, <1>7, <1>8, <1>10 DEF Pends
  <2>2. ~Sent(r)'
    BY <1>6, <1>9 DEF Sent
  <2>3. \A k \in Steps : Unsent(r, k)' <=> Unsent(r, k)
    BY <1>5, <1>7, <1>8, <1>10, <2>2 DEF Unsent
  <2>4. \A q \in Rollouts : q # r => (Sent(q)' <=> Sent(q))
    BY <1>6 DEF Sent
  <2>. QED BY <1>7, <1>10, <2>1, <2>3, <2>4 DEF Pends, Unsent
<1>12. ASSUME c.type = "P2R"
       PROVE  /\ OnItsWay(r, c.step)
              /\ \A k : ~Holds(line(r)', Transfer(k))
              /\ \A k \in Steps : ~Holds(gpu[r], Transfer(k))
  <2>1. /\ OnItsWay(r, c.step)
        /\ \A k \in Steps : ~Holds(gpu[r], Transfer(k))
    BY <1>8, <1>9, <1>12 DEF Sends, Streams
  <2>2. ASSUME NEW k, Holds(line(r)', Transfer(k)) PROVE FALSE
    <3>1. Before(c, Transfer(k)) \/ Before(Transfer(k), c)
      BY <1>5, <1>7, <2>2
    <3>. QED BY <1>12, <3>1, Kinds DEF Before
  <2>. QED BY <2>1, <2>2
<1>13. ASSUME c.type = "R2R"
       PROVE  /\ \A d : Holds(line(r)', d) => Before(c, d)
              /\ r = Leader /\ ~aborted[Leader] =>
                   c.step < received \/ Holds(gpu[Leader], Transfer(c.step))
  <2>1. \A d : Holds(line(r)', d) => Before(c, d)
    BY <1>3, <1>5, <1>7, <1>13
  <2>2. c.step < published /\ c.step \in Nat
    <3>1. Pends(r, c.step)
      BY <1>8, <1>9, <1>13 DEF Pends
    <3>. QED BY <1>9, <3>1, Numbers DEF Versions
  <2>3. ASSUME r = Leader, NEW k \in Steps, Holds(line(Leader), Transfer(k)) PROVE c.step < received
    <3>1. k = received
      BY <2>3, SyncAssumption DEF Sends, OnItsWay
    <3>2. c # Transfer(k)
      BY <1>13, Kinds
    <3>3. Before(c, Transfer(k))
      BY <1>5, <1>7, <2>1, <2>3, <3>2
    <3>. QED BY <1>13, <3>1, <3>3, Kinds DEF Before
  <2>4. ASSUME r = Leader, NEW k \in Steps, Holds(gpu[Leader], Transfer(k)), ~(c.step < received)
        PROVE  Holds(gpu[Leader], Transfer(c.step))
    <3>1. k = received /\ published = received + 1
      BY <2>4, SyncAssumption DEF Streams, OnItsWay
    <3>2. c.step = k
      BY <2>2, <2>4, <3>1, Numbers
    <3>. QED BY <2>4, <3>2
  <2>5. ~(received < published) => c.step < received
    BY <2>2, Numbers DEF Newest
  <2>6. r = Leader /\ ~aborted[Leader] /\ received < published =>
          \E k \in Steps : Holds(line(Leader), Transfer(k)) \/ Holds(gpu[Leader], Transfer(k))
    BY <1>10 DEF Sends
  <2>. QED BY <2>1, <2>3, <2>4, <2>5, <2>6
<1>14. Lines'
  <2>1. ASSUME NEW k \in Steps, NEW l \in Steps, Runs(r, k)'
        PROVE  /\ Holds(line(r)', Round(l)) => k < l
               /\ Holds(line(r)', Transfer(l)) => k < l
    <3>1. c = Round(k) /\ c.type = "R2R" /\ c.step = k
      BY <1>10, <2>1, Kinds
    <3>. QED BY <1>13, <3>1, Kinds DEF Before
  <2>2. /\ exec'[r].at \in P2RPhase => exec'[r].cmd.type = "P2R"
        /\ exec'[r].at \in R2RPhase => exec'[r].cmd.type = "R2R"
    BY <1>6, <1>9 DEF P2RPhase, R2RPhase
  <2>3. Sorted(line(r)')
    BY <1>5, <1>7
  <2>. QED BY <1>6, <1>7, <1>10, <2>1, <2>2, <2>3 DEF Lines
<1>15. Versions'
  BY <1>1, <1>11 DEF Versions
<1>16. Complete'
  BY <1>1, <1>11 DEF Complete
<1>17. Newest'
  BY <1>1 DEF Newest
<1>18. Sends'
  <2>1. ASSUME NEW q \in Rollouts, NEW k \in Steps, Holds(line(q)', Transfer(k))
        PROVE  OnItsWay(q, k) /\ ~Receives(q)'
    <3>1. Holds(line(q), Transfer(k))
      BY <1>5, <1>7, <2>1
    <3>2. q = r => c.type # "P2R"
      BY <1>12, <2>1
    <3>. QED BY <1>10, <3>1, <3>2 DEF Sends
  <2>2. ASSUME NEW q \in Rollouts, Receives(q)' PROVE OnItsWay(q, exec'[q].cmd.step)
    BY <1>6, <1>10, <1>12, <2>2 DEF Sends
  <2>3. ASSUME ~aborted[Leader], received < published
        PROVE  \/ Receives(Leader)'
               \/ \E k \in Steps : Holds(line(Leader)', Transfer(k)) \/ Holds(gpu[Leader], Transfer(k))
    <3>1. CASE r # Leader
      BY <1>7, <1>10, <2>3, <3>1, SyncAssumption DEF Sends
    <3>2. CASE r = Leader /\ c.type = "R2R"
      <4>1. PICK k \in Steps : Holds(line(Leader), Transfer(k)) \/ Holds(gpu[Leader], Transfer(k))
        BY <1>10, <2>3, <3>2 DEF Sends
      <4>2. c # Transfer(k)
        BY <3>2, Kinds
      <4>. QED BY <1>5, <1>7, <3>2, <4>1, <4>2
    <3>3. CASE r = Leader /\ c.type = "P2R"
      BY <1>10, <3>3
    <3>. QED BY <1>9, <3>1, <3>2, <3>3
  <2>4. ASSUME ~aborted[Leader], NEW k \in Steps, Runs(Leader, k)'
        PROVE  k < received \/ Holds(gpu[Leader], Transfer(k))
    <3>1. CASE r # Leader
      BY <1>10, <2>4, <3>1, SyncAssumption DEF Sends
    <3>2. CASE r = Leader
      <4>1. c.type = "R2R" /\ c.step = k
        BY <1>10, <2>4, <3>2, Kinds
      <4>. QED BY <1>13, <2>4, <3>2, <4>1
    <3>. QED BY <3>1, <3>2
  <2>. QED BY <1>1, <2>1, <2>2, <2>3, <2>4 DEF Sends, OnItsWay
<1>19. Streams'
  <2>1. ASSUME NEW q \in Rollouts, NEW k \in Steps, Holds(gpu[q], Transfer(k))
        PROVE  /\ OnItsWay(q, k) /\ ~Receives(q)'
               /\ \A l \in Steps : ~Holds(line(q)', Transfer(l))
    <3>1. q = r => c.type # "P2R"
      BY <1>12, <2>1
    <3>. QED BY <1>5, <1>7, <1>10, <2>1, <3>1 DEF Streams
  <2>. QED BY <1>1, <2>1 DEF Streams, OnItsWay
<1>20. TypeOK'
  <2>1. wstq' \in [Rollouts -> Seq(SyncCommand)] /\ exec' \in [Rollouts -> Task \cup {None}]
    BY <1>1, <1>5, <1>9 DEF TypeOK
  <2>. QED BY <1>1, <2>1 DEF TypeOK, redisVars, gpuVars, wstVars, mainVars
<1>21. Moves'
  BY <1>1 DEF Moves
<1>22. Stops'
  BY <1>1, <1>6 DEF Stops, mainVars
<1>23. Serves'
  BY <1>1, <1>6, <1>9 DEF Serves, gpuVars, wstVars, mainVars
<1>24. Copies'
  BY <1>1 DEF Copies, gpuVars, mainVars
<1>. QED BY <1>14, <1>15, <1>16, <1>17, <1>18, <1>19, <1>20, <1>21, <1>22, <1>23, <1>24

(* The version announced is that of the round just executed.               *)
LEMMA R2RDoneStep ==
  ASSUME Synchronised, NEW r \in Rollouts, R2RDone(r)
  PROVE  Synchronised'
<1>. USE DEF Synchronised, Syncs
<1>. DEFINE m == exec[r].cmd.step
<1>1. /\ UNCHANGED <<published, stream, wstq, wst_stop, aborted, redisVars, gpuVars, event,
                     buffer_version, waits, mainVars>>
      /\ UNCHANGED <<received, gpu, moving, buffer>>
      /\ exec[r] # None /\ exec[r].at = "versioned"
      /\ version' = [version EXCEPT ![r] = m]
      /\ weight_synced' = [weight_synced EXCEPT ![r] = TRUE]
      /\ exec' = [exec EXCEPT ![r] = None]
  BY DEF R2RDone, At, TaskDone, gpuVars
<1>2. Runs(r, m) /\ m \in Steps
  <2>1. exec[r].cmd \in SyncCommand /\ exec[r].cmd.type # "P2R"
    BY <1>1, Typed DEF Lines, R2RPhase
  <2>2. exec[r].cmd = Round(m)
    BY <1>1, <2>1, Typed, Kinds
  <2>. QED BY <1>1, <2>1, <2>2 DEF Runs, SyncCommand
<1>3. /\ exec'[r] = None /\ version'[r] = m
      /\ \A q \in Rollouts : q # r => exec'[q] = exec[q] /\ version'[q] = version[q]
  BY <1>1 DEF TypeOK
<1>4. \A k : Runs(r, k) <=> k = m
  BY <1>2, Kinds DEF Runs
<1>. HIDE DEF m
<1>5. version[r] <= m /\ m < published /\ m \in Nat
  <2>1. Pends(r, m)
    BY <1>2 DEF Pends
  <2>3. m \in Nat
    BY <1>2, SyncAssumption DEF Steps
  <2>. QED BY <1>2, <2>1, <2>3 DEF Versions
<1>6. \A q \in Rollouts : line(q)' = line(q)
  BY <1>1 DEF line
<1>7. /\ \A k : ~Runs(r, k)'
      /\ ~Receives(r) /\ ~Receives(r)'
      /\ \A q \in Rollouts : q # r =>
           /\ (Receives(q)' <=> Receives(q)) /\ (Sent(q)' <=> Sent(q))
           /\ \A k : Runs(q, k)' <=> Runs(q, k)
  BY <1>1, <1>3 DEF Runs, Receives, Sent
<1>8. /\ \A q \in Rollouts : q # r => \A k : Pends(q, k)' <=> Pends(q, k)
      /\ \A k : Pends(r, k)' => Pends(r, k) /\ Holds(line(r), Round(k))
      /\ \A k : Pends(r, k) => k = m \/ Pends(r, k)'
      /\ \A q \in Rollouts : \A k : Unsent(q, k)' <=> Unsent(q, k)
  <2>1. Sent(r)
    BY <1>1 DEF Sent
  <2>. QED BY <1>4, <1>6, <1>7, <2>1 DEF Pends, Unsent
<1>9. Lines'
  BY <1>3, <1>6, <1>7 DEF Lines
<1>10. Versions'
  <2>1. ASSUME NEW k \in Steps, Pends(r, k)' PROVE m <= k /\ k < published
    <3>1. m < k
      BY <1>2, <1>8, <2>1 DEF Lines
    <3>2. k < published /\ k \in Nat
      BY <1>8, <2>1, SyncAssumption DEF Versions, Steps
    <3>. QED BY <1>5, <3>1, <3>2
  <2>2. \A k \in Steps : Pends(r, k)' => version'[r] <= k /\ k < published'
    BY <1>1, <1>3, <2>1
  <2>3. version'[r] < published'
    BY <1>1, <1>3, <1>5
  <2>. QED BY <1>1, <1>3, <1>8, <2>2, <2>3 DEF Versions
<1>11. Complete'
  <2>. SUFFICES ASSUME NEW q \in Rollouts, ~aborted[q], NEW k \in Steps, k < published,
                       ~Pends(q, k)'
                PROVE  k <= version'[q]
    BY <1>1, <1>8 DEF Complete
  <2>1. CASE q # r
    BY <1>3, <1>8, <2>1 DEF Complete
  <2>2. CASE q = r /\ k = m
    BY <1>3, <1>5, <2>2
  <2>3. CASE q = r /\ k # m
    <3>1. k <= version[r] /\ k \in Nat
      BY <1>8, <2>3, SyncAssumption DEF Complete, Steps
    <3>. QED BY <1>3, <1>5, <2>3, <3>1, Numbers
  <2>. QED BY <2>1, <2>2, <2>3
<1>12. Newest'
  BY <1>1 DEF Newest
<1>13. Sends'
  BY <1>1, <1>3, <1>6, <1>7, SyncAssumption DEF Sends, OnItsWay
<1>14. Streams'
  BY <1>1, <1>6, <1>7 DEF Streams, OnItsWay
<1>15. TypeOK'
  <2>1. /\ exec' \in [Rollouts -> Task \cup {None}] /\ version' \in [Rollouts -> Steps]
        /\ weight_synced' \in [Rollouts -> BOOLEAN]
    BY <1>1, <1>2 DEF TypeOK
  <2>. QED BY <1>1, <2>1 DEF TypeOK, redisVars, gpuVars, mainVars
<1>16. Moves'
  BY <1>1 DEF Moves
<1>17. Stops'
  BY <1>1, <1>3 DEF Stops, mainVars
<1>18. Serves'
  <2>1. r # Leader => buffer_version[r] > 0
    BY <1>1 DEF Serves
  <2>2. \A q \in Rollouts : weight_synced'[q] => q = r \/ weight_synced[q]
    BY <1>1 DEF TypeOK
  <2>. QED BY <1>1, <1>3, <2>1, <2>2 DEF Serves, gpuVars, mainVars
<1>19. Copies'
  BY <1>1 DEF Copies, gpuVars, mainVars
<1>. QED BY <1>9, <1>10, <1>11, <1>12, <1>13, <1>14, <1>15, <1>16, <1>17, <1>18, <1>19

(* The next round goes to the end of every line, the transfer before it.   *)
LEMMA PublishRoundStep ==
  ASSUME Synchronised, PublishRound
  PROVE  Synchronised'
<1>. USE DEF Synchronised, Syncs
<1>. DEFINE n == published
            p == Transfer(n)
            o == Round(n)
<1>1. /\ UNCHANGED <<wstq, exec, wst_stop, aborted, redisVars, gpuVars, wstVars, waits, mainVars>>
      /\ UNCHANGED <<received, gpu, moving, buffer, version>>
      /\ n <= LastStep /\ received = n /\ published' = n + 1
      /\ \A r \in Rollouts : ~stop_queued[r]
      /\ \A r \in Rollouts : \A i \in DOMAIN stream[r] : stream[r][i].type # "STOP"
      /\ stream' = [r \in Rollouts |->
                      stream[r] \o (IF r = Leader THEN <<p>> ELSE <<>>) \o <<o>>]
  BY DEF PublishRound, Transfer, Round, gpuVars, wstVars
<1>2. /\ n \in Steps /\ n \in Nat /\ p \in SyncCommand /\ o \in SyncCommand
      /\ p \in Command /\ o \in Command
  <2>1. n \in Steps /\ n \in Nat
    BY <1>1, Numbers DEF Steps
  <2>. QED BY <2>1 DEF Command, SyncCommand, Transfer, Round
<1>. HIDE DEF p, o
<1>3. /\ \A r \in Rollouts : ~Receives(r)
      /\ \A r \in Rollouts, k \in Steps : ~Holds(line(r), Transfer(k)) /\ ~Holds(gpu[r], Transfer(k))
  BY <1>1, Numbers DEF Sends, Streams, OnItsWay
<1>4. ASSUME NEW r \in Rollouts, NEW d \in Command, Holds(line(r), d)
      PROVE  d.type = "R2R" /\ d.step < n
  <2>1. Holds(wstq[r], d) \/ Holds(stream[r], d)
    BY <1>4, Typed, Parts DEF line
  <2>2. Holds(wstq[r], d) => d \in SyncCommand
    BY Typed, ElementOfSeq DEF Holds
  <2>3. Holds(stream[r], d) => d.type # "STOP"
    BY <1>1, Typed, LenProperties DEF Holds
  <2>4. d \in SyncCommand
    BY <2>1, <2>2, <2>3 DEF Command
  <2>5. d.step \in Steps /\ (d = Round(d.step) \/ d = Transfer(d.step))
    BY <2>4 DEF SyncCommand, Round, Transfer
  <2>6. d = Round(d.step)
    BY <1>3, <1>4, <2>5
  <2>7. Pends(r, d.step)
    BY <1>4, <2>6 DEF Pends
  <2>. QED BY <2>5, <2>6, <2>7, Kinds DEF Versions
<1>5. ASSUME NEW r \in Rollouts
      PROVE  /\ stream'[r] \in Seq(Command) /\ Sorted(line(r)')
             /\ \A d : Holds(line(r)', d) <=> Holds(line(r), d) \/ d = o \/ (r = Leader /\ d = p)
  <2>1. /\ stream[r] \in Seq(Command) /\ wstq[r] \in Seq(Command) /\ line(r) \in Seq(Command)
        /\ line(r) = wstq[r] \o stream[r] /\ Sorted(line(r))
        /\ line(r)' = wstq[r] \o stream'[r]
    BY <1>1, Typed DEF line, Lines
  <2>2. \A d \in Command : Holds(line(r), d) => Before(d, o) /\ Before(d, p)
    BY <1>4, Kinds DEF Before, o, p
  <2>3. CASE r = Leader
    <3>. DEFINE s == stream[r] \o <<p>>
                u == line(r) \o <<p>>
    <3>1. stream'[r] = s \o <<o>>
      BY <1>1, <2>3
    <3>2. s \in Seq(Command) /\ wstq[r] \o s = u
      <4>1. /\ wstq[r] \o (stream[r] \o <<p>>) = (wstq[r] \o stream[r]) \o <<p>>
            /\ stream[r] \o <<p>> \in Seq(Command)
        BY <1>2, <2>1, JoinsParts
      <4>. QED BY <2>1, <4>1
    <3>3. /\ u \in Seq(Command) /\ Sorted(u)
          /\ \A d : Holds(u, d) <=> Holds(line(r), d) \/ d = p
      BY <1>2, <2>1, <2>2, JoinsLine
    <3>. HIDE DEF s, u
    <3>4. /\ s \o <<o>> \in Seq(Command)
          /\ wstq[r] \o (s \o <<o>>) = (wstq[r] \o s) \o <<o>>
      BY <1>2, <2>1, <3>2, JoinsParts
    <3>5. line(r)' = u \o <<o>>
      BY <2>1, <3>1, <3>2, <3>4
    <3>6. \A d \in Command : Holds(u, d) => Before(d, o)
      <4>1. Before(p, o)
        BY Kinds DEF Before, o, p
      <4>. QED BY <2>2, <3>3, <4>1
    <3>7. /\ Sorted(u \o <<o>>)
          /\ \A d : Holds(u \o <<o>>, d) <=> Holds(u, d) \/ d = o
      BY <1>2, <3>3, <3>6, JoinsLine
    <3>. QED BY <2>3, <3>1, <3>3, <3>4, <3>5, <3>7
  <2>4. CASE r # Leader
    <3>1. stream'[r] = stream[r] \o <<o>>
      BY <1>1, <2>1, <2>4, ConcatEmptySeq
    <3>2. /\ stream[r] \o <<o>> \in Seq(Command)
          /\ wstq[r] \o (stream[r] \o <<o>>) = line(r) \o <<o>>
      <4>1. /\ wstq[r] \o (stream[r] \o <<o>>) = (wstq[r] \o stream[r]) \o <<o>>
            /\ stream[r] \o <<o>> \in Seq(Command)
        BY <1>2, <2>1, JoinsParts
      <4>. QED BY <2>1, <4>1
    <3>3. /\ Sorted(line(r) \o <<o>>)
          /\ \A d : Holds(line(r) \o <<o>>, d) <=> Holds(line(r), d) \/ d = o
      BY <1>2, <2>1, <2>2, JoinsLine
    <3>. QED BY <2>1, <2>4, <3>1, <3>2, <3>3
  <2>. QED BY <2>3, <2>4
<1>6. \A r \in Rollouts : /\ \A k : Runs(r, k)' <=> Runs(r, k)
                          /\ ~Receives(r)' /\ (Sent(r)' <=> Sent(r))
  BY <1>1, <1>3 DEF Runs, Receives, Sent
<1>7. \A r \in Rollouts : \A k :
        /\ Holds(line(r)', Round(k)) <=> Holds(line(r), Round(k)) \/ k = n
        /\ Pends(r, k)' <=> Pends(r, k) \/ k = n
        /\ Unsent(r, k)' <=> Unsent(r, k) \/ k = n
        /\ Holds(line(r)', Transfer(k)) <=> Holds(line(r), Transfer(k)) \/ (r = Leader /\ k = n)
  <2>1. \A k : /\ Round(k) = o <=> k = n
               /\ Round(k) # p /\ Transfer(k) # o
               /\ Transfer(k) = p <=> k = n
    BY DEF o, p, Round, Transfer
  <2>. QED BY <1>5, <1>6, <2>1 DEF Pends, Unsent
<1>8. Lines'
  <2>1. ASSUME NEW r \in Rollouts, NEW k \in Steps, Runs(r, k) PROVE k < n
    <3>1. Pends(r, k)
      BY <2>1 DEF Pends
    <3>. QED BY <2>1, <3>1 DEF Versions
  <2>2. \A r \in Rollouts :
          exec'[r] # None => /\ exec'[r].at \in P2RPhase => exec'[r].cmd.type = "P2R"
                             /\ exec'[r].at \in R2RPhase => exec'[r].cmd.type = "R2R"
    BY <1>1 DEF Lines
  <2>3. \A r \in Rollouts : \A k, l \in Steps :
          Runs(r, k)' => /\ Holds(line(r)', Round(l)) => k < l
                         /\ Holds(line(r)', Transfer(l)) => k < l
    BY <1>6, <1>7, <2>1 DEF Lines
  <2>. QED BY <1>5, <2>2, <2>3 DEF Lines
<1>9. Versions'
  <2>. SUFFICES ASSUME NEW r \in Rollouts
                PROVE  /\ \A k \in Steps : Pends(r, k)' => version[r] <= k /\ k < n + 1
                       /\ version[r] = 0 \/ version[r] < n + 1
    BY <1>1 DEF Versions
  <2>1. version[r] \in Nat /\ (version[r] = 0 \/ version[r] < n)
    BY Numbers DEF Versions
  <2>2. ASSUME NEW k \in Steps, Pends(r, k)' PROVE version[r] <= k /\ k < n + 1
    <3>1. CASE k = n
      BY <1>2, <2>1, <3>1
    <3>2. CASE k # n
      <4>1. version[r] <= k /\ k < n /\ k \in Nat
        BY <1>7, <2>2, <3>2, SyncAssumption DEF Versions, Steps
      <4>. QED BY <1>2, <4>1
    <3>. QED BY <3>1, <3>2
  <2>. QED BY <1>2, <2>1, <2>2
<1>10. Complete'
  <2>. SUFFICES ASSUME NEW r \in Rollouts, ~aborted[r], NEW k \in Steps, k < n + 1, k # n
                PROVE  /\ Pends(r, k) \/ k <= version[r]
                       /\ Unsent(r, k) \/ Holds(gpu[r], Round(k)) \/ k <= buffer[r]
    BY <1>1, <1>7 DEF Complete
  <2>1. k < n
    <3>1. k \in Nat
      BY Numbers
    <3>. QED BY <1>2, <3>1
  <2>. QED BY <2>1 DEF Complete
<1>11. Newest'
  BY <1>1, <1>2 DEF Newest
<1>12. Sends'
  <2>1. ASSUME NEW r \in Rollouts, NEW k \in Steps, Holds(line(r)', Transfer(k))
        PROVE  r = Leader /\ k = n
    BY <1>3, <1>7, <2>1
  <2>2. Holds(line(Leader)', Transfer(n))
    BY <1>7, SyncAssumption
  <2>3. \A k \in Steps : ~aborted[Leader] /\ Runs(Leader, k) => k < n
    BY <1>1, <1>3, SyncAssumption DEF Sends
  <2>. QED BY <1>1, <1>2, <1>6, <2>1, <2>2, <2>3, SyncAssumption DEF Sends, OnItsWay
<1>13. Streams'
  BY <1>1, <1>3 DEF Streams
<1>14. TypeOK'
  <2>1. stream' \in [Rollouts -> Seq(Command)]
    BY <1>1, <1>5
  <2>2. published' \in 0 .. LastStep + 1
    BY <1>1, Numbers
  <2>. QED BY <1>1, <2>1, <2>2 DEF TypeOK, Command, redisVars, gpuVars, wstVars, mainVars
<1>15. Moves'
  BY <1>1 DEF Moves
<1>16. Stops'
  BY <1>1 DEF Stops, mainVars
<1>17. Serves'
  BY <1>1 DEF Serves, gpuVars, wstVars, mainVars
<1>18. Copies'
  BY <1>1 DEF Copies, gpuVars, mainVars
<1>. QED BY <1>8, <1>9, <1>10, <1>11, <1>12, <1>13, <1>14, <1>15, <1>16, <1>17, <1>18

-----------------------------------------------------------------------------
(* The theorems *)

(* The invariant holds of the initial state.                               *)
LEMMA InitSynchronised == Init => Synchronised
<1>. SUFFICES ASSUME Init PROVE Synchronised
  OBVIOUS
<1>0. /\ LastStep \in Nat /\ Leader \in Rollouts /\ 0 \in Steps /\ Unsynced = -1 /\ Torn = -2
      /\ \A k \in Steps : k \in Nat
  BY SyncAssumption DEF Steps, Unsynced, Torn
<1>1. \A r \in Rollouts : line(r) = <<>>
  <2>1. <<>> \in Seq(Command)
    BY EmptySeq
  <2>2. <<>> \o <<>> = <<>>
    BY <2>1, ConcatEmptySeq
  <2>. QED BY <2>2 DEF Init, line
<1>2. /\ Sorted(<<>>) /\ \A d : ~Holds(<<>>, d)
  BY DEF Sorted, Holds
<1>3. \A r \in Rollouts : exec[r] = None
  BY DEF Init
<1>4. \A r \in Rollouts :
        /\ \A k : ~Runs(r, k) /\ ~Pends(r, k) /\ ~Holds(line(r), Transfer(k))
        /\ \A d : ~Holds(gpu[r], d)
        /\ ~Receives(r)
  BY <1>1, <1>2, <1>3 DEF Runs, Pends, Receives, Init
<1>5. TypeOK
  <2>1. 0 \in 0 .. LastStep + 1
    BY <1>0
  <2>. QED BY <1>0, <2>1 DEF Init, TypeOK
<1>6. Lines
  BY <1>1, <1>2, <1>3, <1>4 DEF Lines
<1>7. Versions
  BY <1>4 DEF Versions, Init
<1>8. Complete
  BY <1>0 DEF Complete, Init
<1>9. Newest
  BY <1>0 DEF Newest, Init
<1>10. Sends
  BY <1>0, <1>4 DEF Sends, Init
<1>11. Streams
  <2>1. \A r \in Rollouts : gpu[r] = <<>>
    BY DEF Init
  <2>2. Len(<<>>) = 0
    BY EmptySeq
  <2>. QED BY <1>0, <1>4, <2>1, <2>2 DEF Streams
<1>12. Moves
  BY DEF Moves, Init
<1>13. Stops
  BY DEF Stops, Init
<1>14. Serves
  BY <1>0, SyncAssumption DEF Serves, Init
<1>15. Copies
  BY <1>0 DEF Copies, Init
<1>. QED BY <1>5, <1>6, <1>7, <1>8, <1>9, <1>10, <1>11, <1>12, <1>13, <1>14, <1>15
         DEF Synchronised, Syncs

(* Every step keeps it.                                                    *)
LEMMA NextSynchronised == Synchronised /\ [Next]_vars => Synchronised'
<1>. SUFFICES ASSUME Synchronised, [Next]_vars PROVE Synchronised'
  OBVIOUS
<1>1. CASE UNCHANGED vars
  <2>1. /\ UNCHANGED <<stream, wstq, exec, gpu, moving, published, received, buffer, version>>
        /\ \A r \in Rollouts : aborted[r] => aborted'[r]
    BY <1>1 DEF vars, gpuVars, wstVars
  <2>2. (Syncs /\ Moves)'
    BY <2>1, PhaseKept, QueuesKept
  <2>3. TypeOK'
    BY <1>1 DEF Synchronised, vars, redisVars, gpuVars, wstVars, mainVars, TypeOK
  <2>4. (Stops /\ Serves /\ Copies)'
    BY <1>1 DEF Synchronised, vars, gpuVars, wstVars, mainVars, Stops, Serves, Copies
  <2>. QED BY <2>2, <2>3, <2>4 DEF Synchronised
<1>2. ASSUME NEW r \in Rollouts, WSTStep(r) PROVE Synchronised'
  BY <1>2, TakeTaskStep, P2RReceiveStep, BarrierArriveStep, BarrierSubscribeStep,
     BarrierRecheckStep, BarrierWaitStep, EnqueueBroadcastStep, RecordEventStep, R2RDoneStep,
     TransferFailsStep DEF WSTStep
<1>3. ASSUME NEW r \in Rollouts, MainStep(r) PROVE Synchronised'
  BY <1>3, StampPayloadsStep, EndGenerationStep, HandleStopStep, FenceDoneStep, FenceTimeoutStep,
     JoinDoneStep, JoinTimeoutStep DEF MainStep
<1>4. ASSUME NEW r \in Rollouts, GPUStep(r) \/ CopyStep(r) PROVE Synchronised'
  BY <1>4, TransferStartStep, TransferEndStep, CopyStartStep, CopyDoneStep DEF GPUStep, CopyStep
<1>5. ASSUME NEW r \in Rollouts, QueryCommand(r) \/ SyncBufferToLive(r) \/ Crash(r)
      PROVE  Synchronised'
  BY <1>5, QueryCommandStep, SyncBufferToLiveStep, CrashStep
<1>6. Finished => UNCHANGED vars
  BY DEF Finished
<1>. QED BY <1>1, <1>2, <1>3, <1>4, <1>5, <1>6, PublishRoundStep, PublishStopStep,
            BroadcastStartStep DEF Next

(* Every state is of its type: a transfer counted, a version announced and *)
(* the weights in a buffer are always those of a step that was published.  *)
THEOREM SyncTypeCorrect == Spec => []TypeOK
<1>1. Synchronised => TypeOK
  BY DEF Synchronised
<1>. QED BY <1>1, InitSynchronised, NextSynchronised, PTL DEF Spec

(* A follower starts no generation on the weights its engine was loaded    *)
(* with, although its transfers are announced before they are made: unless *)
(* the event was not recorded, its copy waits for a transfer.              *)
THEOREM Served == Spec => []FollowersServeSynced
<1>1. Synchronised => FollowersServeSynced
  BY DEF Synchronised, Serves, FollowersServeSynced, Generating
<1>. QED BY <1>1, InitSynchronised, NextSynchronised, PTL DEF Spec

(* A replica whose fence succeeded has executed every round published and  *)
(* has its weights, in spite of transfers that overtake and that are only  *)
(* enqueued when they are announced, of dead peers and of time-outs.       *)
THEOREM Fenced == Spec => []FenceCompletes
<1>1. Synchronised => FenceCompletes
  <2>. SUFFICES ASSUME Synchronised, NEW r \in Rollouts, mpc[r] = "stopped", ~aborted[r]
                PROVE  /\ buffer[r] = published - 1
                       /\ published > 0 => version[r] = published - 1
    BY DEF FenceCompletes
  <2>. USE DEF Synchronised, Syncs
  <2>1. wstq[r] = <<>> /\ exec[r] = None /\ stream[r] = <<>> /\ gpu[r] = <<>>
    BY DEF Stops
  <2>2. \A k : ~Pends(r, k) /\ ~Unsent(r, k) /\ ~Holds(gpu[r], Round(k))
    <3>1. <<>> \o <<>> = <<>>
      BY EmptySeq, ConcatEmptySeq
    <3>. QED BY <2>1, <3>1 DEF Pends, Unsent, Runs, Holds, line
  <2>3. /\ published \in Nat /\ published <= LastStep + 1 /\ LastStep \in Nat
        /\ received \in Nat /\ version[r] \in Nat
        /\ buffer[r] \in Int /\ buffer[r] >= -1
    <3>1. published \in 0 .. LastStep + 1
      BY DEF TypeOK
    <3>2. LastStep \in Nat
      BY SyncAssumption
    <3>. QED BY <3>1, <3>2, Numbers
  <2>4. buffer[r] <= published - 1
    <3>1. buffer[r] <= buffer[Leader] /\ buffer[Leader] = received - 1 /\ received <= published
      BY DEF Newest
    <3>. QED BY <2>3, <3>1
  <2>5. CASE published = 0
    BY <2>3, <2>4, <2>5
  <2>6. CASE published > 0
    <3>1. published - 1 \in Steps /\ published - 1 < published
      BY <2>3, <2>6 DEF Steps
    <3>2. published - 1 <= version[r] /\ published - 1 <= buffer[r]
      BY <2>2, <3>1 DEF Complete
    <3>3. version[r] = 0 \/ version[r] < published
      BY DEF Versions
    <3>. QED BY <2>3, <2>4, <2>6, <3>2, <3>3
  <2>. QED BY <2>3, <2>5, <2>6
<1>. QED BY <1>1, InitSynchronised, NextSynchronised, PTL DEF Spec

NotOlder(r) ==
  /\ buffer'[r] >= buffer[r]
  /\ version'[r] >= version[r]
  /\ live[r] # Torn /\ live'[r] # Torn => live'[r] >= live[r]

(* Only three steps write weights or a version: none goes back.            *)
LEMMA StepNotOlder ==
  ASSUME Synchronised, [Next]_vars, NEW r \in Rollouts
  PROVE  NotOlder(r)
<1>. USE DEF Synchronised, Syncs
<1>1. ASSUME UNCHANGED <<buffer, version, live>> PROVE NotOlder(r)
  BY <1>1, Numbers DEF NotOlder
<1>2. ASSUME NEW q \in Rollouts, TransferEnd(q) PROVE NotOlder(r)
  <2>1. UNCHANGED <<version, live>> /\ buffer'[r] \in Int /\ buffer[r] <= buffer'[r]
    BY <1>2, TransferEnds
  <2>. QED BY <2>1, Numbers DEF NotOlder
<1>3. ASSUME NEW q \in Rollouts, R2RDone(q) PROVE NotOlder(r)
  <2>. DEFINE m == exec[q].cmd.step
  <2>1. /\ UNCHANGED <<buffer, live>>
        /\ exec[q] # None /\ exec[q].at = "versioned"
        /\ version' = [version EXCEPT ![q] = m]
    BY <1>3 DEF R2RDone, At, gpuVars
  <2>2. exec[q].cmd.type = "R2R" /\ m \in Steps /\ m \in Nat
    BY <2>1, Typed DEF Lines, R2RPhase
  <2>3. exec[q].cmd = Round(m)
    BY <2>1, <2>2, Typed, Kinds
  <2>4. Pends(q, m)
    BY <2>1, <2>3 DEF Pends, Runs
  <2>. HIDE DEF m
  <2>5. version[q] <= m
    BY <2>2, <2>4 DEF Versions
  <2>6. version'[r] = IF r = q THEN m ELSE version[r]
    BY <2>1 DEF TypeOK
  <2>. QED BY <2>1, <2>2, <2>5, <2>6, Numbers DEF NotOlder
<1>4. ASSUME NEW q \in Rollouts, CopyDone(q) PROVE NotOlder(r)
  <2>1. /\ UNCHANGED <<buffer, version>>
        /\ copy[q] # None /\ live' = [live EXCEPT ![q] = copy[q]]
    BY <1>4 DEF CopyDone, wstVars
  <2>2. live'[r] = IF r = q THEN copy[q] ELSE live[r]
    BY <2>1 DEF TypeOK
  <2>. QED BY <2>1, <2>2, Numbers DEF NotOlder, Copies
<1>5. ASSUME NEW q \in Rollouts, WSTStep(q), ~R2RDone(q) PROVE NotOlder(r)
  <2>1. UNCHANGED <<buffer, version, live>>
    BY <1>5 DEF WSTStep, TakeTask, P2RReceive, BarrierArrive, BarrierSubscribe, BarrierRecheck,
       BarrierWait, EnqueueBroadcast, RecordEvent, TransferFails, gpuVars, wstVars
  <2>. QED BY <1>1, <2>1
<1>6. ASSUME NEW q \in Rollouts,
             GPUStep(q) \/ CopyStep(q), ~TransferEnd(q), ~CopyDone(q) PROVE NotOlder(r)
  <2>1. UNCHANGED <<buffer, version, live>>
    BY <1>6 DEF GPUStep, CopyStep, TransferStart, CopyStart, wstVars
  <2>. QED BY <1>1, <2>1
<1>7. ASSUME NEW q \in Rollouts,
             QueryCommand(q) \/ MainStep(q) \/ SyncBufferToLive(q) \/ Crash(q)
      PROVE  NotOlder(r)
  <2>1. UNCHANGED <<buffer, version, live>>
    BY <1>7 DEF QueryCommand, MainStep, SyncBufferToLive, Crash, StampPayloads, EndGeneration,
       HandleStop, FenceDone, FenceTimeout, JoinDone, JoinTimeout, gpuVars, wstVars
  <2>. QED BY <1>1, <2>1
<1>8. ASSUME \/ PublishRound \/ PublishStop \/ Finished
             \/ \E s \in Steps : BroadcastStart(s)
             \/ UNCHANGED vars
      PROVE  NotOlder(r)
  <2>1. UNCHANGED <<buffer, version, live>>
    BY <1>8 DEF PublishRound, PublishStop, Finished, BroadcastStart, vars, gpuVars, wstVars
  <2>. QED BY <1>1, <2>1
<1>. QED BY <1>2, <1>3, <1>4, <1>5, <1>6, <1>7, <1>8 DEF Next

(* No replica goes back to older weights or to an older version.           *)
THEOREM WeightsAdvance == Spec => NeverOlder
<1>1. Synchronised /\ [Next]_vars =>
        [\A r \in Rollouts :
           /\ buffer'[r] >= buffer[r]
           /\ version'[r] >= version[r]
           /\ live[r] # Torn /\ live'[r] # Torn => live'[r] >= live[r]]_vars
  BY StepNotOlder DEF NotOlder
<1>. QED BY <1>1, InitSynchronised, NextSynchronised, PTL DEF Spec, NeverOlder

===============================================================================
