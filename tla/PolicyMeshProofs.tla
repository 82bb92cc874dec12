--------------------------- MODULE PolicyMeshProofs ---------------------------
(***************************************************************************)
(* Theorems about module PolicyMesh, for any number of replicas, steps,    *)
(* retries and crashes: every reachable state is well typed, and as long   *)
(* as no replica has been lost the replicas of a training step start it    *)
(* from equal, loaded weights, however rebuilds, joins and attempts        *)
(* interleave.                                                             *)
(*                                                                         *)
(* The second result rests on what is true before the first loss.  Every   *)
(* mesh is a prefix of the order of arrival, so the rank an operation      *)
(* looked up on an older mesh still names the same replica.  All weights   *)
(* come from replica 1, whose stream holds a transfer before the current   *)
(* training step exactly if the step is still ahead of the receiver.  So   *)
(* whoever has received weights has those of the current step, before or   *)
(* after training it, or weights that an abort has spoiled.                *)
(***************************************************************************)
EXTENDS PolicyMesh, FiniteSetTheorems, SequenceTheorems, WellFoundedInduction, TLAPS

-----------------------------------------------------------------------------
(* Sequences *)

(* A nonempty set of naturals has a least element, which Min returns.      *)
LEMMA LeastIndex ==
  ASSUME NEW I, I # {}, I \subseteq Nat
  PROVE  Min(I) \in I /\ \A j \in I : Min(I) <= j
<1>1. PICK n \in I : \A m \in I : ~(<<m, n>> \in OpToRel(<, Nat))
  BY NatLessThanWellFounded, WFMin
<1>2. \A m \in I : m \in Nat /\ n \in Nat /\ ~(m < n)
  BY <1>1 DEF OpToRel
<1>3. \A m \in I : n <= m
  BY <1>2
<1>. QED BY <1>3 DEF Min

(* The meshes are the sequences of replicas that are not too long.         *)
LEMMA MeshesSeq ==
  \A m : m \in Meshes <=> m \in Seq(Replicas) /\ Len(m) <= NReplicas
<1>. SUFFICES ASSUME NEW m
              PROVE  m \in Meshes <=> m \in Seq(Replicas) /\ Len(m) <= NReplicas
  OBVIOUS
<1>1. ASSUME m \in Meshes PROVE m \in Seq(Replicas) /\ Len(m) <= NReplicas
  <2>1. PICK n \in 0 .. NReplicas : m \in [1 .. n -> Replicas]
    BY <1>1 DEF Meshes, SeqOf
  <2>2. m \in Seq(Replicas) /\ Len(m) = n
    BY <2>1, MeshAssumption
  <2>. QED BY <2>2, MeshAssumption
<1>2. ASSUME m \in Seq(Replicas), Len(m) <= NReplicas PROVE m \in Meshes
  <2>1. Len(m) \in 0 .. NReplicas /\ m \in [1 .. Len(m) -> Replicas]
    BY <1>2, MeshAssumption
  <2>. QED BY <2>1 DEF Meshes, SeqOf
<1>. QED BY <1>1, <1>2

(* The empty mesh, of a replica that has none.                             *)
LEMMA EmptyMesh == <<>> \in Meshes
<1>1. <<>> \in Seq(Replicas) /\ Len(<<>>) = 0 /\ 0 <= NReplicas
  BY MeshAssumption
<1>. QED BY <1>1, MeshesSeq

(* Without repetition, a sequence of replicas is a mesh.                   *)
LEMMA InjectiveMesh ==
  ASSUME NEW s \in Seq(Replicas), IsInjective(s)
  PROVE  s \in Meshes
<1>1. s \in Injection(1 .. Len(s), Replicas) /\ Len(s) \in Nat
  BY DEF Injection, IsInjective
<1>2. IsFiniteSet(Replicas) /\ Cardinality(Replicas) = NReplicas
  BY FS_Interval, MeshAssumption DEF Replicas
<1>3. Cardinality(1 .. Len(s)) <= NReplicas
  BY <1>1, <1>2, FS_Injection
<1>4. Cardinality(1 .. Len(s)) = Len(s)
  <2>. DEFINE n == Len(s)
  <2>1. n \in Nat /\ 1 \in Int /\ n \in Int
    BY <1>1
  <2>. HIDE DEF n
  <2>2. Cardinality(1 .. n) = IF 1 > n THEN 0 ELSE n - 1 + 1
    BY <2>1, FS_Interval
  <2>3. Cardinality(1 .. n) = n
    BY <2>1, <2>2
  <2>. QED BY <2>3 DEF n
<1>. QED BY <1>3, <1>4, MeshesSeq

(* The elements of a sequence are the ones at its indices.                 *)
LEMMA ElementsOf ==
  ASSUME NEW S, NEW s \in Seq(S)
  PROVE  /\ \A x : x \in ToSet(s) <=> \E i \in 1 .. Len(s) : x = s[i]
         /\ ToSet(s) \subseteq S
         /\ s # <<>> <=> ToSet(s) # {}
         /\ s # <<>> => Head(s) \in ToSet(s) /\ Head(s) = s[1]
<1>1. DOMAIN s = 1 .. Len(s) /\ Len(s) \in Nat /\ \A i \in 1 .. Len(s) : s[i] \in S
  OBVIOUS
<1>2. \A x : x \in ToSet(s) <=> \E i \in 1 .. Len(s) : x = s[i]
  BY <1>1 DEF ToSet
<1>3. s # <<>> => 1 \in 1 .. Len(s) /\ Head(s) = s[1]
  OBVIOUS
<1>4. s = <<>> => Len(s) = 0
  OBVIOUS
<1>5. ToSet(s) \subseteq S
  BY <1>1, <1>2
<1>6. s # <<>> => Head(s) \in ToSet(s)
  BY <1>2, <1>3
<1>7. s = <<>> => ToSet(s) = {}
  BY <1>1, <1>2, <1>4
<1>. QED BY <1>2, <1>3, <1>5, <1>6, <1>7

(* Appending adds one element and keeps the head.                          *)
LEMMA Appended ==
  ASSUME NEW S, NEW s \in Seq(S), NEW x \in S
  PROVE  /\ Append(s, x) \in Seq(S) /\ Append(s, x) # <<>>
         /\ ToSet(Append(s, x)) = ToSet(s) \cup {x}
         /\ s # <<>> => Head(Append(s, x)) = Head(s)
         /\ IsInjective(s) /\ x \notin ToSet(s) => IsInjective(Append(s, x))
<1>1. /\ Append(s, x) \in Seq(S) /\ Len(Append(s, x)) = Len(s) + 1 /\ Len(s) \in Nat
      /\ \A i \in 1 .. Len(s) : Append(s, x)[i] = s[i]
      /\ Append(s, x)[Len(s) + 1] = x
      /\ DOMAIN s = 1 .. Len(s) /\ DOMAIN Append(s, x) = 1 .. Len(s) + 1
  OBVIOUS
<1>. DEFINE t == Append(s, x)
<1>. HIDE DEF t
<1>2. ToSet(t) = ToSet(s) \cup {x}
  <2>1. ASSUME NEW y \in ToSet(t) PROVE y \in ToSet(s) \cup {x}
    BY <1>1 DEF ToSet, t
  <2>2. ASSUME NEW y \in ToSet(s) PROVE y \in ToSet(t)
    <3>1. PICK i \in 1 .. Len(s) : y = s[i]
      BY <1>1 DEF ToSet
    <3>2. i \in 1 .. Len(s) + 1 /\ y = t[i]
      BY <1>1, <3>1 DEF t
    <3>. QED BY <1>1, <3>2 DEF ToSet, t
  <2>3. x \in ToSet(t)
    <3>1. Len(s) + 1 \in 1 .. Len(s) + 1 /\ x = t[Len(s) + 1]
      BY <1>1 DEF t
    <3>. QED BY <1>1, <3>1 DEF ToSet, t
  <2>. QED BY <2>1, <2>2, <2>3
<1>3. IsInjective(s) /\ x \notin ToSet(s) => IsInjective(t)
  <2>. SUFFICES ASSUME IsInjective(s), x \notin ToSet(s),
                       NEW i \in 1 .. Len(s) + 1, NEW j \in 1 .. Len(s) + 1, t[i] = t[j]
                PROVE  i = j
    BY <1>1 DEF IsInjective, t
  <2>1. \A k \in 1 .. Len(s) : s[k] # x
    BY <1>1 DEF ToSet
  <2>2. \A k \in 1 .. Len(s) + 1 : k \in 1 .. Len(s) \/ k = Len(s) + 1
    BY <1>1
  <2>. QED BY <1>1, <2>1, <2>2 DEF IsInjective, t
<1>4. s # <<>> => Head(t) = Head(s)
  BY <1>1 DEF t
<1>5. t # <<>>
  BY <1>1 DEF t
<1>. QED BY <1>1, <1>2, <1>3, <1>4, <1>5 DEF t

(* Taking the first element leaves the others.                             *)
LEMMA Taken ==
  ASSUME NEW S, NEW s \in Seq(S), s # <<>>
  PROVE  /\ Tail(s) \in Seq(S) /\ Head(s) \in S
         /\ ToSet(s) = {Head(s)} \cup ToSet(Tail(s))
         /\ IsInjective(s) => IsInjective(Tail(s)) /\ Head(s) \notin ToSet(Tail(s))
<1>1. /\ Tail(s) \in Seq(S) /\ Len(Tail(s)) = Len(s) - 1 /\ Len(s) \in Nat \ {0}
      /\ \A i \in 1 .. Len(s) - 1 : Tail(s)[i] = s[i + 1] /\ i + 1 \in 1 .. Len(s)
      /\ DOMAIN s = 1 .. Len(s) /\ DOMAIN Tail(s) = 1 .. Len(s) - 1
      /\ Head(s) = s[1] /\ 1 \in 1 .. Len(s) /\ Head(s) \in S
  OBVIOUS
<1>. DEFINE t == Tail(s)
<1>. HIDE DEF t
<1>2. ToSet(s) = {Head(s)} \cup ToSet(t)
  <2>1. ASSUME NEW y \in ToSet(s), y # Head(s) PROVE y \in ToSet(t)
    <3>1. PICK i \in 1 .. Len(s) : y = s[i]
      BY <1>1 DEF ToSet
    <3>2. i - 1 \in 1 .. Len(s) - 1 /\ y = t[i - 1]
      BY <1>1, <2>1, <3>1 DEF t
    <3>. QED BY <1>1, <3>2 DEF ToSet, t
  <2>2. ASSUME NEW y \in ToSet(t) PROVE y \in ToSet(s)
    BY <1>1 DEF ToSet, t
  <2>3. Head(s) \in ToSet(s)
    BY <1>1 DEF ToSet
  <2>. QED BY <2>1, <2>2, <2>3
<1>3. IsInjective(s) => IsInjective(t) /\ Head(s) \notin ToSet(t)
  <2>. SUFFICES ASSUME IsInjective(s) PROVE IsInjective(t) /\ Head(s) \notin ToSet(t)
    OBVIOUS
  <2>1. ASSUME NEW i \in 1 .. Len(s) - 1, NEW j \in 1 .. Len(s) - 1, t[i] = t[j]
        PROVE  i = j
    <3>1. i + 1 = j + 1
      BY <1>1, <2>1 DEF IsInjective, t
    <3>. QED BY <3>1
  <2>2. ASSUME NEW i \in 1 .. Len(s) - 1 PROVE t[i] # Head(s)
    <3>1. i + 1 # 1
      OBVIOUS
    <3>. QED BY <1>1, <3>1 DEF IsInjective, t
  <2>. QED BY <1>1, <2>1, <2>2 DEF IsInjective, ToSet, t
<1>. QED BY <1>1, <1>2, <1>3 DEF t

(* Removing an element of a sequence without repetition removes it from    *)
(* its set.                                                                *)
LEMMA Removed ==
  ASSUME NEW S, NEW s \in Seq(S), IsInjective(s), NEW x \in ToSet(s)
  PROVE  /\ RemoveFirst(s, x) \in Seq(S) /\ IsInjective(RemoveFirst(s, x))
         /\ ToSet(RemoveFirst(s, x)) = ToSet(s) \ {x}
<1>. DEFINE I == {i \in 1 .. Len(s) : s[i] = x}
            k == Min(I)
            t == RemoveAt(s, k)
<1>1. Len(s) \in Nat /\ DOMAIN s = 1 .. Len(s) /\ \E i \in 1 .. Len(s) : s[i] = x
  BY ElementsOf
<1>2. k \in I
  <2>1. I # {} /\ I \subseteq Nat
    BY <1>1
  <2>. HIDE DEF I
  <2>. QED BY <2>1, LeastIndex
<1>3. RemoveFirst(s, x) = t
  BY <1>1, <1>2 DEF RemoveFirst, SelectInSeq
<1>. HIDE DEF k
<1>4. k \in 1 .. Len(s) /\ s[k] = x
  BY <1>2
<1>5. /\ t \in Seq(S) /\ Len(t) = Len(s) - 1 /\ DOMAIN t = 1 .. Len(s) - 1
      /\ \A i \in 1 .. Len(s) - 1 : t[i] = IF i < k THEN s[i] ELSE s[i + 1]
  <2>. DEFINE a == SubSeq(s, 1, k - 1)
              b == SubSeq(s, k + 1, Len(s))
  <2>1. a \in Seq(S) /\ Len(a) = k - 1 /\ \A i \in 1 .. k - 1 : a[i] = s[i]
    BY <1>1, <1>4
  <2>2. b \in Seq(S) /\ Len(b) = Len(s) - k /\ \A i \in 1 .. Len(s) - k : b[i] = s[k + i]
    <3>1. k + 1 \in 1 .. Len(s) + 1 /\ Len(s) - (k + 1) + 1 = Len(s) - k
      BY <1>1, <1>4
    <3>2. b \in Seq(S) /\ Len(b) = Len(s) - k
      <4>1. \A i \in k + 1 .. Len(s) : s[i] \in S
        BY <1>1, <1>4
      <4>2. k + 1 \in Int /\ Len(s) \in Int /\ k \in Int /\ k <= Len(s)
        BY <1>1, <1>4
      <4>3. b \in Seq(S) /\ Len(b) = IF k + 1 <= Len(s) THEN Len(s) - (k + 1) + 1 ELSE 0
        BY <4>1, <4>2, SubSeqProperties
      <4>4. k + 1 <= Len(s) \/ k = Len(s)
        BY <4>2
      <4>. HIDE DEF b
      <4>5. CASE k + 1 <= Len(s)
        BY <3>1, <4>3, <4>5
      <4>6. CASE k = Len(s)
        BY <4>2, <4>3, <4>6
      <4>. QED BY <4>4, <4>5, <4>6
    <3>3. ASSUME NEW i \in 1 .. Len(s) - k PROVE b[i] = s[k + i]
      <4>1. i \in 1 .. Len(s) - (k + 1) + 1 /\ (k + 1) + i - 1 = k + i
        BY <1>1, <1>4
      <4>. QED BY <1>1, <1>4, <4>1
    <3>. QED BY <3>2, <3>3
  <2>3. t = a \o b
    BY DEF RemoveAt
  <2>. HIDE DEF a, b, t
  <2>4. t \in Seq(S) /\ Len(t) = Len(s) - 1
    <3>1. t \in Seq(S) /\ Len(t) = Len(a) + Len(b)
      BY <2>1, <2>2, <2>3
    <3>. QED BY <1>1, <1>4, <2>1, <2>2, <3>1
  <2>5. ASSUME NEW i \in 1 .. Len(s) - 1 PROVE t[i] = IF i < k THEN s[i] ELSE s[i + 1]
    <3>1. CASE i < k
      BY <1>1, <1>4, <2>1, <2>2, <2>3, <3>1
    <3>2. CASE ~(i < k)
      <4>1. t[i] = b[i - (k - 1)] /\ i - (k - 1) \in 1 .. Len(s) - k
        BY <1>1, <1>4, <2>1, <2>2, <2>3, <3>2
      <4>2. b[i - (k - 1)] = s[k + (i - (k - 1))] /\ k + (i - (k - 1)) = i + 1
        BY <1>4, <2>2, <4>1
      <4>. QED BY <3>2, <4>1, <4>2
    <3>. QED BY <3>1, <3>2
  <2>. QED BY <2>4, <2>5
<1>. HIDE DEF t, I
<1>6. ASSUME NEW i \in 1 .. Len(s) - 1
      PROVE  \E j \in 1 .. Len(s) : j # k /\ t[i] = s[j] /\ j = (IF i < k THEN i ELSE i + 1)
  BY <1>1, <1>4, <1>5
<1>7. IsInjective(t)
  <2>. SUFFICES ASSUME NEW i \in 1 .. Len(s) - 1, NEW j \in 1 .. Len(s) - 1, t[i] = t[j]
                PROVE  i = j
    BY <1>5 DEF IsInjective
  <2>1. (IF i < k THEN i ELSE i + 1) = (IF j < k THEN j ELSE j + 1)
    BY <1>1, <1>6 DEF IsInjective
  <2>. QED BY <1>4, <2>1
<1>8. ToSet(t) = ToSet(s) \ {x}
  <2>1. ASSUME NEW y \in ToSet(t) PROVE y \in ToSet(s) /\ y # x
    <3>1. PICK i \in 1 .. Len(s) - 1 : y = t[i]
      BY <1>5 DEF ToSet
    <3>2. PICK j \in 1 .. Len(s) : j # k /\ y = s[j]
      BY <1>6, <3>1
    <3>. QED BY <1>1, <1>4, <3>2 DEF ToSet, IsInjective
  <2>2. ASSUME NEW y \in ToSet(s), y # x PROVE y \in ToSet(t)
    <3>1. PICK j \in 1 .. Len(s) : y = s[j] /\ j # k
      BY <1>1, <1>4, <2>2 DEF ToSet
    <3>2. CASE j < k
      <4>1. j \in 1 .. Len(s) - 1 /\ t[j] = y
        BY <1>1, <1>4, <1>5, <3>1, <3>2
      <4>. QED BY <1>5, <4>1 DEF ToSet
    <3>3. CASE j > k
      <4>1. j - 1 \in 1 .. Len(s) - 1 /\ t[j - 1] = y
        <5>1. j - 1 \in 1 .. Len(s) - 1 /\ ~(j - 1 < k) /\ (j - 1) + 1 = j
          BY <1>1, <1>4, <3>1, <3>3
        <5>. QED BY <1>5, <3>1, <5>1
      <4>. QED BY <1>5, <4>1 DEF ToSet
    <3>. QED BY <1>4, <3>1, <3>2, <3>3
  <2>. QED BY <2>1, <2>2
<1>. QED BY <1>3, <1>5, <1>7, <1>8

-----------------------------------------------------------------------------
(* The controller's methods *)

Ctl ==
  [members : Meshes,
   status : [Replicas -> {"none", "uninitialized", "ready", "running", "reduced"}],
   in_mesh : SUBSET Replicas, loaded : SUBSET Replicas, init_done : BOOLEAN,
   first_arrived : BOOLEAN, step : 0 .. LastStep, errors : SUBSET Replicas,
   window : BOOLEAN, buildq : [Replicas -> Seq(Meshes)], cmdq : [Replicas -> Seq(Command)]]

(* A well-formed controller: no replica is registered twice, and a replica *)
(* is told to build only meshes that it is part of.                        *)
CtlOK(c) ==
  /\ c \in Ctl /\ IsInjective(c.members)
  /\ \A r \in Replicas : \A m \in ToSet(c.buildq[r]) : r \in ToSet(m)

(* What the methods do to the commands that are being executed, and to the *)
(* mesh.                                                                   *)
HeadsKept(c, d) ==
  \A r \in Replicas :
    c.cmdq[r] # <<>> => d.cmdq[r] # <<>> /\ Head(d.cmdq[r]) = Head(c.cmdq[r])

SameMesh(c, d) ==
  /\ d.members = c.members /\ d.in_mesh = c.in_mesh
  /\ d.buildq = c.buildq /\ d.init_done = c.init_done

Rebuilt(c, d) ==
  /\ d.members = c.members /\ d.in_mesh = c.in_mesh \cup Members(c)
  /\ \A r \in Replicas : d.buildq[r] = IF r \in Members(c) THEN Append(c.buildq[r], c.members)
                                       ELSE c.buildq[r]

(* The registered replicas.                                                *)
LEMMA MembersType ==
  ASSUME NEW c, c \in Ctl
  PROVE  /\ c.members \in Seq(Replicas) /\ Members(c) \subseteq Replicas
         /\ c.members # <<>> <=> Members(c) # {}
         /\ Len(c.members) \in Nat /\ (Len(c.members) > 0 <=> c.members # <<>>)
<1>1. c.members \in Seq(Replicas)
  BY MeshesSeq DEF Ctl
<1>. QED BY <1>1, ElementsOf DEF Members

(* Publishing a command.                                                   *)
LEMMA PublishOK ==
  ASSUME NEW c, CtlOK(c), NEW rs, NEW cmd \in Command
  PROVE  /\ CtlOK(publish(c, rs, cmd)) /\ HeadsKept(c, publish(c, rs, cmd))
         /\ SameMesh(c, publish(c, rs, cmd))
         /\ publish(c, rs, cmd) = [c EXCEPT !.cmdq = publish(c, rs, cmd).cmdq]
<1>. DEFINE q == [r \in Replicas |-> IF r \in rs THEN Append(c.cmdq[r], cmd) ELSE c.cmdq[r]]
            d == [c EXCEPT !.cmdq = q]
<1>1. publish(c, rs, cmd) = d
  BY DEF publish, CtlOK, Ctl
<1>2. \A r \in Replicas : c.cmdq[r] \in Seq(Command)
  BY DEF CtlOK, Ctl
<1>3. ASSUME NEW r \in Replicas
      PROVE  /\ q[r] \in Seq(Command)
             /\ c.cmdq[r] # <<>> => q[r] # <<>> /\ Head(q[r]) = Head(c.cmdq[r])
  <2>1. CASE r \in rs
    <3>1. q[r] = Append(c.cmdq[r], cmd) /\ c.cmdq[r] \in Seq(Command)
      BY <1>2, <2>1
    <3>. QED BY <3>1, Appended
  <2>2. CASE r \notin rs
    BY <1>2, <2>2
  <2>. QED BY <2>1, <2>2
<1>4. q \in [Replicas -> Seq(Command)]
  BY <1>3
<1>. HIDE DEF q
<1>5. d \in Ctl /\ SameMesh(c, d) /\ d.cmdq = q
  BY <1>4 DEF CtlOK, Ctl, SameMesh
<1>6. CtlOK(d)
  BY <1>5 DEF CtlOK, SameMesh
<1>7. HeadsKept(c, d)
  BY <1>3, <1>5 DEF HeadsKept
<1>. QED BY <1>1, <1>5, <1>6, <1>7

(* The other fields.                                                       *)
LEMMA FieldsOK ==
  ASSUME NEW c, CtlOK(c)
  PROVE  /\ \A S \in SUBSET Replicas :
              LET d == [c EXCEPT !.loaded = S]
              IN  CtlOK(d) /\ HeadsKept(c, d) /\ SameMesh(c, d)
         /\ \A S \in SUBSET Replicas, b \in BOOLEAN :
              LET d == [c EXCEPT !.errors = S, !.window = b]
              IN  CtlOK(d) /\ HeadsKept(c, d) /\ SameMesh(c, d)
         /\ \A S \in SUBSET Replicas :
              LET d == [c EXCEPT !.first_arrived = TRUE, !.loaded = S]
              IN  CtlOK(d) /\ HeadsKept(c, d) /\ SameMesh(c, d)
         /\ \A f \in [Replicas -> {"none", "uninitialized", "ready", "running", "reduced"}] :
              LET d == [c EXCEPT !.status = f]
              IN  CtlOK(d) /\ HeadsKept(c, d) /\ SameMesh(c, d)
         /\ \A k \in 0 .. LastStep :
            \A f \in [Replicas -> {"none", "uninitialized", "ready", "running", "reduced"}] :
              LET d == [c EXCEPT !.step = k, !.status = f]
              IN  CtlOK(d) /\ HeadsKept(c, d) /\ SameMesh(c, d)
<1>1. ASSUME NEW d, d \in Ctl, SameMesh(c, d), d.cmdq = c.cmdq
      PROVE  CtlOK(d) /\ HeadsKept(c, d) /\ SameMesh(c, d)
  BY <1>1 DEF CtlOK, SameMesh, HeadsKept
<1>2. ASSUME NEW S \in SUBSET Replicas
      PROVE  /\ [c EXCEPT !.loaded = S] \in Ctl
             /\ SameMesh(c, [c EXCEPT !.loaded = S])
             /\ [c EXCEPT !.loaded = S].cmdq = c.cmdq
  BY DEF CtlOK, Ctl, SameMesh
<1>3. ASSUME NEW S \in SUBSET Replicas, NEW b \in BOOLEAN
      PROVE  /\ [c EXCEPT !.errors = S, !.window = b] \in Ctl
             /\ SameMesh(c, [c EXCEPT !.errors = S, !.window = b])
             /\ [c EXCEPT !.errors = S, !.window = b].cmdq = c.cmdq
  BY DEF CtlOK, Ctl, SameMesh
<1>4. ASSUME NEW S \in SUBSET Replicas
      PROVE  /\ [c EXCEPT !.first_arrived = TRUE, !.loaded = S] \in Ctl
             /\ SameMesh(c, [c EXCEPT !.first_arrived = TRUE, !.loaded = S])
             /\ [c EXCEPT !.first_arrived = TRUE, !.loaded = S].cmdq = c.cmdq
  BY DEF CtlOK, Ctl, SameMesh
<1>5. ASSUME NEW f \in [Replicas -> {"none", "uninitialized", "ready", "running", "reduced"}]
      PROVE  /\ [c EXCEPT !.status = f] \in Ctl
             /\ SameMesh(c, [c EXCEPT !.status = f])
             /\ [c EXCEPT !.status = f].cmdq = c.cmdq
  BY DEF CtlOK, Ctl, SameMesh
<1>6. ASSUME NEW f \in [Replicas -> {"none", "uninitialized", "ready", "running", "reduced"}],
             NEW k \in 0 .. LastStep
      PROVE  /\ [c EXCEPT !.step = k, !.status = f] \in Ctl
             /\ SameMesh(c, [c EXCEPT !.step = k, !.status = f])
             /\ [c EXCEPT !.step = k, !.status = f].cmdq = c.cmdq
  BY DEF CtlOK, Ctl, SameMesh
<1>. QED BY <1>1, <1>2, <1>3, <1>4, <1>5, <1>6

(* Both relations compose.                                                 *)
LEMMA KeptTrans ==
  ASSUME NEW c, NEW d, NEW e
  PROVE  /\ HeadsKept(c, c) /\ SameMesh(c, c)
         /\ HeadsKept(c, d) /\ HeadsKept(d, e) => HeadsKept(c, e)
         /\ SameMesh(c, d) /\ SameMesh(d, e) => SameMesh(c, e)
BY DEF HeadsKept, SameMesh

(* A mesh of the registered replicas is published to each of them.         *)
LEMMA RebuildOK ==
  ASSUME NEW c, CtlOK(c)
  PROVE  LET d == trigger_rebuild_mesh(c)
         IN  /\ CtlOK(d) /\ HeadsKept(c, d) /\ Rebuilt(c, d)
             /\ d = [c EXCEPT !.in_mesh = d.in_mesh, !.buildq = d.buildq]
<1>. DEFINE q == [r \in Replicas |-> IF r \in Members(c) THEN Append(c.buildq[r], c.members)
                                    ELSE c.buildq[r]]
            d == [c EXCEPT !.in_mesh = c.in_mesh \cup Members(c), !.buildq = q]
<1>1. trigger_rebuild_mesh(c) = d
  BY DEF trigger_rebuild_mesh, CtlOK, Ctl
<1>2. /\ \A r \in Replicas : c.buildq[r] \in Seq(Meshes)
      /\ c.members \in Meshes /\ Members(c) \subseteq Replicas
  BY MembersType DEF CtlOK, Ctl
<1>3. ASSUME NEW r \in Replicas
      PROVE  q[r] \in Seq(Meshes) /\ \A m \in ToSet(q[r]) : r \in ToSet(m)
  <2>1. CASE r \in Members(c)
    <3>1. /\ q[r] = Append(c.buildq[r], c.members) /\ c.buildq[r] \in Seq(Meshes)
          /\ c.members \in Meshes
      BY <1>2, <2>1
    <3>2. q[r] \in Seq(Meshes) /\ ToSet(q[r]) = ToSet(c.buildq[r]) \cup {c.members}
      BY <3>1, Appended
    <3>. QED BY <2>1, <3>2 DEF CtlOK, Members
  <2>2. CASE r \notin Members(c)
    BY <1>2, <2>2 DEF CtlOK
  <2>. QED BY <2>1, <2>2
<1>4. q \in [Replicas -> Seq(Meshes)]
  BY <1>3
<1>5. \A r \in Replicas : q[r] = IF r \in Members(c) THEN Append(c.buildq[r], c.members)
                                 ELSE c.buildq[r]
  OBVIOUS
<1>. HIDE DEF q
<1>6. /\ d \in Ctl /\ d.members = c.members /\ d.in_mesh = c.in_mesh \cup Members(c)
      /\ d.buildq = q /\ d.cmdq = c.cmdq
  BY <1>2, <1>4 DEF CtlOK, Ctl
<1>7. CtlOK(d)
  BY <1>3, <1>6 DEF CtlOK
<1>8. Rebuilt(c, d) /\ HeadsKept(c, d)
  BY <1>5, <1>6 DEF Rebuilt, HeadsKept
<1>. QED BY <1>1, <1>6, <1>7, <1>8

(* The source of the weights is registered.                                *)
LEMMA SourceType ==
  ASSUME NEW c, CtlOK(c)
  PROVE  initialized_replica(c) # 0 => initialized_replica(c) \in Members(c)
<1>. DEFINE I == {i \in 1 .. Len(c.members) : c.members[i] \in c.loaded}
<1>1. I \subseteq Nat /\ I \subseteq 1 .. Len(c.members)
  OBVIOUS
<1>2. SelectInSeq(c.members, LAMBDA r : r \in c.loaded) = IF I # {} THEN Min(I) ELSE 0
  BY DEF SelectInSeq
<1>. HIDE DEF I
<1>3. I # {} => Min(I) \in 1 .. Len(c.members)
  BY <1>1, LeastIndex
<1>4. \A i \in 1 .. Len(c.members) : c.members[i] \in Members(c)
  BY MembersType, ElementsOf DEF Members, CtlOK
<1>. QED BY <1>2, <1>3, <1>4 DEF initialized_replica

(* Methods that leave the mesh alone.                                      *)
Plain(c, d) == CtlOK(d) /\ HeadsKept(c, d) /\ SameMesh(c, d)

(* Setting replicas ready.                                                 *)
LEMMA ReadyOK ==
  ASSUME NEW c, CtlOK(c), NEW rs
  PROVE  Plain(c, set_ready(c, rs))
<1>. DEFINE f == [r \in Replicas |-> IF r \in rs THEN "ready" ELSE c.status[r]]
<1>1. set_ready(c, rs) = [c EXCEPT !.status = f]
  BY DEF set_ready, CtlOK, Ctl
<1>2. f \in [Replicas -> {"none", "uninitialized", "ready", "running", "reduced"}]
  BY DEF CtlOK, Ctl
<1>. HIDE DEF f
<1>3. /\ CtlOK([c EXCEPT !.status = f]) /\ HeadsKept(c, [c EXCEPT !.status = f])
      /\ SameMesh(c, [c EXCEPT !.status = f])
  BY <1>2, FieldsOK
<1>. QED BY <1>1, <1>3 DEF Plain

(* Resuming the first replica from a checkpoint.                           *)
LEMMA ResumeOK ==
  ASSUME NEW c, CtlOK(c), NEW r \in Replicas
  PROVE  Plain(c, weight_resume(c, r))
<1>. DEFINE d == publish(c, {r}, [type |-> "WeightResume"])
<1>1. [type |-> "WeightResume"] \in Command
  BY DEF Command
<1>2. Plain(c, d)
  BY <1>1, PublishOK DEF Plain
<1>. HIDE DEF d
<1>3. d.loaded \cup {r} \in SUBSET Replicas
  BY <1>2 DEF Plain, CtlOK, Ctl
<1>4. Plain(d, [d EXCEPT !.first_arrived = TRUE, !.loaded = d.loaded \cup {r}])
  BY <1>2, <1>3, FieldsOK DEF Plain
<1>5. weight_resume(c, r) = [d EXCEPT !.first_arrived = TRUE, !.loaded = d.loaded \cup {r}]
  BY DEF weight_resume, d
<1>. QED BY <1>2, <1>4, <1>5, KeptTrans DEF Plain

(* Broadcasting the weights of a registered replica.                       *)
LEMMA BroadcastOK ==
  ASSUME NEW c, CtlOK(c), NEW src \in Replicas
  PROVE  Plain(c, broadcast_weights(c, src))
<1>. DEFINE d == publish(c, Members(c), [type |-> "P2PBroadcast", src |-> src])
<1>1. [type |-> "P2PBroadcast", src |-> src] \in Command
  BY DEF Command
<1>2. Plain(c, d)
  BY <1>1, PublishOK DEF Plain
<1>. HIDE DEF d
<1>3. d.loaded \cup Members(c) \in SUBSET Replicas
  BY <1>2, MembersType DEF Plain, CtlOK, Ctl
<1>4. Plain(d, [d EXCEPT !.loaded = d.loaded \cup Members(c)])
  BY <1>2, <1>3, FieldsOK DEF Plain
<1>5. broadcast_weights(c, src) = [d EXCEPT !.loaded = d.loaded \cup Members(c)]
  BY DEF broadcast_weights, d
<1>. QED BY <1>2, <1>4, <1>5, KeptTrans DEF Plain

(* Sending the weights of a replica to a new one.                          *)
LEMMA UnicastOK ==
  ASSUME NEW c, CtlOK(c), NEW src \in Replicas, NEW dst \in Replicas
  PROVE  Plain(c, unicast_weights(c, src, dst))
<1>. DEFINE cmd == [type |-> "P2PUnicast", src |-> src, dst |-> dst]
            d == publish(c, {src, dst}, cmd)
<1>1. cmd \in Command
  BY DEF Command
<1>. HIDE DEF cmd
<1>2. Plain(c, d)
  BY <1>1, PublishOK DEF Plain
<1>. HIDE DEF d
<1>3. d.loaded \cup {dst} \in SUBSET Replicas
  BY <1>2 DEF Plain, CtlOK, Ctl
<1>4. Plain(d, [d EXCEPT !.loaded = d.loaded \cup {dst}])
  BY <1>2, <1>3, FieldsOK DEF Plain
<1>5. unicast_weights(c, src, dst) = [d EXCEPT !.loaded = d.loaded \cup {dst}]
  BY DEF unicast_weights, d, cmd
<1>. QED BY <1>2, <1>4, <1>5, KeptTrans DEF Plain

(* What follows a registration: nothing, or the mesh is built and with it  *)
(* initialization is done.                                                 *)
Built(c, d) == CtlOK(d) /\ HeadsKept(c, d) /\ Rebuilt(c, d) /\ d.init_done

(* The hook of a registration tells nobody, or tells everybody to build.   *)
LEMMA HookOK ==
  ASSUME NEW c, CtlOK(c), NEW r \in Replicas
  PROVE  Plain(c, post_register_hook(c, r)) \/ Built(c, post_register_hook(c, r))
<1>0. Len(c.members) \in Nat /\ NInit \in Nat /\ NInit >= 1
  <2>1. c \in Ctl
    BY DEF CtlOK
  <2>. QED BY <2>1, MembersType, MeshAssumption
<1>1. Plain(c, c)
  BY KeptTrans DEF Plain
<1>2. ASSUME NEW d, NEW e, Built(c, d), Plain(d, e) PROVE Built(c, e)
  <2>1. HeadsKept(c, e)
    BY <1>2, KeptTrans DEF Built, Plain
  <2>. QED BY <1>2, <2>1 DEF Built, Plain, Rebuilt, SameMesh
<1>3. initialized_replica(c) # 0 => initialized_replica(c) \in Replicas
  BY SourceType, MembersType DEF CtlOK
<1>7. \A n \in Nat : (n > 1 => n # 1) /\ (n >= 1 => n = 1 \/ n > 1)
  OBVIOUS
<1>4. CASE ~c.init_done /\ Len(c.members) >= NInit
  <2>. DEFINE i == [c EXCEPT !.init_done = TRUE]
              b == trigger_rebuild_mesh(i)
              src == initialized_replica(c)
  <2>1. /\ CtlOK(i) /\ i.init_done /\ i.members = c.members /\ i.buildq = c.buildq
        /\ i.in_mesh = c.in_mesh /\ i.cmdq = c.cmdq
    BY DEF CtlOK, Ctl
  <2>. HIDE DEF i
  <2>2. CtlOK(b) /\ HeadsKept(i, b) /\ Rebuilt(i, b)
        /\ b = [i EXCEPT !.in_mesh = b.in_mesh, !.buildq = b.buildq]
    BY <2>1, RebuildOK
  <2>3. b.init_done
    <3>. HIDE DEF b
    <3>1. [i EXCEPT !.in_mesh = b.in_mesh, !.buildq = b.buildq].init_done
      BY <2>1 DEF CtlOK, Ctl
    <3>. QED BY <2>2, <3>1
  <2>4. Built(c, b)
    BY <2>1, <2>2, <2>3 DEF Built, HeadsKept, Rebuilt, Members
  <2>5. post_register_hook(c, r) = finish_initialization(c)
    <3>1. ~(Len(c.members) < NInit)
      BY <1>0, <1>4
    <3>. QED BY <1>4, <3>1 DEF post_register_hook
  <2>. HIDE DEF b, src
  <2>6. CASE Len(c.members) = 1
    <3>1. finish_initialization(c) = set_ready(b, Members(c))
      BY <2>6 DEF finish_initialization, b, i
    <3>2. Plain(b, set_ready(b, Members(c)))
      BY <2>2, ReadyOK
    <3>. QED BY <1>2, <2>4, <2>5, <3>1, <3>2
  <2>7. CASE Len(c.members) > 1 /\ src = 0
    <3>1. Len(c.members) # 1
      BY <1>0, <1>7, <2>7
    <3>2. finish_initialization(c) = b
      BY <2>7, <3>1 DEF finish_initialization, b, i, src
    <3>. QED BY <2>4, <2>5, <3>2
  <2>8. CASE Len(c.members) > 1 /\ src # 0
    <3>1. Len(c.members) # 1
      BY <1>0, <1>7, <2>8
    <3>2. finish_initialization(c) = set_ready(broadcast_weights(b, src), Members(c))
      BY <2>8, <3>1 DEF finish_initialization, b, i, src
    <3>3. src \in Replicas
      BY <1>3, <2>8 DEF src
    <3>4. Plain(b, broadcast_weights(b, src))
      BY <2>2, <3>3, BroadcastOK
    <3>5. Plain(broadcast_weights(b, src), set_ready(broadcast_weights(b, src), Members(c)))
      BY <3>4, ReadyOK DEF Plain
    <3>. QED BY <1>2, <2>4, <2>5, <3>2, <3>4, <3>5
  <2>9. Len(c.members) >= 1
    BY <1>0, <1>4
  <2>10. Len(c.members) = 1 \/ Len(c.members) > 1
    BY <1>0, <1>7, <2>9
  <2>. QED BY <2>6, <2>7, <2>8, <2>10
<1>5. CASE ~c.init_done /\ ~(Len(c.members) >= NInit)
  <2>1. Len(c.members) < NInit
    BY <1>0, <1>5
  <2>2. post_register_hook(c, r) = c
    BY <1>5, <2>1 DEF post_register_hook
  <2>. QED BY <1>1, <2>2
<1>6. CASE c.init_done
  <2>. DEFINE b == trigger_rebuild_mesh(c)
              src == initialized_replica(c)
  <2>1. post_register_hook(c, r) = scale_up(c, r)
    BY <1>6 DEF post_register_hook
  <2>2. CASE src = 0
    <3>1. scale_up(c, r) = c
      BY <2>2 DEF scale_up
    <3>. QED BY <1>1, <2>1, <3>1
  <2>3. CASE src # 0
    <3>1. scale_up(c, r) = set_ready(unicast_weights(b, src, r), {r})
      BY <2>3 DEF scale_up
    <3>2. src \in Replicas
      BY <1>3, <2>3
    <3>3. CtlOK(b) /\ HeadsKept(c, b) /\ Rebuilt(c, b)
          /\ b = [c EXCEPT !.in_mesh = b.in_mesh, !.buildq = b.buildq]
      BY RebuildOK
    <3>. HIDE DEF b, src
    <3>4. [c EXCEPT !.in_mesh = b.in_mesh, !.buildq = b.buildq].init_done
      BY <1>6 DEF CtlOK, Ctl
    <3>5. Built(c, b)
      BY <3>3, <3>4 DEF Built
    <3>6. Plain(b, unicast_weights(b, src, r))
      BY <3>2, <3>3, UnicastOK
    <3>7. Plain(unicast_weights(b, src, r), set_ready(unicast_weights(b, src, r), {r}))
      BY <3>6, ReadyOK DEF Plain
    <3>. QED BY <1>2, <2>1, <3>1, <3>5, <3>6, <3>7
  <2>. QED BY <2>2, <2>3
<1>. QED BY <1>4, <1>5, <1>6

(* A registration adds the replica; the mesh is rebuilt only once          *)
(* initialization is done.                                                 *)
Arrived(c, r) == [c EXCEPT !.members = Append(c.members, r), !.status[r] = "uninitialized"]

(* A new replica stands last among the members, outside the mesh.          *)
LEMMA ArrivedOK ==
  ASSUME NEW c, CtlOK(c), NEW r \in Replicas, r \notin Members(c)
  PROVE  LET d == Arrived(c, r)
         IN  /\ CtlOK(d) /\ HeadsKept(c, d) /\ d.members = Append(c.members, r)
             /\ Members(d) = Members(c) \cup {r} /\ d.in_mesh = c.in_mesh
             /\ d.buildq = c.buildq /\ d.init_done = c.init_done
<1>. DEFINE d == Arrived(c, r)
            s == Append(c.members, r)
<1>1. c.members \in Seq(Replicas) /\ IsInjective(c.members) /\ r \notin ToSet(c.members)
  BY MembersType DEF CtlOK, Members
<1>2. s \in Seq(Replicas) /\ IsInjective(s) /\ ToSet(s) = ToSet(c.members) \cup {r}
  BY <1>1, Appended
<1>3. s \in Meshes
  BY <1>2, InjectiveMesh
<1>. HIDE DEF s
<1>4. /\ d \in Ctl /\ d.members = s /\ d.in_mesh = c.in_mesh /\ d.cmdq = c.cmdq
      /\ d.buildq = c.buildq /\ d.init_done = c.init_done
  BY <1>3 DEF CtlOK, Ctl, Arrived, s
<1>. HIDE DEF d
<1>5. CtlOK(d) /\ HeadsKept(c, d) /\ Members(d) = Members(c) \cup {r}
  BY <1>2, <1>4 DEF CtlOK, HeadsKept, Members
<1>. QED BY <1>4, <1>5 DEF d, s

(* A registration keeps the streams, and all members build or none does.   *)
LEMMA RegisterOK ==
  ASSUME NEW c, CtlOK(c), NEW r \in Replicas, r \notin Members(c)
  PROVE  LET d == register(c, r)
         IN  /\ CtlOK(d) /\ HeadsKept(c, d)
             /\ d.members = Append(c.members, r) /\ Members(d) = Members(c) \cup {r}
             /\ \/ /\ d.in_mesh = c.in_mesh /\ d.init_done = c.init_done
                   /\ d.buildq = c.buildq
                \/ /\ d.init_done
                   /\ \A q \in Replicas :
                        d.buildq[q] = IF q \in Members(d) THEN Append(c.buildq[q], d.members)
                                      ELSE c.buildq[q]
<1>. DEFINE a == Arrived(c, r)
            w == weight_resume(a, r)
            d == register(c, r)
<1>1. /\ CtlOK(a) /\ HeadsKept(c, a) /\ a.members = Append(c.members, r)
      /\ Members(a) = Members(c) \cup {r} /\ a.in_mesh = c.in_mesh
      /\ a.buildq = c.buildq /\ a.init_done = c.init_done
  BY ArrivedOK
<1>2. d \in {a, post_register_hook(w, r), post_register_hook(a, r)}
  BY DEF register, Arrived, CtlOK, Ctl
<1>. HIDE DEF a, d
<1>3. Plain(a, w)
  BY <1>1, ResumeOK
<1>. HIDE DEF w
<1>4. Plain(a, a)
  BY <1>1, KeptTrans DEF Plain
<1>5. ASSUME NEW x, Plain(a, x), Plain(x, d) PROVE Plain(a, d)
  BY <1>5, KeptTrans DEF Plain
<1>6. ASSUME NEW x, Plain(a, x), Built(x, d) PROVE Built(a, d)
  <2>1. HeadsKept(a, d)
    BY <1>6, KeptTrans DEF Plain, Built
  <2>. QED BY <1>6, <2>1 DEF Built, Plain, Rebuilt, SameMesh, Members
<1>7. ASSUME NEW x, Plain(a, x), d = post_register_hook(x, r) PROVE Plain(a, d) \/ Built(a, d)
  <2>1. Plain(x, d) \/ Built(x, d)
    BY <1>7, HookOK DEF Plain
  <2>. QED BY <1>5, <1>6, <1>7, <2>1
<1>8. Plain(a, d) \/ Built(a, d)
  BY <1>2, <1>3, <1>4, <1>7
<1>9. HeadsKept(c, d) /\ CtlOK(d)
  BY <1>1, <1>8, KeptTrans DEF Plain, Built
<1>10. CASE Plain(a, d)
  BY <1>1, <1>9, <1>10 DEF Plain, SameMesh, Members, d
<1>11. CASE Built(a, d)
  BY <1>1, <1>9, <1>11 DEF Built, Rebuilt, Members, d
<1>. QED BY <1>8, <1>10, <1>11

(* Unregistering a replica shrinks the mesh; the survivors are told when   *)
(* it was part of it.                                                      *)
LEMMA UnregisterOK ==
  ASSUME NEW c, CtlOK(c), NEW r \in Members(c)
  PROVE  LET d == unregister(c, r)
         IN  /\ CtlOK(d) /\ HeadsKept(c, d) /\ Members(d) = Members(c) \ {r}
             /\ d.init_done = c.init_done
             /\ \/ d.in_mesh \subseteq c.in_mesh /\ d.buildq = c.buildq
                \/ /\ r \in c.in_mesh
                   /\ \A q \in Replicas :
                        d.buildq[q] = IF q \in Members(d) THEN Append(c.buildq[q], d.members)
                                      ELSE c.buildq[q]
<1>. DEFINE s == RemoveFirst(c.members, r)
            l == [c EXCEPT !.members = s, !.status[r] = "none", !.in_mesh = c.in_mesh \ {r},
                           !.loaded = c.loaded \ {r}, !.errors = c.errors \ {r}]
            t == trigger_rebuild_mesh(l)
            d == unregister(c, r)
<1>1. r \in Replicas /\ c.members \in Seq(Replicas) /\ IsInjective(c.members)
  BY MembersType DEF CtlOK
<1>2. s \in Seq(Replicas) /\ IsInjective(s) /\ ToSet(s) = ToSet(c.members) \ {r}
  BY <1>1, Removed DEF Members
<1>3. s \in Meshes
  BY <1>2, InjectiveMesh
<1>. HIDE DEF s
<1>4. /\ l \in Ctl /\ l.members = s /\ l.in_mesh = c.in_mesh \ {r} /\ l.cmdq = c.cmdq
      /\ l.buildq = c.buildq /\ l.init_done = c.init_done
  BY <1>1, <1>3 DEF CtlOK, Ctl
<1>5. d \in {l, t} /\ (r \notin c.in_mesh => d = l)
  BY DEF unregister, s, CtlOK, Ctl
<1>. HIDE DEF l, d
<1>6. CtlOK(l) /\ HeadsKept(c, l) /\ Members(l) = Members(c) \ {r}
  BY <1>2, <1>4 DEF CtlOK, HeadsKept, Members
<1>7. CtlOK(t) /\ HeadsKept(l, t) /\ Rebuilt(l, t)
      /\ t = [l EXCEPT !.in_mesh = t.in_mesh, !.buildq = t.buildq]
  BY <1>6, RebuildOK
<1>. HIDE DEF t
<1>8. t.init_done = c.init_done
  BY <1>4, <1>7 DEF Ctl
<1>9. HeadsKept(c, t)
  BY <1>6, <1>7, KeptTrans
<1>10. CASE d = l
  BY <1>4, <1>6, <1>10 DEF d
<1>11. CASE d = t /\ r \in c.in_mesh
  BY <1>4, <1>6, <1>7, <1>8, <1>9, <1>11 DEF Rebuilt, Members, d
<1>. QED BY <1>5, <1>10, <1>11

(* A report of an NCCL error.                                              *)
LEMMA ReportOK ==
  ASSUME NEW c, CtlOK(c), NEW r \in Replicas
  PROVE  Plain(c, set_replica_ncclerror(c, r))
<1>1. Plain(c, c)
  BY KeptTrans DEF Plain
<1>2. c.errors \cup {r} \in SUBSET Replicas
  BY DEF CtlOK, Ctl
<1>3. Plain(c, [c EXCEPT !.errors = c.errors \cup {r}, !.window = TRUE])
  BY <1>2, FieldsOK DEF Plain
<1>. QED BY <1>1, <1>3 DEF set_replica_ncclerror

(* A training step is dispatched.                                          *)
LEMMA DispatchOK ==
  ASSUME NEW c, CtlOK(c), c.step < LastStep
  PROVE  Plain(c, try_trigger_data_fetch_and_training(c))
<1>. DEFINE cmd == [type |-> "DataFetch", step |-> c.step + 1]
            d == publish(c, Members(c), cmd)
            f == [r \in Replicas |-> IF r \in Members(c) THEN "running" ELSE d.status[r]]
<1>1. c.step + 1 \in 1 .. LastStep /\ c.step + 1 \in 0 .. LastStep /\ cmd \in Command
  BY MeshAssumption DEF CtlOK, Ctl, Command
<1>. HIDE DEF cmd
<1>2. Plain(c, d) /\ d = [c EXCEPT !.cmdq = d.cmdq]
  BY <1>1, PublishOK DEF Plain
<1>3. try_trigger_data_fetch_and_training(c) = [d EXCEPT !.step = d.step + 1, !.status = f]
  BY DEF try_trigger_data_fetch_and_training, cmd, d
<1>. HIDE DEF d
<1>4. d.step = c.step
  BY <1>2 DEF CtlOK, Ctl
<1>5. f \in [Replicas -> {"none", "uninitialized", "ready", "running", "reduced"}]
  BY <1>2 DEF Plain, CtlOK, Ctl
<1>. HIDE DEF f
<1>6. CtlOK(d) /\ d.step + 1 \in 0 .. LastStep
  BY <1>1, <1>2, <1>4 DEF Plain
<1>7. LET e == [d EXCEPT !.step = d.step + 1, !.status = f]
      IN  CtlOK(e) /\ HeadsKept(d, e) /\ SameMesh(d, e)
  BY <1>5, <1>6, FieldsOK
<1>. QED BY <1>2, <1>3, <1>7, KeptTrans DEF Plain

(* An ACK of a training step.                                              *)
LEMMA AckOK ==
  ASSUME NEW c, CtlOK(c), NEW r \in Replicas
  PROVE  Plain(c, train_ack(c, r))
<1>. DEFINE f == [c.status EXCEPT ![r] = "reduced"]
            a == [c EXCEPT !.status = f]
<1>1. f \in [Replicas -> {"none", "uninitialized", "ready", "running", "reduced"}]
  BY DEF CtlOK, Ctl
<1>2. [c EXCEPT !.status[r] = "reduced"] = a
  BY DEF CtlOK, Ctl
<1>. HIDE DEF f
<1>3. CtlOK(a) /\ HeadsKept(c, a) /\ SameMesh(c, a)
  BY <1>1, FieldsOK
<1>4. train_ack(c, r) \in {a, set_ready(a, Members(c))}
  BY <1>2 DEF train_ack
<1>. HIDE DEF a
<1>5. Plain(a, set_ready(a, Members(c)))
  BY <1>3, ReadyOK
<1>. QED BY <1>3, <1>4, <1>5, KeptTrans DEF Plain

(* The recursion in post_ncclerror, spelled out.                           *)
SweepBody(c, g, n) ==
  CASE n = 0 -> c
    [] n > 0 /\ c.members[n] \in c.errors -> g[n - 1]
    [] OTHER -> unregister(g[n - 1], c.members[n])
SweepFn(c) == CHOOSE g : g = [n \in 0 .. Len(c.members) |-> SweepBody(c, g, n)]

(* It is well founded: there is such a function, a member at a time.       *)
LEMMA SweepDefined ==
  ASSUME NEW c, Len(c.members) \in Nat
  PROVE  SweepFn(c) = [n \in 0 .. Len(c.members) |-> SweepBody(c, SweepFn(c), n)]
<1>. DEFINE P(k) == \E g : g = [n \in 0 .. k |-> SweepBody(c, g, n)]
            T == {k \in Nat : ~P(k)}
<1>1. P(0)
  <2>. DEFINE g == [n \in 0 .. 0 |-> c]
  <2>1. \A n \in 0 .. 0 : SweepBody(c, g, n) = c
    BY DEF SweepBody
  <2>2. g = [n \in 0 .. 0 |-> SweepBody(c, g, n)]
    BY <2>1
  <2>. QED BY <2>2
<1>2. ASSUME NEW k \in Nat, P(k) PROVE P(k + 1)
  <2>1. PICK g : g = [n \in 0 .. k |-> SweepBody(c, g, n)]
    BY <1>2
  <2>. DEFINE h == [n \in 0 .. k + 1 |-> SweepBody(c, g, n)]
  <2>2. ASSUME NEW n \in 0 .. k PROVE h[n] = g[n]
    <3>1. n \in 0 .. k + 1
      OBVIOUS
    <3>2. g[n] = SweepBody(c, g, n)
      BY <2>1
    <3>. QED BY <3>1, <3>2
  <2>3. ASSUME NEW n \in 0 .. k + 1 PROVE SweepBody(c, g, n) = SweepBody(c, h, n)
    <3>1. CASE n = 0
      BY <3>1 DEF SweepBody
    <3>2. CASE n > 0
      <4>1. n - 1 \in 0 .. k
        BY <3>2
      <4>2. h[n - 1] = g[n - 1]
        BY <2>2, <4>1
      <4>. HIDE DEF h
      <4>. QED BY <3>2, <4>2 DEF SweepBody
    <3>. QED BY <3>1, <3>2
  <2>4. h = [n \in 0 .. k + 1 |-> SweepBody(c, h, n)]
    BY <2>3
  <2>. HIDE DEF h
  <2>. QED BY <2>4
<1>3. T = {}
  <2>. SUFFICES ASSUME T # {} PROVE FALSE
    OBVIOUS
  <2>1. T \subseteq Nat
    OBVIOUS
  <2>. HIDE DEF T, P
  <2>2. Min(T) \in T /\ \A k \in T : Min(T) <= k
    BY <2>1, LeastIndex
  <2>. DEFINE k == Min(T)
  <2>. HIDE DEF k
  <2>3. k \in Nat /\ ~P(k) /\ k # 0 /\ \A j \in T : k <= j
    BY <1>1, <2>2 DEF T, k
  <2>4. k - 1 \in Nat /\ ~(k <= k - 1) /\ k = (k - 1) + 1
    BY <2>3
  <2>5. P(k - 1)
    BY <2>3, <2>4 DEF T
  <2>. QED BY <1>2, <2>3, <2>4, <2>5
<1>4. P(Len(c.members))
  BY <1>3
<1>. QED BY <1>4 DEF SweepFn

(* What unregister keeps, one replica at a time, the sweep keeps: X is a   *)
(* set of controllers that unregister does not leave.                      *)
LEMMA Sweep ==
  ASSUME NEW X, \A d \in X : CtlOK(d) /\ \A r \in Members(d) : unregister(d, r) \in X,
         NEW c \in X
  PROVE  \E d \in X : post_ncclerror(c) = [d EXCEPT !.errors = {}, !.window = FALSE]
<1>. DEFINE N == Len(c.members)
            g == SweepFn(c)
            Q(n) == /\ g[n] \in X
                    /\ \A k \in n + 1 .. N : c.members[k] \in Members(g[n])
            T == {n \in 0 .. N : ~Q(n)}
<1>1. CtlOK(c) /\ c.members \in Seq(Replicas) /\ N \in Nat
  BY MembersType DEF CtlOK
<1>2. g = [n \in 0 .. N |-> SweepBody(c, g, n)]
  BY <1>1, SweepDefined
<1>3. post_ncclerror(c) = [g[N] EXCEPT !.errors = {}, !.window = FALSE]
  BY DEF post_ncclerror, SweepFn, SweepBody
<1>. HIDE DEF g, N
<1>4. \A k \in 1 .. N : c.members[k] \in Members(c)
  BY <1>1, ElementsOf DEF Members, N
<1>5. Q(0)
  <2>1. g[0] = c
    BY <1>1, <1>2 DEF SweepBody
  <2>. QED BY <1>1, <1>4, <2>1
<1>6. ASSUME NEW n \in 1 .. N, Q(n - 1) PROVE Q(n)
  <2>. DEFINE d == g[n - 1]
              r == c.members[n]
  <2>1. d \in X /\ CtlOK(d) /\ r \in Members(d)
    <3>1. n \in (n - 1) + 1 .. N
      BY <1>1
    <3>. QED BY <1>6, <3>1
  <2>2. ASSUME NEW k \in n + 1 .. N PROVE c.members[k] \in Members(d) /\ c.members[k] # r
    <3>1. k \in (n - 1) + 1 .. N /\ k \in 1 .. N /\ k # n
      BY <1>1
    <3>2. DOMAIN c.members = 1 .. N
      BY <1>1 DEF N
    <3>. QED BY <1>1, <1>6, <3>1, <3>2 DEF CtlOK, IsInjective
  <2>3. g[n] = SweepBody(c, g, n)
    <3>1. n \in 0 .. N
      BY <1>1
    <3>. QED BY <1>2, <3>1
  <2>4. n # 0 /\ n > 0
    BY <1>1
  <2>5. g[n] \in {d, unregister(d, r)}
    BY <2>3, <2>4 DEF SweepBody
  <2>. HIDE DEF d, r
  <2>6. unregister(d, r) \in X /\ Members(unregister(d, r)) = Members(d) \ {r}
    BY <2>1, UnregisterOK
  <2>. QED BY <2>1, <2>2, <2>5, <2>6
<1>7. T = {}
  <2>. SUFFICES ASSUME T # {} PROVE FALSE
    OBVIOUS
  <2>1. T \subseteq Nat
    BY <1>1
  <2>. HIDE DEF T, Q
  <2>2. Min(T) \in T /\ \A k \in T : Min(T) <= k
    BY <2>1, LeastIndex
  <2>. DEFINE k == Min(T)
  <2>. HIDE DEF k
  <2>3. k \in 0 .. N /\ ~Q(k) /\ k # 0 /\ \A j \in T : k <= j
    BY <1>5, <2>2 DEF T, k
  <2>4. k \in 1 .. N /\ k - 1 \in 0 .. N /\ ~(k <= k - 1)
    BY <1>1, <2>3
  <2>5. Q(k - 1)
    BY <2>3, <2>4 DEF T
  <2>. QED BY <1>6, <2>3, <2>4, <2>5
<1>8. Q(N)
  BY <1>1, <1>7
<1>. QED BY <1>3, <1>8

(* Sweeping the replicas that did not report.                              *)
LEMMA SweepOK ==
  ASSUME NEW c, CtlOK(c)
  PROVE  /\ CtlOK(post_ncclerror(c)) /\ HeadsKept(c, post_ncclerror(c))
         /\ Members(post_ncclerror(c)) \subseteq Members(c)
<1>. DEFINE X == {d \in Ctl : CtlOK(d) /\ HeadsKept(c, d) /\ Members(d) \subseteq Members(c)}
<1>1. c \in X
  BY KeptTrans DEF CtlOK
<1>2. ASSUME NEW d \in X, NEW r \in Members(d) PROVE unregister(d, r) \in X
  <2>1. /\ CtlOK(unregister(d, r)) /\ HeadsKept(d, unregister(d, r))
        /\ Members(unregister(d, r)) = Members(d) \ {r}
    BY UnregisterOK
  <2>. QED BY <2>1, KeptTrans DEF CtlOK
<1>3. PICK d \in X : post_ncclerror(c) = [d EXCEPT !.errors = {}, !.window = FALSE]
  <2>1. \A d \in X : CtlOK(d) /\ \A r \in Members(d) : unregister(d, r) \in X
    BY <1>2
  <2>. HIDE DEF X
  <2>. QED BY <1>1, <2>1, Sweep
<1>4. Plain(d, [d EXCEPT !.errors = {}, !.window = FALSE])
  BY FieldsOK DEF Plain
<1>5. Members(post_ncclerror(c)) = Members(d)
  BY <1>3, <1>4 DEF Plain, SameMesh, Members
<1>. QED BY <1>3, <1>4, <1>5, KeptTrans DEF Plain

-----------------------------------------------------------------------------
(* Type correctness: the inductive invariant *)

Group == [mesh : Meshes, joined : SUBSET Replicas]
Build == [pc : {"idle", "uid", "create", "report", "clear", "gone"}, mesh : Meshes, id : Nat]
Comm == [comm : Nat, mesh : Meshes, ready : BOOLEAN, single : BOOLEAN]
Op == [pc : {"idle", "wait", "lock", "flight", "report", "done"},
       cmd : Command \cup {[type |-> "none"]}, peer : Nat, try : 0 .. MaxRetry]
Weight == (0 .. LastStep) \cup {Unloaded, Spoiled}

Typed ==
  /\ CtlOK(ctl)
  /\ kv \in [DOMAIN kv -> Nat] /\ DOMAIN kv \subseteq Meshes
  /\ groups \in Seq(Group)
  /\ proc \in [Replicas -> {"new", "up", "dead"}]
  /\ bt \in [Replicas -> Build] /\ ha \in [Replicas -> Comm] /\ main \in [Replicas -> Op]
  /\ weights \in [Replicas -> Weight]
  /\ crashes \in 0 .. MaxCrashes

(* Names are fresh: who is registered has started.                         *)
Registered == \A r \in Members(ctl) : proc[r] # "new"

(* g is the unique id of a group for mesh m, among the groups gs.          *)
IdOf(gs, g, m) == g \in 1 .. Len(gs) /\ gs[g].mesh = m

(* A unique id that is posted, or with which a communicator is created or  *)
(* was created, is one of the mesh it is used for; only its replicas join. *)
Posted ==
  /\ \A m \in DOMAIN kv : IdOf(groups, kv[m], m)
  /\ \A g \in 1 .. Len(groups) : groups[g].joined \subseteq ToSet(groups[g].mesh)

Builds ==
  \A r \in Replicas :
    /\ bt[r].pc \in {"uid", "create", "report", "clear"} => r \in ToSet(bt[r].mesh)
    /\ bt[r].pc \in {"create", "report", "clear"} => IdOf(groups, bt[r].id, bt[r].mesh)
    /\ bt[r].pc \in {"idle", "uid", "gone"} => bt[r].id = NoComm

Comms == \A r \in Replicas : ha[r].comm # NoComm => IdOf(groups, ha[r].comm, ha[r].mesh)

(* The main thread works on the first command of its stream, with a rank   *)
(* that exists in the communicator while the operation is in flight.       *)
Ops ==
  \A r \in Replicas :
    /\ main[r].pc # "idle" => ctl.cmdq[r] # <<>> /\ main[r].cmd = Head(ctl.cmdq[r])
    /\ main[r].pc \in {"wait", "lock", "flight", "report"} => main[r].peer >= 1
    /\ main[r].pc = "flight" => /\ LockFree(r) /\ ha[r].comm # NoComm
                                /\ main[r].peer <= Len(ha[r].mesh)

TypeInv == Typed /\ Registered /\ Posted /\ Builds /\ Comms /\ Ops

(* The invariant is stronger than the type invariant of the module.        *)
LEMMA TypeInvType == TypeInv => TypeOK
<1>. SUFFICES ASSUME TypeInv PROVE TypeOK
  OBVIOUS
<1>. USE DEF TypeInv
<1>1. ctl \in Ctl /\ Len(groups) \in Nat /\ DOMAIN groups = 1 .. Len(groups)
  BY DEF Typed, CtlOK
<1>2. ASSUME NEW r \in Replicas
      PROVE  /\ ToSet(ctl.buildq[r]) \subseteq Meshes /\ ToSet(ctl.cmdq[r]) \subseteq Command
             /\ \A m \in ToSet(ctl.buildq[r]) : r \in ToSet(m)
  <2>1. ctl.buildq[r] \in Seq(Meshes) /\ ctl.cmdq[r] \in Seq(Command)
    BY <1>1 DEF Ctl
  <2>. QED BY <2>1, ElementsOf DEF Typed, CtlOK
<1>3. ASSUME NEW r \in Replicas
      PROVE  /\ bt[r] \in [pc : {"idle", "uid", "create", "report", "clear", "gone"},
                           mesh : Meshes, id : 0 .. Len(groups)]
             /\ ha[r] \in [comm : 0 .. Len(groups), mesh : Meshes,
                           ready : BOOLEAN, single : BOOLEAN]
  <2>1. bt[r] \in Build /\ ha[r] \in Comm
    BY DEF Typed
  <2>2. bt[r].id \in 0 .. Len(groups) /\ ha[r].comm \in 0 .. Len(groups)
    BY <1>1, <2>1 DEF Builds, Comms, IdOf, NoComm, Build, Comm
  <2>. QED BY <2>1, <2>2 DEF Build, Comm
<1>4. /\ bt \in [Replicas -> [pc : {"idle", "uid", "create", "report", "clear", "gone"},
                              mesh : Meshes, id : 0 .. Len(groups)]]
      /\ ha \in [Replicas -> [comm : 0 .. Len(groups), mesh : Meshes,
                              ready : BOOLEAN, single : BOOLEAN]]
  BY <1>3 DEF Typed
<1>5. ASSUME NEW r \in Replicas
      PROVE  /\ main[r].pc \in {"idle", "wait", "lock", "flight", "report", "done"}
             /\ main[r].pc # "idle" => main[r].cmd = Head(ctl.cmdq[r])
             /\ main[r].try \in 0 .. MaxRetry
  <2>1. main[r] \in Op
    BY DEF Typed
  <2>. QED BY <2>1 DEF Op, Ops
<1>. QED BY <1>1, <1>2, <1>4, <1>5 DEF TypeOK, Ctl, Typed, Posted, Weight

(* Initially nobody has started.                                           *)
LEMMA TypeInvInit == Init => TypeInv
<1>. SUFFICES ASSUME Init PROVE TypeInv
  OBVIOUS
<1>. USE DEF Init
<1>1. <<>> \in Meshes
  BY EmptyMesh
<1>2. ctl \in Ctl
  BY <1>1, MeshAssumption DEF Ctl
<1>3. CtlOK(ctl) /\ Members(ctl) = {}
  BY <1>2 DEF CtlOK, IsInjective, ToSet, Members
<1>4. bt \in [Replicas -> Build] /\ ha \in [Replicas -> Comm]
  BY <1>1 DEF NoBuild, Build, Comm, NoComm
<1>5. NoOp \in Op
  BY MeshAssumption DEF NoOp, Op
<1>6. main \in [Replicas -> Op] /\ weights \in [Replicas -> Weight] /\ crashes \in 0 .. MaxCrashes
  BY <1>5, MeshAssumption DEF Weight
<1>7. DOMAIN kv = {} /\ kv \in [DOMAIN kv -> Nat] /\ groups \in Seq(Group) /\ Len(groups) = 0
  OBVIOUS
<1>8. Typed
  BY <1>3, <1>4, <1>6, <1>7 DEF Typed
<1>9. Registered /\ Posted /\ Builds
  <2>1. \A r \in Replicas : bt[r].pc = "idle" /\ bt[r].id = NoComm
    BY DEF NoBuild
  <2>2. \A g \in 1 .. Len(groups) : FALSE
    BY <1>7
  <2>. QED BY <1>3, <1>7, <2>1, <2>2 DEF Registered, Posted, Builds
<1>10. Comms /\ Ops
  BY DEF Comms, Ops, NoOp
<1>. QED BY <1>8, <1>9, <1>10 DEF TypeInv

-----------------------------------------------------------------------------
(* Type correctness: the steps *)

(* A step of the controller alone.                                         *)
LEMMA ControllerStep ==
  ASSUME TypeInv, CtlOK(ctl'), HeadsKept(ctl, ctl'),
         proc' \in [Replicas -> {"new", "up", "dead"}],
         \A r \in Members(ctl') : proc'[r] # "new", UNCHANGED <<workerVars, crashes>>
  PROVE  TypeInv'
<1>. USE DEF TypeInv, workerVars
<1>1. Typed' /\ Registered'
  BY DEF Typed, Registered
<1>2. Posted' /\ Builds' /\ Comms'
  BY DEF Posted, Builds, Comms, IdOf
<1>3. Ops'
  BY DEF Ops, HeadsKept, LockFree
<1>. QED BY <1>1, <1>2, <1>3

(* Types: a replica registers.                                             *)
LEMMA RegisterTyped == ASSUME TypeInv, NEW r \in Replicas, Register(r) PROVE TypeInv'
<1>. USE DEF Register
<1>1. r \notin Members(ctl) /\ CtlOK(ctl)
  BY DEF TypeInv, Registered, Typed
<1>2. /\ CtlOK(ctl') /\ HeadsKept(ctl, ctl') /\ Members(ctl') = Members(ctl) \cup {r}
  BY <1>1, RegisterOK
<1>3. /\ proc' \in [Replicas -> {"new", "up", "dead"}] /\ proc'[r] = "up"
      /\ \A q \in Replicas : q # r => proc'[q] = proc[q]
  BY DEF TypeInv, Typed
<1>4. Members(ctl) \subseteq Replicas
  BY <1>1, MembersType DEF CtlOK
<1>5. \A q \in Members(ctl') : proc'[q] # "new"
  BY <1>2, <1>3, <1>4 DEF TypeInv, Registered
<1>. QED BY <1>2, <1>3, <1>5, ControllerStep

(* Types: a replica is unregistered.                                       *)
LEMMA UnregisterTyped == ASSUME TypeInv, NEW r \in Replicas, Unregister(r) PROVE TypeInv'
<1>. USE DEF Unregister
<1>1. CtlOK(ctl) /\ r \in Members(ctl)
  BY DEF TypeInv, Typed
<1>2. /\ CtlOK(ctl') /\ HeadsKept(ctl, ctl') /\ Members(ctl') = Members(ctl) \ {r}
  BY <1>1, UnregisterOK
<1>. QED BY <1>2, ControllerStep DEF TypeInv, Typed, Registered

(* Types: a training step is dispatched.                                   *)
LEMMA DispatchTyped == ASSUME TypeInv, Dispatch PROVE TypeInv'
<1>. USE DEF Dispatch
<1>1. CtlOK(ctl) /\ Plain(ctl, ctl')
  BY DispatchOK DEF TypeInv, Typed
<1>2. Members(ctl') = Members(ctl)
  BY <1>1 DEF Plain, SameMesh, Members
<1>. QED BY <1>1, <1>2, ControllerStep DEF Plain, TypeInv, Typed, Registered

(* Types: the error window ends.                                           *)
LEMMA WindowTyped == ASSUME TypeInv, NcclErrorWindow PROVE TypeInv'
<1>. USE DEF NcclErrorWindow
<1>1. /\ CtlOK(ctl') /\ HeadsKept(ctl, ctl') /\ Members(ctl') \subseteq Members(ctl)
  BY SweepOK DEF TypeInv, Typed
<1>. QED BY <1>1, ControllerStep DEF TypeInv, Typed, Registered

(* The death of a process clears its threads and its streams.              *)
LEMMA DiesTyped ==
  ASSUME TypeInv, NEW r \in Replicas, Dies(r), crashes' \in 0 .. MaxCrashes
  PROVE  TypeInv'
<1>. USE DEF Dies
<1>1. ctl \in Ctl
  BY DEF TypeInv, Typed, CtlOK
<1>2. /\ ctl' \in Ctl /\ ctl'.members = ctl.members
      /\ ctl'.buildq = [ctl.buildq EXCEPT ![r] = <<>>]
      /\ ctl'.cmdq = [ctl.cmdq EXCEPT ![r] = <<>>]
  <2>. DEFINE bq == [ctl.buildq EXCEPT ![r] = <<>>]
              cq == [ctl.cmdq EXCEPT ![r] = <<>>]
  <2>1. bq \in [Replicas -> Seq(Meshes)] /\ cq \in [Replicas -> Seq(Command)]
    <3>1. <<>> \in Seq(Meshes) /\ <<>> \in Seq(Command)
      OBVIOUS
    <3>2. ctl.buildq \in [Replicas -> Seq(Meshes)] /\ ctl.cmdq \in [Replicas -> Seq(Command)]
      BY <1>1 DEF Ctl
    <3>. QED BY <3>1, <3>2
  <2>2. ctl' = [ctl EXCEPT !.buildq = bq, !.cmdq = cq]
    BY <1>1 DEF Ctl
  <2>. HIDE DEF bq, cq
  <2>3. ctl' \in Ctl /\ ctl'.members = ctl.members /\ ctl'.buildq = bq /\ ctl'.cmdq = cq
    BY <1>1, <2>1, <2>2 DEF Ctl
  <2>. QED BY <2>3 DEF bq, cq
<1>3. \A q \in Replicas : /\ q # r => ctl'.buildq[q] = ctl.buildq[q] /\ ctl'.cmdq[q] = ctl.cmdq[q]
                          /\ q = r => ctl'.buildq[q] = <<>>
  BY <1>1, <1>2 DEF Ctl
<1>4. CtlOK(ctl')
  <2>1. ToSet(<<>>) = {}
    BY DEF ToSet
  <2>. QED BY <1>2, <1>3, <2>1 DEF TypeInv, Typed, CtlOK
<1>5. <<>> \in Meshes
  BY EmptyMesh
<1>6. NoBuild \in Build /\ NoOp \in Op
  BY <1>5, MeshAssumption DEF NoBuild, Build, NoComm, NoOp, Op
<1>7. bt' \in [Replicas -> Build] /\ main' \in [Replicas -> Op]
  BY <1>6 DEF TypeInv, Typed
<1>8. /\ ha' \in [Replicas -> Comm] /\ weights' \in [Replicas -> Weight]
      /\ \A q \in Replicas : ha'[q] = IF q = r THEN NoHa ELSE ha[q]
  <2>1. NoHa \in Comm /\ Unloaded \in Weight
    BY <1>5 DEF NoHa, Comm, NoComm, Weight
  <2>. QED BY <2>1 DEF TypeInv, Typed
<1>9. Typed'
  <2>1. proc' \in [Replicas -> {"new", "up", "dead"}]
    BY DEF TypeInv, Typed
  <2>. QED BY <1>4, <1>7, <1>8, <2>1 DEF TypeInv, Typed
<1>10. Registered' /\ Posted'
  BY <1>2 DEF TypeInv, Typed, Registered, Posted, IdOf, Members
<1>11. \A q \in Replicas : bt'[q] = (IF q = r THEN NoBuild ELSE bt[q])
                           /\ main'[q] = (IF q = r THEN NoOp ELSE main[q])
  BY DEF TypeInv, Typed
<1>12. Builds' /\ Comms'
  BY <1>8, <1>11 DEF TypeInv, Builds, Comms, IdOf, NoBuild, NoHa
<1>13. Ops'
  BY <1>3, <1>8, <1>11 DEF TypeInv, Ops, NoOp, LockFree, NoHa
<1>. QED BY <1>9, <1>10, <1>12, <1>13 DEF TypeInv

(* Types: a process dies.                                                  *)
LEMMA CrashTyped == ASSUME TypeInv, NEW r \in Replicas, Crash(r) PROVE TypeInv'
<1>1. crashes' \in 0 .. MaxCrashes
  BY MeshAssumption DEF TypeInv, Typed, Crash
<1>. QED BY <1>1, DiesTyped DEF Crash

(* A record update at one replica, seen replica by replica.                *)
LEMMA At ==
  ASSUME NEW S, NEW f \in [Replicas -> S], NEW r \in Replicas, NEW x \in S,
         NEW h, h = [f EXCEPT ![r] = x]
  PROVE  h \in [Replicas -> S] /\ h[r] = x /\ \A q \in Replicas : q # r => h[q] = f[q]
OBVIOUS

(* A step of the background thread that leaves the communicator and the    *)
(* main thread alone.                                                      *)
LEMMA BuildStep ==
  ASSUME TypeInv, NEW r \in Replicas, NEW b \in Build, bt' = [bt EXCEPT ![r] = b],
         b.pc \in {"uid", "create", "report", "clear"} => r \in ToSet(b.mesh),
         b.pc \in {"create", "report", "clear"} => IdOf(groups', b.id, b.mesh),
         b.pc \in {"idle", "uid", "gone"} => b.id = NoComm,
         main[r].pc = "flight" => b.pc \in {"idle", "gone"},
         Plain(ctl, ctl'), kv' \in [DOMAIN kv' -> Nat], DOMAIN kv' \subseteq Meshes,
         groups' \in Seq(Group), Posted',
         \A g, m : IdOf(groups, g, m) => IdOf(groups', g, m),
         UNCHANGED <<proc, ha, main, weights, crashes>>
  PROVE  TypeInv'
<1>1. bt' \in [Replicas -> Build] /\ \A q \in Replicas : bt'[q] = IF q = r THEN b ELSE bt[q]
  BY DEF TypeInv, Typed
<1>2. Typed'
  BY <1>1 DEF TypeInv, Typed, Plain
<1>3. Registered'
  BY DEF TypeInv, Registered, Plain, SameMesh, Members
<1>4. Builds'
  <2>. SUFFICES ASSUME NEW q \in Replicas
       PROVE  /\ bt'[q].pc \in {"uid", "create", "report", "clear"} => q \in ToSet(bt'[q].mesh)
              /\ bt'[q].pc \in {"create", "report", "clear"}
                   => IdOf(groups', bt'[q].id, bt'[q].mesh)
              /\ bt'[q].pc \in {"idle", "uid", "gone"} => bt'[q].id = NoComm
    BY DEF Builds
  <2>1. CASE q = r
    BY <1>1, <2>1
  <2>2. CASE q # r
    BY <1>1, <2>2 DEF TypeInv, Builds
  <2>. QED BY <2>1, <2>2
<1>5. Comms'
  BY DEF TypeInv, Comms
<1>6. Ops'
  BY <1>1 DEF TypeInv, Ops, LockFree, Plain, HeadsKept
<1>. QED BY <1>2, <1>3, <1>4, <1>5, <1>6 DEF TypeInv

(* Types: rank 0 posts the unique id.                                      *)
LEMMA PostUidTyped == ASSUME TypeInv, NEW r \in Replicas, PostUid(r) PROVE TypeInv'
<1>. DEFINE m == bt[r].mesh
            id == Len(groups) + 1
            g == [mesh |-> m, joined |-> {r}]
            b == [bt[r] EXCEPT !.pc = "create", !.id = id]
<1>. USE DEF PostUid
<1>1. bt[r] \in Build /\ m \in Meshes /\ r \in ToSet(m) /\ groups \in Seq(Group)
  BY DEF TypeInv, Typed, Build, Builds
<1>2. bt' = [bt EXCEPT ![r] = b] /\ b \in Build
  <2>0. id \in Nat
    BY <1>1
  <2>1. bt' = [bt EXCEPT ![r] = b] /\ id \in Nat
    BY <2>0 DEF TypeInv, Typed
  <2>. HIDE DEF id
  <2>2. b \in Build
    BY <1>1, <2>1 DEF Build
  <2>. QED BY <2>1, <2>2
<1>3. g \in Group /\ groups' = Append(groups, g)
  BY <1>1 DEF Group
<1>4. groups' \in Seq(Group) /\ Len(groups') = id /\ Len(groups) \in Nat /\ groups'[id] = g
      /\ \A i \in 1 .. Len(groups) : groups'[i] = groups[i]
  BY <1>1, <1>3
<1>5. IdOf(groups', id, m) /\ \A i, n : IdOf(groups, i, n) => IdOf(groups', i, n)
  BY <1>4 DEF IdOf
<1>6. /\ DOMAIN kv' = DOMAIN kv \cup {m} /\ kv'[m] = id
      /\ \A n \in DOMAIN kv : n # m => kv'[n] = kv[n]
      /\ kv' \in [DOMAIN kv' -> Nat] /\ DOMAIN kv' \subseteq Meshes
  BY <1>1, <1>4 DEF TypeInv, Typed
<1>7. Posted'
  <2>1. ASSUME NEW n \in DOMAIN kv' PROVE IdOf(groups', kv'[n], n)
    BY <1>5, <1>6 DEF TypeInv, Posted
  <2>2. ASSUME NEW i \in 1 .. Len(groups') PROVE groups'[i].joined \subseteq ToSet(groups'[i].mesh)
    <3>1. i \in 1 .. Len(groups) \/ i = id
      BY <1>4
    <3>. QED BY <1>1, <1>4, <3>1 DEF TypeInv, Posted
  <2>. QED BY <2>1, <2>2 DEF Posted
<1>8. Plain(ctl, ctl')
  BY KeptTrans DEF Plain, TypeInv, Typed
<1>9. main[r].pc # "flight"
  BY DEF TypeInv, Ops, LockFree
<1>10. b.pc = "create" /\ b.mesh = m /\ b.id = id
  BY <1>1 DEF Build
<1>11. UNCHANGED <<proc, ha, main, weights, crashes>>
  OBVIOUS
<1>. HIDE DEF b, id, m, g, PostUid
<1>12. /\ b.pc \in {"uid", "create", "report", "clear"} => r \in ToSet(b.mesh)
       /\ b.pc \in {"create", "report", "clear"} => IdOf(groups', b.id, b.mesh)
       /\ b.pc \in {"idle", "uid", "gone"} => b.id = NoComm
  BY <1>1, <1>5, <1>10
<1>. QED BY <1>2, <1>4, <1>5, <1>6, <1>7, <1>8, <1>9, <1>11, <1>12, BuildStep

(* Types: another rank reads the unique id.                                *)
LEMMA AcceptUidTyped == ASSUME TypeInv, NEW r \in Replicas, AcceptUid(r) PROVE TypeInv'
<1>. DEFINE m == bt[r].mesh
            id == kv[m]
            b == [bt[r] EXCEPT !.pc = "create", !.id = id]
<1>. USE DEF AcceptUid
<1>1. bt[r] \in Build /\ m \in Meshes /\ r \in ToSet(m) /\ groups \in Seq(Group)
  BY DEF TypeInv, Typed, Build, Builds
<1>2. IdOf(groups, id, m) /\ id \in Nat
  BY DEF TypeInv, Posted, Typed
<1>3. bt' = [bt EXCEPT ![r] = b] /\ b \in Build
  <2>1. bt' = [bt EXCEPT ![r] = b] /\ id \in Nat
    BY <1>2 DEF TypeInv, Typed
  <2>. HIDE DEF id
  <2>2. b \in Build
    BY <1>1, <2>1 DEF Build
  <2>. QED BY <2>1, <2>2
<1>4. /\ Len(groups') = Len(groups) /\ groups' \in Seq(Group)
      /\ \A i \in 1 .. Len(groups) :
           /\ groups'[i].mesh = groups[i].mesh
           /\ groups'[i].joined = groups[i].joined \cup (IF i = id THEN {r} ELSE {})
  <2>. DEFINE e == [groups[id] EXCEPT !.joined = groups[id].joined \cup {r}]
  <2>1. /\ \A i \in 1 .. Len(groups) : groups[i] \in Group
        /\ groups' = [groups EXCEPT ![id] = e] /\ id \in 1 .. Len(groups)
    BY <1>1, <1>2 DEF IdOf
  <2>2. e \in Group /\ e.mesh = groups[id].mesh /\ e.joined = groups[id].joined \cup {r}
    BY <2>1 DEF Group
  <2>. HIDE DEF e
  <2>3. groups' \in Seq(Group) /\ Len(groups') = Len(groups)
    BY <1>1, <2>1, <2>2
  <2>4. \A i \in 1 .. Len(groups) : groups'[i] = IF i = id THEN e ELSE groups[i]
    BY <1>1, <2>1
  <2>. QED BY <2>1, <2>2, <2>3, <2>4
<1>5. \A i, n : IdOf(groups, i, n) => IdOf(groups', i, n)
  BY <1>4 DEF IdOf
<1>6. Posted'
  BY <1>1, <1>2, <1>4, <1>5 DEF TypeInv, Posted, IdOf
<1>7. Plain(ctl, ctl')
  BY KeptTrans DEF Plain, TypeInv, Typed
<1>8. main[r].pc # "flight"
  BY DEF TypeInv, Ops, LockFree
<1>9. b.pc = "create" /\ b.mesh = m /\ b.id = id /\ IdOf(groups', id, m)
  BY <1>1, <1>2, <1>5 DEF Build
<1>10. kv' \in [DOMAIN kv' -> Nat] /\ DOMAIN kv' \subseteq Meshes
  BY DEF TypeInv, Typed
<1>. HIDE DEF b, id, m
<1>. QED BY <1>1, <1>3, <1>4, <1>5, <1>6, <1>7, <1>8, <1>9, <1>10, BuildStep

(* Types: the unique id does not come.                                     *)
LEMMA AcceptFailsTyped == ASSUME TypeInv, NEW r \in Replicas, AcceptFails(r) PROVE TypeInv'
<1>. DEFINE b == [pc |-> "gone", mesh |-> <<>>, id |-> NoComm]
<1>. USE DEF AcceptFails
<1>1. b \in Build /\ bt' = [bt EXCEPT ![r] = b]
  <2>1. [NoBuild EXCEPT !.pc = "gone"] = b
    BY DEF NoBuild
  <2>. QED BY <2>1, EmptyMesh DEF Build, NoComm
<1>2. b.pc = "gone" /\ b.id = NoComm
  OBVIOUS
<1>3. Plain(ctl, ctl') /\ Posted'
  BY KeptTrans DEF Plain, TypeInv, Typed, Posted
<1>. HIDE DEF b
<1>. QED BY <1>1, <1>2, <1>3, BuildStep DEF TypeInv, Typed

(* Types: rank 0 clears the store.                                         *)
LEMMA ClearStoreTyped == ASSUME TypeInv, NEW r \in Replicas, ClearStore(r) PROVE TypeInv'
<1>. USE DEF ClearStore
<1>1. NoBuild \in Build /\ NoBuild.pc = "idle" /\ NoBuild.id = NoComm
  BY EmptyMesh DEF NoBuild, Build, NoComm
<1>2. /\ DOMAIN kv' = DOMAIN kv \ {bt[r].mesh} /\ \A m \in DOMAIN kv' : kv'[m] = kv[m]
      /\ kv' \in [DOMAIN kv' -> Nat] /\ DOMAIN kv' \subseteq Meshes
  BY DEF Restrict, TypeInv, Typed
<1>3. Plain(ctl, ctl') /\ Posted'
  BY <1>2, KeptTrans DEF Plain, TypeInv, Typed, Posted
<1>. QED BY <1>1, <1>2, <1>3, BuildStep DEF TypeInv, Typed

(* Types: a communicator is not created.                                   *)
LEMMA CreateFailsTyped == ASSUME TypeInv, NEW r \in Replicas, CreateFails(r) PROVE TypeInv'
<1>. DEFINE b == [pc |-> "report", mesh |-> bt[r].mesh, id |-> bt[r].id]
<1>. USE DEF CreateFails
<1>1. b \in Build /\ bt' = [bt EXCEPT ![r] = b] /\ r \in ToSet(bt[r].mesh)
      /\ IdOf(groups, bt[r].id, bt[r].mesh)
  <2>1. bt[r] \in Build /\ bt' = [bt EXCEPT ![r] = [bt[r] EXCEPT !.pc = "report"]]
    BY DEF TypeInv, Typed
  <2>2. [bt[r] EXCEPT !.pc = "report"] = b
    BY <2>1 DEF Build
  <2>. QED BY <2>1, <2>2 DEF Build, TypeInv, Builds
<1>2. b.pc = "report" /\ b.mesh = bt[r].mesh /\ b.id = bt[r].id
  OBVIOUS
<1>3. Plain(ctl, ctl') /\ Posted'
  BY ReportOK DEF TypeInv, Typed, Posted
<1>4. main[r].pc # "flight"
  BY DEF TypeInv, Ops, LockFree
<1>. HIDE DEF b
<1>. QED BY <1>1, <1>2, <1>3, <1>4, BuildStep DEF TypeInv, Typed

(* Types: the failed creation is reported.                                 *)
LEMMA CreateReportedTyped == ASSUME TypeInv, NEW r \in Replicas, CreateReported(r) PROVE TypeInv'
<1>. USE DEF CreateReported
<1>1. NoBuild \in Build /\ NoBuild.pc = "idle" /\ NoBuild.id = NoComm
  BY EmptyMesh DEF NoBuild, Build, NoComm
<1>2. Plain(ctl, ctl') /\ Posted'
  BY KeptTrans DEF Plain, TypeInv, Typed, Posted
<1>. QED BY <1>1, <1>2, BuildStep DEF TypeInv, Typed

(* Types: a communicator is created.                                       *)
LEMMA CommCreatedTyped == ASSUME TypeInv, NEW r \in Replicas, CommCreated(r) PROVE TypeInv'
<1>. DEFINE b == bt[r]
            h == [comm |-> b.id, mesh |-> b.mesh, ready |-> TRUE, single |-> FALSE]
            n == IF b.mesh[1] = r THEN [b EXCEPT !.pc = "clear"] ELSE NoBuild
<1>. USE DEF CommCreated
<1>1. b \in Build /\ b.pc = "create" /\ IdOf(groups, b.id, b.mesh) /\ r \in ToSet(b.mesh)
  BY DEF TypeInv, Typed, Builds
<1>2. h \in Comm /\ ha' = [ha EXCEPT ![r] = h]
  BY <1>1 DEF Build, Comm
<1>3. /\ n \in Build /\ bt' = [bt EXCEPT ![r] = n]
      /\ \/ n.pc = "clear" /\ n.mesh = b.mesh /\ n.id = b.id
         \/ n.pc = "idle" /\ n.id = NoComm
  <2>1. CASE b.mesh[1] = r
    <3>1. n = [b EXCEPT !.pc = "clear"]
      BY <2>1
    <3>2. n \in Build /\ n.pc = "clear" /\ n.mesh = b.mesh /\ n.id = b.id
      BY <1>1, <3>1 DEF Build
    <3>. QED BY <3>2
  <2>2. CASE b.mesh[1] # r
    BY <2>2, EmptyMesh DEF NoBuild, Build, NoComm
  <2>. QED BY <2>1, <2>2
<1>. HIDE DEF n
<1>4. \A q \in Replicas : bt'[q] = (IF q = r THEN n ELSE bt[q])
                          /\ ha'[q] = (IF q = r THEN h ELSE ha[q])
  BY <1>2, <1>3 DEF TypeInv, Typed
<1>5. Typed' /\ Registered' /\ Posted'
  <2>. HIDE DEF h
  <2>1. bt \in [Replicas -> Build] /\ ha \in [Replicas -> Comm]
    BY DEF TypeInv, Typed
  <2>2. bt' \in [Replicas -> Build]
    <3>. HIDE DEF CommCreated, b
    <3>. QED BY <1>3, <2>1
  <2>3. ha' \in [Replicas -> Comm]
    <3>. HIDE DEF CommCreated, b
    <3>. QED BY <1>2, <2>1
  <2>. QED BY <2>2, <2>3 DEF TypeInv, Typed, Registered, Posted
<1>6. Builds'
  BY <1>1, <1>3, <1>4 DEF TypeInv, Builds
<1>7. Comms'
  BY <1>1, <1>4 DEF TypeInv, Comms
<1>8. main[r].pc # "flight"
  BY <1>1 DEF TypeInv, Ops, LockFree
<1>9. Ops'
  BY <1>4, <1>8 DEF TypeInv, Ops, LockFree
<1>. QED BY <1>5, <1>6, <1>7, <1>9 DEF TypeInv

(* Types: the background thread takes a BuildMesh command.                 *)
LEMMA TakeBuildMeshTyped == ASSUME TypeInv, NEW r \in Replicas, TakeBuildMesh(r) PROVE TypeInv'
<1>. DEFINE m == Head(ctl.buildq[r])
            s == Tail(ctl.buildq[r])
<1>. USE DEF TakeBuildMesh
<1>1. CtlOK(ctl) /\ ctl \in Ctl /\ ctl.buildq[r] \in Seq(Meshes) /\ ctl.buildq[r] # <<>>
  BY DEF TypeInv, Typed, CtlOK, Ctl
<1>2. s \in Seq(Meshes) /\ m \in Meshes /\ ToSet(ctl.buildq[r]) = {m} \cup ToSet(s)
  BY <1>1, Taken
<1>3. r \in ToSet(m)
  BY <1>1, <1>2 DEF CtlOK
<1>. HIDE DEF m, s
<1>4. /\ ctl' \in Ctl /\ ctl'.members = ctl.members /\ ctl'.cmdq = ctl.cmdq
      /\ ctl'.buildq = [ctl.buildq EXCEPT ![r] = s]
  <2>. DEFINE bq == [ctl.buildq EXCEPT ![r] = s]
  <2>1. bq \in [Replicas -> Seq(Meshes)] /\ ctl' = [ctl EXCEPT !.buildq = bq]
    BY <1>1, <1>2 DEF Ctl, s
  <2>. HIDE DEF bq
  <2>2. ctl' \in Ctl /\ ctl'.members = ctl.members /\ ctl'.cmdq = ctl.cmdq /\ ctl'.buildq = bq
    BY <1>1, <2>1 DEF Ctl
  <2>. QED BY <2>2 DEF bq
<1>5. CtlOK(ctl')
  <2>1. \A q \in Replicas : ctl'.buildq[q] = IF q = r THEN s ELSE ctl.buildq[q]
    BY <1>1, <1>4 DEF Ctl
  <2>. QED BY <1>1, <1>2, <1>4, <2>1 DEF CtlOK
<1>6. /\ ha' \in [Replicas -> Comm] /\ ha'[r].comm = NoComm
      /\ \A q \in Replicas : q # r => ha'[q] = ha[q]
  <2>. DEFINE x == [comm |-> NoComm, mesh |-> m, ready |-> TRUE, single |-> TRUE]
              y == [ha[r] EXCEPT !.comm = NoComm, !.ready = FALSE]
  <2>0. ha \in [Replicas -> Comm] /\ x \in Comm /\ x.comm = NoComm
    BY <1>2 DEF TypeInv, Typed, Comm, NoComm
  <2>1. y \in Comm /\ y.comm = NoComm
    BY <2>0 DEF Comm, NoComm
  <2>2. Len(m) = 1 => ha' = [ha EXCEPT ![r] = x]
    BY DEF m
  <2>3. Len(m) # 1 => ha' = [ha EXCEPT ![r] = y]
    BY <2>0 DEF m
  <2>. HIDE DEF x, y
  <2>4. CASE Len(m) = 1
    BY <2>0, <2>2, <2>4, At
  <2>5. CASE Len(m) # 1
    BY <2>0, <2>1, <2>3, <2>5, At
  <2>. QED BY <2>4, <2>5
<1>7. /\ bt' \in [Replicas -> Build] /\ \A q \in Replicas : q # r => bt'[q] = bt[q]
      /\ bt'[r].id = NoComm /\ bt'[r].pc \in {"idle", "uid"}
      /\ bt'[r].pc = "uid" => bt'[r].mesh = m
  <2>1. CASE Len(m) = 1
    BY <2>1 DEF TypeInv, Typed, Builds, m
  <2>2. CASE Len(m) # 1
    <3>. DEFINE b == [pc |-> "uid", mesh |-> m, id |-> NoComm]
    <3>1. b \in Build /\ bt' = [bt EXCEPT ![r] = b]
      BY <1>2, <2>2 DEF Build, NoComm, m
    <3>. QED BY <3>1 DEF TypeInv, Typed
  <2>. QED BY <2>1, <2>2
<1>8. /\ main' \in [Replicas -> Op] /\ weights' \in [Replicas -> Weight] /\ main'[r].pc # "flight"
      /\ \A q \in Replicas : /\ q # r => main'[q] = main[q]
                             /\ main'[q].cmd = main[q].cmd /\ main'[q].peer = main[q].peer
                             /\ main'[q].pc \in {main[q].pc, "done"}
                             /\ main[q].pc = "idle" => main'[q].pc = "idle"
  <2>1. CASE main[r].pc = "flight"
    <3>1. ha[r].comm # NoComm
      BY <2>1 DEF TypeInv, Ops
    <3>2. /\ main' = [main EXCEPT ![r].pc = "done"]
          /\ weights' = [weights EXCEPT ![r] = aborted_weights(r)]
      BY <2>1, <3>1 DEF DestroyComm
    <3>3. aborted_weights(r) \in Weight
      BY DEF aborted_weights, TypeInv, Typed, Weight
    <3>4. /\ main' \in [Replicas -> Op] /\ main'[r].pc = "done"
          /\ \A q \in Replicas : /\ q # r => main'[q] = main[q]
                                 /\ main'[q].cmd = main[q].cmd /\ main'[q].peer = main[q].peer
      <4>. DEFINE x == [main[r] EXCEPT !.pc = "done"]
      <4>1. main \in [Replicas -> Op] /\ main' = [main EXCEPT ![r] = x]
        BY <3>2 DEF TypeInv, Typed
      <4>2. /\ x \in Op /\ x.pc = "done" /\ x.cmd = main[r].cmd /\ x.peer = main[r].peer
        BY <4>1 DEF Op
      <4>. HIDE DEF x
      <4>. QED BY <4>1, <4>2
    <3>5. weights' \in [Replicas -> Weight]
      BY <3>2, <3>3 DEF TypeInv, Typed
    <3>. QED BY <2>1, <3>4, <3>5
  <2>2. CASE main[r].pc # "flight"
    BY <2>2 DEF DestroyComm, TypeInv, Typed
  <2>. QED BY <2>1, <2>2
<1>9. Typed' /\ Registered' /\ Posted'
  BY <1>4, <1>5, <1>6, <1>7, <1>8 DEF TypeInv, Typed, Registered, Posted, Members
<1>10. Builds'
  BY <1>3, <1>7 DEF TypeInv, Builds
<1>11. Comms'
  BY <1>6 DEF TypeInv, Comms
<1>12. Ops'
  <2>. SUFFICES ASSUME NEW q \in Replicas
       PROVE  /\ main'[q].pc # "idle" => ctl'.cmdq[q] # <<>> /\ main'[q].cmd = Head(ctl'.cmdq[q])
              /\ main'[q].pc \in {"wait", "lock", "flight", "report"} => main'[q].peer >= 1
              /\ main'[q].pc = "flight" => /\ LockFree(q)' /\ ha'[q].comm # NoComm
                                           /\ main'[q].peer <= Len(ha'[q].mesh)
    BY DEF Ops
  <2>1. CASE q = r
    BY <1>4, <1>8, <2>1 DEF TypeInv, Ops
  <2>2. CASE q # r
    BY <1>4, <1>6, <1>7, <1>8, <2>2 DEF TypeInv, Ops, LockFree
  <2>. QED BY <2>1, <2>2
<1>. QED BY <1>9, <1>10, <1>11, <1>12 DEF TypeInv

(* A step of the main thread of r within an operation.                     *)
LEMMA OpStep ==
  ASSUME TypeInv, NEW r \in Replicas, NEW x \in Op, main' = [main EXCEPT ![r] = x],
         Plain(ctl, ctl'), NEW h \in Comm, ha' = [ha EXCEPT ![r] = h],
         h.mesh = ha[r].mesh, h.comm \in {ha[r].comm, NoComm},
         weights' \in [Replicas -> Weight],
         x.pc # "idle" => ctl.cmdq[r] # <<>> /\ x.cmd = Head(ctl.cmdq[r]),
         x.pc \in {"wait", "lock", "flight", "report"} => x.peer >= 1,
         x.pc = "flight" => LockFree(r) /\ h.comm # NoComm /\ x.peer <= Len(h.mesh),
         UNCHANGED <<kv, groups, proc, bt, crashes>>
  PROVE  TypeInv'
<1>1. /\ main' \in [Replicas -> Op] /\ main'[r] = x
      /\ \A q \in Replicas : q # r => main'[q] = main[q]
  BY At DEF TypeInv, Typed
<1>2. /\ ha' \in [Replicas -> Comm] /\ ha'[r] = h
      /\ \A q \in Replicas : q # r => ha'[q] = ha[q]
  BY At DEF TypeInv, Typed
<1>3. Typed' /\ Registered' /\ Posted' /\ Builds'
  BY <1>1, <1>2
     DEF TypeInv, Typed, Registered, Posted, Builds, Plain, SameMesh, Members
<1>4. Comms'
  BY <1>2 DEF TypeInv, Comms
<1>5. Ops'
  <2>. SUFFICES ASSUME NEW q \in Replicas
       PROVE  /\ main'[q].pc # "idle" => ctl'.cmdq[q] # <<>> /\ main'[q].cmd = Head(ctl'.cmdq[q])
              /\ main'[q].pc \in {"wait", "lock", "flight", "report"} => main'[q].peer >= 1
              /\ main'[q].pc = "flight" => /\ LockFree(q)' /\ ha'[q].comm # NoComm
                                           /\ main'[q].peer <= Len(ha'[q].mesh)
    BY DEF Ops
  <2>1. CASE q = r
    BY <1>1, <1>2, <2>1 DEF Plain, HeadsKept, LockFree
  <2>2. CASE q # r
    BY <1>1, <1>2, <2>2 DEF TypeInv, Ops, Plain, HeadsKept, LockFree
  <2>. QED BY <2>1, <2>2
<1>. QED BY <1>3, <1>4, <1>5 DEF TypeInv

(* The handler of a command has returned: it leaves the stream.            *)
LEMMA DoneOK ==
  ASSUME NEW c, CtlOK(c), NEW r \in Replicas, c.cmdq[r] # <<>>
  PROVE  /\ CtlOK(done(c, r)) /\ SameMesh(c, done(c, r))
         /\ \A q \in Replicas : q # r => done(c, r).cmdq[q] = c.cmdq[q]
<1>. DEFINE t == Tail(c.cmdq[r])
            f == [c.cmdq EXCEPT ![r] = t]
<1>1. c \in Ctl /\ c.cmdq \in [Replicas -> Seq(Command)] /\ t \in Seq(Command)
  BY DEF CtlOK, Ctl
<1>. HIDE DEF t
<1>2. f \in [Replicas -> Seq(Command)] /\ \A q \in Replicas : q # r => f[q] = c.cmdq[q]
  BY <1>1
<1>3. done(c, r) = [c EXCEPT !.cmdq = f]
  BY <1>1 DEF done, t, Ctl
<1>. HIDE DEF f
<1>4. done(c, r) \in Ctl /\ SameMesh(c, done(c, r)) /\ done(c, r).cmdq = f
  BY <1>1, <1>2, <1>3 DEF Ctl, SameMesh
<1>. QED BY <1>2, <1>4 DEF CtlOK, SameMesh

(* Types: weights are resumed.                                             *)
LEMMA WeightResumeTyped == ASSUME TypeInv, NEW r \in Replicas, WeightResume(r) PROVE TypeInv'
<1>. USE DEF WeightResume, Idle
<1>1. /\ CtlOK(ctl') /\ SameMesh(ctl, ctl')
      /\ \A q \in Replicas : q # r => ctl'.cmdq[q] = ctl.cmdq[q]
  BY DoneOK DEF TypeInv, Typed
<1>2. weights' \in [Replicas -> Weight]
  <2>1. 0 \in Weight /\ weights \in [Replicas -> Weight]
    BY MeshAssumption DEF Weight, TypeInv, Typed
  <2>. QED BY <2>1
<1>3. Typed' /\ Registered' /\ Posted' /\ Builds' /\ Comms'
  BY <1>1, <1>2 DEF TypeInv, Typed, Registered, Posted, Builds, Comms, SameMesh, Members
<1>4. Ops'
  BY <1>1 DEF TypeInv, Ops, LockFree
<1>. QED BY <1>3, <1>4 DEF TypeInv

(* The command an operation is about.                                      *)
LEMMA OpFields ==
  ASSUME TypeInv, NEW r \in Replicas
  PROVE  /\ main[r] \in Op /\ ha[r] \in Comm /\ bt[r] \in Build
         /\ main = [main EXCEPT ![r] = main[r]] /\ ha = [ha EXCEPT ![r] = ha[r]]
         /\ weights \in [Replicas -> Weight] /\ Plain(ctl, ctl)
         /\ CtlOK(ctl) /\ ctl \in Ctl
         /\ main[r].pc # "idle" => ctl.cmdq[r] # <<>> /\ main[r].cmd = Head(ctl.cmdq[r])
         /\ ctl.cmdq[r] # <<>> => Head(ctl.cmdq[r]) \in Command
<1>1. ctl.cmdq[r] \in Seq(Command)
  BY DEF TypeInv, Typed, CtlOK, Ctl
<1>2. ctl.cmdq[r] # <<>> => Head(ctl.cmdq[r]) \in Command
  BY <1>1
<1>. QED BY <1>2, KeptTrans DEF TypeInv, Typed, CtlOK, Ops, Plain

(* Types: an operation finds its communicator ready.                       *)
LEMMA CommReadyTyped == ASSUME TypeInv, NEW r \in Replicas, CommReady(r) PROVE TypeInv'
<1>. USE DEF CommReady
<1>. DEFINE x == [main[r] EXCEPT !.pc = "lock"]
<1>1. main' = [main EXCEPT ![r] = x] /\ main[r] \in Op
  BY OpFields
<1>2. x \in Op /\ x.pc = "lock" /\ x.cmd = main[r].cmd /\ x.peer = main[r].peer
  BY <1>1 DEF Op
<1>3. x.peer >= 1 /\ ctl.cmdq[r] # <<>> /\ x.cmd = Head(ctl.cmdq[r])
  BY <1>2 DEF TypeInv, Ops
<1>. HIDE DEF x
<1>4. Plain(ctl, ctl') /\ ha' = [ha EXCEPT ![r] = ha[r]] /\ ha[r] \in Comm
      /\ weights' \in [Replicas -> Weight]
  BY OpFields
<1>. QED BY <1>1, <1>2, <1>3, <1>4, OpStep

(* Types: an operation is enqueued.                                        *)
LEMMA EnqueueTyped == ASSUME TypeInv, NEW r \in Replicas, Enqueue(r) PROVE TypeInv'
<1>. USE DEF Enqueue
<1>. DEFINE x == [main[r] EXCEPT !.pc = "flight"]
            y == [main[r] EXCEPT !.pc = "report"]
            h == [ha[r] EXCEPT !.ready = FALSE]
<1>1. main[r] \in Op /\ ha[r] \in Comm /\ CtlOK(ctl)
  BY OpFields
<1>2. /\ x \in Op /\ x.pc = "flight" /\ x.cmd = main[r].cmd /\ x.peer = main[r].peer
      /\ y \in Op /\ y.pc = "report" /\ y.cmd = main[r].cmd /\ y.peer = main[r].peer
  BY <1>1 DEF Op
<1>3. h \in Comm /\ h.mesh = ha[r].mesh /\ h.comm = ha[r].comm
  BY <1>1 DEF Comm
<1>4. main[r].peer >= 1 /\ ctl.cmdq[r] # <<>> /\ main[r].cmd = Head(ctl.cmdq[r])
  BY DEF TypeInv, Ops
<1>5. weights' \in [Replicas -> Weight]
  BY OpFields
<1>6. CASE ha[r].comm # NoComm /\ main[r].peer <= Len(ha[r].mesh)
  <2>1. main' = [main EXCEPT ![r] = x] /\ ha' = [ha EXCEPT ![r] = ha[r]] /\ Plain(ctl, ctl')
    BY <1>6, OpFields
  <2>2. LockFree(r)
    OBVIOUS
  <2>. HIDE DEF x
  <2>. QED BY <1>1, <1>2, <1>4, <1>5, <1>6, <2>1, <2>2, OpStep
<1>7. CASE ~(ha[r].comm # NoComm /\ main[r].peer <= Len(ha[r].mesh))
  <2>1. main' = [main EXCEPT ![r] = y] /\ ha' = [ha EXCEPT ![r] = h]
        /\ ctl' = set_replica_ncclerror(ctl, r)
    BY <1>7, OpFields
  <2>2. Plain(ctl, ctl')
    BY <1>1, <2>1, ReportOK
  <2>3. UNCHANGED <<kv, groups, proc, bt, crashes>>
    OBVIOUS
  <2>. HIDE DEF y, h, Enqueue
  <2>. QED BY <1>1, <1>2, <1>3, <1>4, <1>5, <2>1, <2>2, <2>3, OpStep
<1>. QED BY <1>6, <1>7

(* Types: an operation times out.                                          *)
LEMMA OpTimeoutTyped == ASSUME TypeInv, NEW r \in Replicas, OpTimeout(r) PROVE TypeInv'
<1>. USE DEF OpTimeout
<1>. DEFINE y == [main[r] EXCEPT !.pc = "report"]
            h == [ha[r] EXCEPT !.comm = NoComm, !.ready = FALSE]
<1>1. main[r] \in Op /\ ha[r] \in Comm /\ CtlOK(ctl)
  BY OpFields
<1>2. y \in Op /\ y.pc = "report" /\ y.cmd = main[r].cmd /\ y.peer = main[r].peer
  BY <1>1 DEF Op
<1>3. h \in Comm /\ h.mesh = ha[r].mesh /\ h.comm = NoComm
  BY <1>1 DEF Comm, NoComm
<1>4. main[r].peer >= 1 /\ ctl.cmdq[r] # <<>> /\ main[r].cmd = Head(ctl.cmdq[r])
  BY DEF TypeInv, Ops
<1>5. weights' \in [Replicas -> Weight]
  BY OpFields
<1>6. main' = [main EXCEPT ![r] = y] /\ ha' = [ha EXCEPT ![r] = h]
  BY OpFields
<1>7. Plain(ctl, ctl')
  BY <1>1, ReportOK
<1>8. UNCHANGED <<kv, groups, proc, bt, crashes>>
  OBVIOUS
<1>. HIDE DEF y, h, OpTimeout
<1>. QED BY <1>1, <1>2, <1>3, <1>4, <1>5, <1>6, <1>7, <1>8, OpStep

(* Types: the wait for a communicator times out.                           *)
LEMMA WaitTimeoutTyped == ASSUME TypeInv, NEW r \in Replicas, WaitTimeout(r) PROVE TypeInv'
<1>. USE DEF WaitTimeout
<1>. DEFINE y == [main[r] EXCEPT !.pc = "report"]
<1>1. main[r] \in Op /\ ha[r] \in Comm /\ CtlOK(ctl)
  BY OpFields
<1>2. y \in Op /\ y.pc = "report" /\ y.cmd = main[r].cmd /\ y.peer = main[r].peer
  BY <1>1 DEF Op
<1>3. main[r].peer >= 1 /\ ctl.cmdq[r] # <<>> /\ main[r].cmd = Head(ctl.cmdq[r])
  BY DEF TypeInv, Ops
<1>4. main' = [main EXCEPT ![r] = y] /\ ha' = [ha EXCEPT ![r] = ha[r]]
      /\ weights' \in [Replicas -> Weight]
  BY OpFields
<1>5. Plain(ctl, ctl')
  BY <1>1, ReportOK
<1>6. UNCHANGED <<kv, groups, proc, bt, crashes>>
  OBVIOUS
<1>. HIDE DEF y, WaitTimeout
<1>. QED BY <1>1, <1>2, <1>3, <1>4, <1>5, <1>6, OpStep

(* Types: an operation is tried again.                                     *)
LEMMA NextAttemptTyped == ASSUME TypeInv, NEW r \in Replicas, NextAttempt(r) PROVE TypeInv'
<1>. USE DEF NextAttempt
<1>1. CASE main[r].try < MaxRetry
  <2>. DEFINE y == [main[r] EXCEPT !.pc = "wait", !.try = main[r].try + 1]
  <2>1. main[r] \in Op /\ ha[r] \in Comm /\ main' = [main EXCEPT ![r] = y]
    BY <1>1, OpFields
  <2>2. main[r].try + 1 \in 0 .. MaxRetry
    BY <1>1, <2>1, MeshAssumption DEF Op
  <2>3. y \in Op /\ y.pc = "wait" /\ y.cmd = main[r].cmd /\ y.peer = main[r].peer
    BY <2>1, <2>2 DEF Op
  <2>4. main[r].peer >= 1 /\ ctl.cmdq[r] # <<>> /\ main[r].cmd = Head(ctl.cmdq[r])
    BY DEF TypeInv, Ops
  <2>5. Plain(ctl, ctl') /\ ha' = [ha EXCEPT ![r] = ha[r]] /\ weights' \in [Replicas -> Weight]
    BY <1>1, OpFields
  <2>6. UNCHANGED <<kv, groups, proc, bt, crashes>>
    BY <1>1
  <2>. HIDE DEF y, NextAttempt
  <2>. QED BY <2>1, <2>3, <2>4, <2>5, <2>6, OpStep
<1>2. CASE ~(main[r].try < MaxRetry)
  BY <1>2, DiesTyped DEF TypeInv, Typed
<1>. QED BY <1>1, <1>2

(* Types: an operation ends.                                               *)
LEMMA EndOpTyped == ASSUME TypeInv, NEW r \in Replicas, EndOp(r) PROVE TypeInv'
<1>. DEFINE d == done(ctl, r)
<1>1. /\ main[r].pc = "done" /\ UNCHANGED crashes
      /\ \/ Dies(r)
         \/ /\ ctl' \in {d, train_ack(d, r)} /\ main' = [main EXCEPT ![r] = NoOp]
            /\ UNCHANGED <<kv, groups, proc, bt, ha, weights>>
  BY DEF EndOp
<1>2. CASE Dies(r)
  BY <1>1, <1>2, DiesTyped DEF TypeInv, Typed
<1>3. CASE ~Dies(r)
  <2>1. CtlOK(ctl) /\ ctl.cmdq[r] # <<>>
    BY <1>1, OpFields
  <2>2. CtlOK(d) /\ SameMesh(ctl, d) /\ \A q \in Replicas : q # r => d.cmdq[q] = ctl.cmdq[q]
    BY <2>1, DoneOK
  <2>3. ctl' \in {d, train_ack(d, r)} /\ main' = [main EXCEPT ![r] = NoOp]
        /\ UNCHANGED <<kv, groups, proc, bt, ha, weights, crashes>>
    BY <1>1, <1>3
  <2>. HIDE DEF d
  <2>4. Plain(d, ctl')
    BY <2>2, <2>3, AckOK, KeptTrans DEF Plain
  <2>5. NoOp \in Op
    BY MeshAssumption DEF NoOp, Op
  <2>6. /\ main' \in [Replicas -> Op] /\ main'[r] = NoOp
        /\ \A q \in Replicas : q # r => main'[q] = main[q]
    BY <2>3, <2>5, At DEF TypeInv, Typed
  <2>7. Typed'
    BY <2>3, <2>4, <2>6 DEF TypeInv, Typed, Plain
  <2>8. Registered' /\ Posted' /\ Builds' /\ Comms'
    BY <2>2, <2>3, <2>4
       DEF TypeInv, Registered, Posted, Builds, Comms, Plain, SameMesh, Members
  <2>9. Ops'
    BY <2>2, <2>3, <2>4, <2>6 DEF TypeInv, Ops, Plain, HeadsKept, NoOp, LockFree
  <2>. QED BY <2>7, <2>8, <2>9 DEF TypeInv
<1>. QED BY <1>2, <1>3

(* An operation begins with a peer that has a rank, or ends its replica.   *)
LEMMA BeginOpTyped ==
  ASSUME TypeInv, NEW r \in Replicas, NEW type, BeginOp(r, type),
         type = "DataFetch" \/ type = "P2PBroadcast" \/ type = "P2PUnicast"
  PROVE  TypeInv'
<1>. DEFINE cmd == Head(ctl.cmdq[r])
            peer == peer_of(r, cmd)
            I == {i \in 1 .. Len(ha[r].mesh) : ha[r].mesh[i] = peer}
            x == [NoOp EXCEPT !.pc = "done", !.cmd = cmd]
            y == [pc |-> "wait", cmd |-> cmd, try |-> 1,
                  peer |-> SelectInSeq(ha[r].mesh, LAMBDA q : q = peer)]
<1>1. /\ main[r].pc = "idle" /\ ctl.cmdq[r] # <<>> /\ cmd.type = type /\ cmd \in Command
      /\ ha[r] \in Comm /\ UNCHANGED crashes
  BY OpFields DEF BeginOp, Idle
<1>2. CASE peer \notin ToSet(ha[r].mesh) /\ Dies(r)
  BY <1>1, <1>2, DiesTyped DEF TypeInv, Typed
<1>3. CASE /\ main' = [main EXCEPT ![r] = x]
           /\ weights' = [weights EXCEPT ![r] = IF type = "DataFetch" THEN trained(weights[r], cmd.step)
                                                ELSE weights[r]]
           /\ UNCHANGED <<ctl, kv, groups, proc, bt, ha>>
  <2>1. x \in Op /\ x.pc = "done" /\ x.cmd = cmd
    <3>1. NoOp \in Op
      BY MeshAssumption DEF NoOp, Op
    <3>. HIDE DEF cmd
    <3>. QED BY <1>1, <3>1 DEF Op
  <2>2. type = "DataFetch" => trained(weights[r], cmd.step) \in Weight
    <3>1. type = "DataFetch" => cmd.step \in Weight
      BY <1>1 DEF Command, Weight
    <3>. QED BY <3>1 DEF trained, Weight
  <2>3. weights' \in [Replicas -> Weight]
    <3>. HIDE DEF cmd
    <3>. QED BY <1>3, <2>2, OpFields
  <2>4. Plain(ctl, ctl') /\ ha' = [ha EXCEPT ![r] = ha[r]]
    BY <1>3, OpFields
  <2>5. UNCHANGED <<kv, groups, proc, bt, crashes>> /\ main' = [main EXCEPT ![r] = x]
    BY <1>1, <1>3
  <2>. HIDE DEF x
  <2>. QED BY <1>1, <2>1, <2>3, <2>4, <2>5, OpStep
<1>4. CASE /\ peer \in ToSet(ha[r].mesh) /\ main' = [main EXCEPT ![r] = y]
           /\ UNCHANGED <<ctl, kv, groups, proc, bt, ha, weights>>
  <2>1. ha[r].mesh \in Seq(Replicas)
    BY <1>1, MeshesSeq DEF Comm
  <2>2. I # {} /\ I \subseteq Nat
    BY <1>4, <2>1, ElementsOf
  <2>3. SelectInSeq(ha[r].mesh, LAMBDA q : q = peer) = Min(I)
    BY <2>2 DEF SelectInSeq
  <2>4. Min(I) \in Nat /\ Min(I) >= 1
    <3>1. \A i \in I : i \in Nat /\ i >= 1
      OBVIOUS
    <3>. HIDE DEF I
    <3>. QED BY <2>2, <3>1, LeastIndex
  <2>. DEFINE k == Min(I)
  <2>5. y = [pc |-> "wait", cmd |-> cmd, try |-> 1, peer |-> k]
    BY <2>3
  <2>. HIDE DEF k, y, cmd
  <2>6. k \in Nat /\ k >= 1
    BY <2>4 DEF k
  <2>7. y \in Op /\ y.pc = "wait" /\ y.cmd = cmd /\ y.peer >= 1
    BY <1>1, <2>5, <2>6, MeshAssumption DEF Op
  <2>8. Plain(ctl, ctl') /\ ha' = [ha EXCEPT ![r] = ha[r]] /\ weights' \in [Replicas -> Weight]
    BY <1>4, OpFields
  <2>9. UNCHANGED <<kv, groups, proc, bt, crashes>> /\ main' = [main EXCEPT ![r] = y]
    BY <1>1, <1>4
  <2>. QED BY <1>1, <2>7, <2>8, <2>9, OpStep DEF cmd
<1>. QED BY <1>2, <1>3, <1>4 DEF BeginOp

(* The partners of an operation in flight.                                 *)
LEMMA PartnersType ==
  ASSUME TypeInv, NEW r \in Replicas, NEW g, g # NoComm, InFlight(r, g)
  PROVE  /\ Partners(r, g) \subseteq Replicas
         /\ groups[g].mesh[main[r].peer] \in Replicas
<1>1. main[r].peer \in Nat /\ ha[r].comm = g /\ IdOf(groups, g, ha[r].mesh)
      /\ main[r].peer >= 1 /\ main[r].peer <= Len(ha[r].mesh)
  BY DEF TypeInv, Typed, Op, Ops, Comms, InFlight
<1>2. ha[r].mesh \in Seq(Replicas) /\ groups[g].mesh = ha[r].mesh
  BY <1>1, MeshesSeq DEF TypeInv, Typed, Comm, IdOf
<1>3. Ranks(g) \subseteq Replicas
  BY <1>2, ElementsOf DEF Ranks
<1>4. main[r].peer \in 1 .. Len(ha[r].mesh)
  BY <1>1, <1>2
<1>5. groups[g].mesh[main[r].peer] \in Replicas
  BY <1>2, <1>4
<1>. QED BY <1>3, <1>5 DEF Partners

(* Types: weights are transferred or gradients reduced.                    *)
LEMMA TransferTyped == ASSUME TypeInv, NEW r \in Replicas, Transfer(r) PROVE TypeInv'
<1>. DEFINE g == ha[r].comm
            S == Partners(r, g)
<1>1. /\ InFlight(r, g) /\ g # NoComm /\ \A q \in S : InFlight(q, g)
      /\ weights' = [q \in Replicas |-> IF q \in S THEN transferred(q, g, S) ELSE weights[q]]
      /\ main' = [q \in Replicas |-> IF q \in S THEN [main[q] EXCEPT !.pc = "done"] ELSE main[q]]
      /\ UNCHANGED <<ctl, kv, groups, proc, bt, ha, crashes>>
  BY DEF Transfer, Pairs, InFlight
<1>2. S \subseteq Replicas
  BY <1>1, PartnersType
<1>. HIDE DEF g, S
<1>3. ASSUME NEW q \in S PROVE transferred(q, g, S) \in Weight
  <2>1. q \in Replicas /\ InFlight(q, g) /\ g # NoComm /\ groups[g].mesh[main[q].peer] \in Replicas
    BY <1>1, <1>2, PartnersType
  <2>2. main[q].cmd \in Command
    BY <2>1, OpFields DEF InFlight
  <2>3. main[q].cmd.type = "DataFetch" => main[q].cmd.step \in Weight
    BY <2>2 DEF Command, Weight
  <2>4. /\ Spoiled \in Weight /\ weights[q] \in Weight
        /\ weights[groups[g].mesh[main[q].peer]] \in Weight
    BY <2>1 DEF TypeInv, Typed, Weight
  <2>. QED BY <2>3, <2>4 DEF transferred, trained, Weight
<1>4. weights' \in [Replicas -> Weight]
  BY <1>1, <1>2, <1>3 DEF TypeInv, Typed
<1>5. /\ main' \in [Replicas -> Op]
      /\ \A q \in Replicas : /\ q \in S => main'[q].pc = "done" /\ main'[q].cmd = main[q].cmd
                             /\ q \notin S => main'[q] = main[q]
  <2>1. ASSUME NEW q \in Replicas
        PROVE  LET x == [main[q] EXCEPT !.pc = "done"]
               IN  x \in Op /\ x.pc = "done" /\ x.cmd = main[q].cmd /\ main[q] \in Op
    BY DEF TypeInv, Typed, Op
  <2>. QED BY <1>1, <2>1
<1>6. Typed'
  BY <1>1, <1>4, <1>5 DEF TypeInv, Typed
<1>7. Registered' /\ Posted' /\ Builds' /\ Comms'
  BY <1>1 DEF TypeInv, Registered, Posted, Builds, Comms
<1>8. Ops'
  <2>. SUFFICES ASSUME NEW q \in Replicas
       PROVE  /\ main'[q].pc # "idle" => ctl'.cmdq[q] # <<>> /\ main'[q].cmd = Head(ctl'.cmdq[q])
              /\ main'[q].pc \in {"wait", "lock", "flight", "report"} => main'[q].peer >= 1
              /\ main'[q].pc = "flight" => /\ LockFree(q)' /\ ha'[q].comm # NoComm
                                           /\ main'[q].peer <= Len(ha'[q].mesh)
    BY DEF Ops
  <2>1. CASE q \in S
    <3>1. main[q].pc # "idle"
      BY <1>1, <2>1 DEF InFlight
    <3>. QED BY <1>1, <1>5, <2>1, <3>1 DEF TypeInv, Ops
  <2>2. CASE q \notin S
    BY <1>1, <1>5, <2>2 DEF TypeInv, Ops, LockFree
  <2>. QED BY <2>1, <2>2
<1>. QED BY <1>6, <1>7, <1>8 DEF TypeInv

(* Every step keeps the invariant.                                         *)
LEMMA TypeInvStep == TypeInv /\ [Next]_vars => TypeInv'
<1>. SUFFICES ASSUME TypeInv, [Next]_vars PROVE TypeInv'
  OBVIOUS
<1>1. CASE UNCHANGED vars
  BY <1>1 DEF vars, TypeInv, Typed, Registered, Posted, Builds, Comms, Ops, LockFree
<1>2. CASE NcclErrorWindow \/ Dispatch
  BY <1>2, WindowTyped, DispatchTyped
<1>3. ASSUME NEW r \in Replicas, Register(r) \/ Unregister(r) \/ Crash(r) PROVE TypeInv'
  BY <1>3, RegisterTyped, UnregisterTyped, CrashTyped
<1>4. ASSUME NEW r \in Replicas, Background(r) PROVE TypeInv'
  BY <1>4, TakeBuildMeshTyped, PostUidTyped, AcceptUidTyped, CommCreatedTyped,
     AcceptFailsTyped, ClearStoreTyped, CreateFailsTyped, CreateReportedTyped DEF Background
<1>5. ASSUME NEW r \in Replicas, MainThread(r) PROVE TypeInv'
  <2>1. CASE PolicyToPolicyBroadcast(r) \/ PolicyToPolicyUnicast(r) \/ DataFetch(r)
    BY <2>1, BeginOpTyped DEF PolicyToPolicyBroadcast, PolicyToPolicyUnicast, DataFetch
  <2>. QED BY <1>5, <2>1, WeightResumeTyped, CommReadyTyped, EnqueueTyped, TransferTyped,
           OpTimeoutTyped, WaitTimeoutTyped, NextAttemptTyped, EndOpTyped DEF MainThread
<1>. QED BY <1>1, <1>2, <1>3, <1>4, <1>5 DEF Next

(* Every reachable state of the mesh is well typed: commands are taken off *)
(* a stream in the order in which they were published, the rank of an      *)
(* operation in flight exists in its communicator, and only the replicas   *)
(* of a mesh join its unique id.                                           *)
THEOREM MeshTypeCorrect == Spec => []TypeOK
<1>1. Spec => []TypeInv
  BY TypeInvInit, TypeInvStep, PTL DEF Spec
<1>. QED BY <1>1, TypeInvType, PTL

-----------------------------------------------------------------------------
(* The weights of a training step, as long as no replica is lost: the      *)
(* commands.  Weights come from replica 1 only.                            *)

Size == Len(ctl.members)
Resume == [type |-> "WeightResume"]
Fetch(k) == [type |-> "DataFetch", step |-> k]
Spread == [type |-> "P2PBroadcast", src |-> 1]
Send(n) == [type |-> "P2PUnicast", src |-> 1, dst |-> n]

(* The command with which r gets its first weights.                        *)
Receives(r, cmd) == cmd \in IF r = 1 THEN {Resume} ELSE {Spread, Send(r)}

(* x comes before y in the stream s.                                       *)
Before(s, x, y) == \E i, j \in 1 .. Len(s) : i < j /\ s[i] = x /\ s[j] = y

(* The kinds of commands.                                                  *)
LEMMA Kinds ==
  /\ Resume.type = "WeightResume" /\ Spread.type = "P2PBroadcast" /\ Spread.src = 1
  /\ \A n : Send(n).type = "P2PUnicast" /\ Send(n).src = 1 /\ Send(n).dst = n
  /\ \A k : Fetch(k).type = "DataFetch" /\ Fetch(k).step = k
BY DEF Resume, Spread, Send, Fetch

(* Commands of different kinds differ.                                     *)
LEMMA Different ==
  /\ \A k : Fetch(k) # Resume /\ Fetch(k) # Spread /\ Resume # Spread
  /\ \A n, k : Send(n) # Resume /\ Send(n) # Spread /\ Send(n) # Fetch(k)
  /\ \A n, k : Send(n) = Send(k) <=> n = k
  /\ \A n, k : Fetch(n) = Fetch(k) <=> n = k
  /\ \A r, k : ~Receives(r, Fetch(k))
<1>1. /\ \A k : Fetch(k) # Resume /\ Fetch(k) # Spread /\ Resume # Spread
      /\ \A n, k : Send(n) # Resume /\ Send(n) # Spread /\ Send(n) # Fetch(k)
  BY Kinds
<1>2. \A n, k : (Send(n) = Send(k) <=> n = k) /\ (Fetch(n) = Fetch(k) <=> n = k)
  BY Kinds
<1>. QED BY <1>1, <1>2 DEF Receives

(* A new last element changes the order of no other elements.              *)
LEMMA AppendOrder ==
  ASSUME NEW S, NEW s \in Seq(S), NEW z \in S
  PROVE  /\ \A x, y : y # z => (Before(Append(s, z), x, y) <=> Before(s, x, y))
         /\ \A x \in ToSet(s) : Before(Append(s, z), x, z)
<1>. DEFINE t == Append(s, z)
<1>1. /\ Len(t) = Len(s) + 1 /\ Len(s) \in Nat /\ t[Len(s) + 1] = z
      /\ \A i \in 1 .. Len(s) : t[i] = s[i] /\ i \in 1 .. Len(t) /\ i < Len(s) + 1
      /\ \A i \in 1 .. Len(t) : i \in 1 .. Len(s) \/ i = Len(s) + 1
      /\ Len(s) + 1 \in 1 .. Len(t)
  OBVIOUS
<1>. HIDE DEF t
<1>2. ASSUME NEW x, NEW y, y # z PROVE Before(t, x, y) <=> Before(s, x, y)
  <2>1. ASSUME Before(s, x, y) PROVE Before(t, x, y)
    BY <1>1, <2>1 DEF Before
  <2>2. ASSUME Before(t, x, y) PROVE Before(s, x, y)
    <3>1. PICK i \in 1 .. Len(t), j \in 1 .. Len(t) : i < j /\ t[i] = x /\ t[j] = y
      BY <2>2 DEF Before
    <3>2. j \in 1 .. Len(s)
      BY <1>1, <1>2, <3>1
    <3>3. i \in 1 .. Len(s)
      BY <1>1, <3>1, <3>2
    <3>. QED BY <1>1, <3>1, <3>2, <3>3 DEF Before
  <2>. QED BY <2>1, <2>2
<1>3. ASSUME NEW x \in ToSet(s) PROVE Before(t, x, z)
  <2>1. PICK i \in 1 .. Len(s) : x = s[i]
    BY ElementsOf
  <2>. QED BY <1>1, <2>1 DEF Before
<1>. QED BY <1>2, <1>3 DEF t

(* Taking the first element changes the order of no other elements.        *)
LEMMA TailOrder ==
  ASSUME NEW S, NEW s \in Seq(S), s # <<>>, NEW x, x # Head(s), NEW y
  PROVE  Before(Tail(s), x, y) <=> Before(s, x, y)
<1>. DEFINE t == Tail(s)
<1>1. /\ Len(t) = Len(s) - 1 /\ Len(s) \in Nat \ {0} /\ s[1] = Head(s)
      /\ \A i \in 1 .. Len(s) - 1 : t[i] = s[i + 1] /\ i + 1 \in 1 .. Len(s)
      /\ \A i \in 1 .. Len(s) : i # 1 => i - 1 \in 1 .. Len(s) - 1 /\ t[i - 1] = s[i]
  OBVIOUS
<1>. HIDE DEF t
<1>2. ASSUME Before(t, x, y) PROVE Before(s, x, y)
  <2>1. PICK i \in 1 .. Len(t), j \in 1 .. Len(t) : i < j /\ t[i] = x /\ t[j] = y
    BY <1>2 DEF Before
  <2>2. i + 1 \in 1 .. Len(s) /\ j + 1 \in 1 .. Len(s) /\ i + 1 < j + 1
    BY <1>1, <2>1
  <2>3. s[i + 1] = x /\ s[j + 1] = y
    BY <1>1, <2>1
  <2>. QED BY <2>2, <2>3 DEF Before
<1>3. ASSUME Before(s, x, y) PROVE Before(t, x, y)
  <2>1. PICK i \in 1 .. Len(s), j \in 1 .. Len(s) : i < j /\ s[i] = x /\ s[j] = y
    BY <1>3 DEF Before
  <2>2. i # 1 /\ j # 1
    BY <1>1, <2>1
  <2>3. i - 1 \in 1 .. Len(t) /\ j - 1 \in 1 .. Len(t) /\ i - 1 < j - 1
    BY <1>1, <2>1, <2>2
  <2>4. t[i - 1] = x /\ t[j - 1] = y
    BY <1>1, <2>1, <2>2
  <2>. QED BY <2>3, <2>4 DEF Before
<1>. QED BY <1>2, <1>3 DEF t

(* The first element comes before the others.                              *)
LEMMA HeadOrder ==
  ASSUME NEW S, NEW s \in Seq(S), s # <<>>, IsInjective(s)
  PROVE  /\ \A x, y : Before(s, x, y) => x \in ToSet(s) /\ y \in ToSet(s) /\ y # Head(s)
         /\ \A y \in ToSet(s) : y # Head(s) => Before(s, Head(s), y)
<1>1. /\ Len(s) \in Nat \ {0} /\ s[1] = Head(s) /\ DOMAIN s = 1 .. Len(s) /\ 1 \in 1 .. Len(s)
      /\ \A i \in 1 .. Len(s) : i # 1 => 1 < i
  OBVIOUS
<1>2. ASSUME NEW x, NEW y, Before(s, x, y)
      PROVE  x \in ToSet(s) /\ y \in ToSet(s) /\ y # Head(s)
  <2>1. PICK i \in 1 .. Len(s), j \in 1 .. Len(s) : i < j /\ s[i] = x /\ s[j] = y
    BY <1>2 DEF Before
  <2>2. j # 1
    BY <2>1
  <2>3. s[j] # s[1]
    BY <1>1, <2>2 DEF IsInjective
  <2>. QED BY <1>1, <2>1, <2>3, ElementsOf
<1>3. ASSUME NEW y \in ToSet(s), y # Head(s) PROVE Before(s, Head(s), y)
  <2>1. PICK i \in 1 .. Len(s) : y = s[i]
    BY ElementsOf
  <2>2. 1 < i
    BY <1>1, <1>3, <2>1
  <2>. QED BY <1>1, <2>1, <2>2 DEF Before
<1>. QED BY <1>2, <1>3

-----------------------------------------------------------------------------
(* What the controller's methods do to the fields that the weights depend  *)
(* on, as long as no replica is lost.                                      *)

Kept(c, d) ==
  /\ d.members = c.members /\ d.init_done = c.init_done
  /\ d.step = c.step /\ d.first_arrived = c.first_arrived

Alike(c, d) ==
  Kept(c, d) /\ d.loaded = c.loaded /\ d.status = c.status /\ d.cmdq = c.cmdq

(* A report touches none of them.                                          *)
LEMMA ReportFields ==
  ASSUME NEW c \in Ctl, NEW r
  PROVE  Alike(c, set_replica_ncclerror(c, r))
BY DEF set_replica_ncclerror, Ctl, Alike, Kept

(* A command leaves a stream.                                              *)
LEMMA DoneFields ==
  ASSUME NEW c \in Ctl, NEW r \in Replicas
  PROVE  LET d == done(c, r)
         IN  /\ Kept(c, d) /\ d.loaded = c.loaded /\ d.status = c.status
             /\ \A q \in Replicas : d.cmdq[q] = IF q = r THEN Tail(c.cmdq[r]) ELSE c.cmdq[q]
<1>. DEFINE f == [c.cmdq EXCEPT ![r] = Tail(@)]
<1>1. done(c, r) = [c EXCEPT !.cmdq = f]
  BY DEF done, Ctl
<1>2. \A q \in Replicas : f[q] = IF q = r THEN Tail(c.cmdq[r]) ELSE c.cmdq[q]
  BY DEF Ctl
<1>. HIDE DEF f
<1>. QED BY <1>1, <1>2 DEF Ctl, Kept

(* An ACK takes its replica out of the running ones, and no other.         *)
LEMMA AckFields ==
  ASSUME NEW c \in Ctl, NEW r \in Replicas
  PROVE  LET d == train_ack(c, r)
         IN  /\ Kept(c, d) /\ d.loaded = c.loaded /\ d.cmdq = c.cmdq
             /\ \A q \in Replicas :
                  d.status[q] = "running" <=> q # r /\ c.status[q] = "running"
<1>. DEFINE f == [c.status EXCEPT ![r] = "reduced"]
            a == [c EXCEPT !.status = f]
            h == [q \in Replicas |-> IF q \in Members(c) THEN "ready" ELSE a.status[q]]
            d == train_ack(c, r)
<1>1. [c EXCEPT !.status[r] = "reduced"] = a
  BY DEF Ctl
<1>2. f[r] = "reduced" /\ \A q \in Replicas : q # r => f[q] = c.status[q]
  BY DEF Ctl
<1>. HIDE DEF f
<1>3. Kept(c, a) /\ a.loaded = c.loaded /\ a.cmdq = c.cmdq /\ a.status = f
  BY DEF Ctl, Kept
<1>4. d = IF all_with_status(a, {"reduced"}) THEN [a EXCEPT !.status = h] ELSE a
  <2>1. set_ready(a, Members(c)) = [a EXCEPT !.status = h]
    <3>. HIDE DEF a
    <3>. QED BY DEF set_ready
  <2>2. d = IF all_with_status(a, {"reduced"}) THEN set_ready(a, Members(c)) ELSE a
    BY <1>1, Zenon DEF train_ack
  <2>. QED BY <2>1, <2>2, Zenon
<1>5. \A q \in Replicas : h[q] = IF q \in Members(c) THEN "ready" ELSE f[q]
  BY <1>3
<1>. HIDE DEF h
<1>6. LET e == [a EXCEPT !.status = h]
      IN  Kept(c, e) /\ e.loaded = c.loaded /\ e.cmdq = c.cmdq /\ e.status = h
  BY DEF Ctl, Kept
<1>. HIDE DEF a, d
<1>7. CASE all_with_status(a, {"reduced"})
  <2>1. \A q \in Members(c) : f[q] = "reduced"
    BY <1>3, <1>7 DEF all_with_status, Members, Kept
  <2>2. \A q \in Replicas : h[q] = "running" <=> f[q] = "running"
    BY <1>5, <2>1
  <2>. QED BY <1>2, <1>4, <1>6, <1>7, <2>2 DEF d
<1>8. CASE ~all_with_status(a, {"reduced"})
  BY <1>2, <1>3, <1>4, <1>8 DEF d
<1>. QED BY <1>7, <1>8

(* A training step is published to the registered replicas.                *)
LEMMA DispatchFields ==
  ASSUME NEW c \in Ctl
  PROVE  LET d == try_trigger_data_fetch_and_training(c)
         IN  /\ d.members = c.members /\ d.init_done = c.init_done
             /\ d.first_arrived = c.first_arrived /\ d.loaded = c.loaded
             /\ d.step = c.step + 1
             /\ \A q \in Replicas :
                  /\ q \in Members(c) => d.status[q] = "running"
                  /\ d.cmdq[q] = IF q \in Members(c) THEN Append(c.cmdq[q], Fetch(c.step + 1))
                                 ELSE c.cmdq[q]
<1>. DEFINE f == [q \in Replicas |-> IF q \in Members(c) THEN Append(c.cmdq[q], Fetch(c.step + 1))
                                    ELSE c.cmdq[q]]
            a == [c EXCEPT !.cmdq = f]
            h == [q \in Replicas |-> IF q \in Members(c) THEN "running" ELSE a.status[q]]
<1>1. publish(c, Members(c), [type |-> "DataFetch", step |-> c.step + 1]) = a
  BY DEF publish, Fetch
<1>2. try_trigger_data_fetch_and_training(c) = [a EXCEPT !.step = a.step + 1, !.status = h]
  <2>. HIDE DEF a
  <2>. QED BY <1>1 DEF try_trigger_data_fetch_and_training
<1>3. \A q \in Replicas : /\ q \in Members(c) => h[q] = "running"
                          /\ f[q] = IF q \in Members(c) THEN Append(c.cmdq[q], Fetch(c.step + 1))
                                    ELSE c.cmdq[q]
  OBVIOUS
<1>. HIDE DEF f, h
<1>. QED BY <1>2, <1>3 DEF Ctl

(* Publishing touches nothing but streams, and setting replicas ready      *)
(* nothing but statuses.                                                   *)
LEMMA PublishFields ==
  ASSUME NEW c \in Ctl, NEW rs, NEW cmd
  PROVE  LET d == publish(c, rs, cmd)
         IN  /\ Kept(c, d) /\ d.loaded = c.loaded /\ d.status = c.status
             /\ \A q \in Replicas :
                  d.cmdq[q] = IF q \in rs THEN Append(c.cmdq[q], cmd) ELSE c.cmdq[q]
<1>. DEFINE f == [q \in Replicas |-> IF q \in rs THEN Append(c.cmdq[q], cmd) ELSE c.cmdq[q]]
<1>1. publish(c, rs, cmd) = [c EXCEPT !.cmdq = f]
  BY DEF publish
<1>2. \A q \in Replicas : f[q] = IF q \in rs THEN Append(c.cmdq[q], cmd) ELSE c.cmdq[q]
  OBVIOUS
<1>. HIDE DEF f
<1>. QED BY <1>1, <1>2 DEF Ctl, Kept

(* What set_ready touches.                                                 *)
LEMMA ReadyFields ==
  ASSUME NEW c \in Ctl, NEW rs
  PROVE  LET d == set_ready(c, rs)
         IN  /\ Kept(c, d) /\ d.loaded = c.loaded /\ d.cmdq = c.cmdq
             /\ \A q \in Replicas : d.status[q] = IF q \in rs THEN "ready" ELSE c.status[q]
<1>. DEFINE f == [q \in Replicas |-> IF q \in rs THEN "ready" ELSE c.status[q]]
<1>1. set_ready(c, rs) = [c EXCEPT !.status = f]
  BY DEF set_ready
<1>2. \A q \in Replicas : f[q] = IF q \in rs THEN "ready" ELSE c.status[q]
  OBVIOUS
<1>. HIDE DEF f
<1>. QED BY <1>1, <1>2 DEF Ctl, Kept

(* The weight transfers: a command, and who counts as loaded.              *)
Handed(c, d, rs, cmd, ls) ==
  /\ d.members = c.members /\ d.init_done = c.init_done /\ d.step = c.step
  /\ d.status = c.status /\ d.loaded = c.loaded \cup ls
  /\ \A q \in Replicas : d.cmdq[q] = IF q \in rs THEN Append(c.cmdq[q], cmd) ELSE c.cmdq[q]

(* What weight_resume, broadcast_weights and unicast_weights do.           *)
LEMMA ResumeFields ==
  ASSUME NEW c, CtlOK(c), NEW r \in Replicas
  PROVE  Handed(c, weight_resume(c, r), {r}, Resume, {r}) /\ weight_resume(c, r).first_arrived
<1>. DEFINE p == publish(c, {r}, Resume)
            l == p.loaded \cup {r}
<1>1. c \in Ctl /\ Resume \in Command
  BY DEF CtlOK, Command, Resume
<1>2. /\ Kept(c, p) /\ p.loaded = c.loaded /\ p.status = c.status
      /\ \A q \in Replicas : p.cmdq[q] = IF q \in {r} THEN Append(c.cmdq[q], Resume) ELSE c.cmdq[q]
  BY <1>1, PublishFields
<1>3. p \in Ctl
  BY <1>1, PublishOK DEF CtlOK
<1>4. weight_resume(c, r) = [p EXCEPT !.first_arrived = TRUE, !.loaded = l]
  BY DEF weight_resume, Resume
<1>5. l = c.loaded \cup {r}
  BY <1>2
<1>. HIDE DEF p, l
<1>. QED BY <1>2, <1>3, <1>4, <1>5 DEF Handed, Kept, Ctl

LEMMA BroadcastFields ==
  ASSUME NEW c, CtlOK(c), 1 \in Replicas
  PROVE  /\ Handed(c, broadcast_weights(c, 1), Members(c), Spread, Members(c))
         /\ broadcast_weights(c, 1).first_arrived = c.first_arrived
<1>. DEFINE p == publish(c, Members(c), Spread)
            l == p.loaded \cup Members(c)
<1>1. c \in Ctl /\ Spread \in Command
  BY DEF CtlOK, Command, Spread
<1>2. /\ Kept(c, p) /\ p.loaded = c.loaded /\ p.status = c.status
      /\ \A q \in Replicas :
           p.cmdq[q] = IF q \in Members(c) THEN Append(c.cmdq[q], Spread) ELSE c.cmdq[q]
  BY <1>1, PublishFields
<1>3. p \in Ctl
  BY <1>1, PublishOK DEF CtlOK
<1>4. broadcast_weights(c, 1) = [p EXCEPT !.loaded = l]
  BY DEF broadcast_weights, Spread
<1>5. l = c.loaded \cup Members(c)
  BY <1>2
<1>. HIDE DEF p, l
<1>. QED BY <1>2, <1>3, <1>4, <1>5 DEF Handed, Kept, Ctl

LEMMA UnicastFields ==
  ASSUME NEW c, CtlOK(c), 1 \in Replicas, NEW r \in Replicas
  PROVE  /\ Handed(c, unicast_weights(c, 1, r), {1, r}, Send(r), {r})
         /\ unicast_weights(c, 1, r).first_arrived = c.first_arrived
<1>. DEFINE p == publish(c, {1, r}, Send(r))
            l == p.loaded \cup {r}
<1>1. c \in Ctl /\ Send(r) \in Command
  BY DEF CtlOK, Command, Send
<1>2. /\ Kept(c, p) /\ p.loaded = c.loaded /\ p.status = c.status
      /\ \A q \in Replicas :
           p.cmdq[q] = IF q \in {1, r} THEN Append(c.cmdq[q], Send(r)) ELSE c.cmdq[q]
  BY <1>1, PublishFields
<1>3. p \in Ctl
  BY <1>1, PublishOK DEF CtlOK
<1>4. unicast_weights(c, 1, r) = [p EXCEPT !.loaded = l]
  BY DEF unicast_weights, Send
<1>5. l = c.loaded \cup {r}
  BY <1>2
<1>. HIDE DEF p, l
<1>. QED BY <1>2, <1>3, <1>4, <1>5 DEF Handed, Kept, Ctl

(* The weights come from the first replica.                                *)
LEMMA FirstSource ==
  ASSUME NEW c, Len(c.members) \in Nat, Len(c.members) >= 1, c.members[1] = 1, 1 \in c.loaded
  PROVE  initialized_replica(c) = 1
<1>. DEFINE n == Len(c.members)
            I == {i \in 1 .. n : c.members[i] \in c.loaded}
<1>1. n \in Nat /\ n >= 1
  OBVIOUS
<1>. HIDE DEF n
<1>2. 1 \in I /\ I \subseteq Nat /\ \A i \in I : i >= 1
  BY <1>1
<1>3. SelectInSeq(c.members, LAMBDA r : r \in c.loaded) = Min(I)
  BY <1>2 DEF SelectInSeq, n
<1>. HIDE DEF I
<1>4. Min(I) = 1
  <2>. DEFINE k == Min(I)
  <2>1. k \in I /\ k <= 1
    BY <1>2, LeastIndex
  <2>. HIDE DEF k
  <2>2. k \in Nat /\ k >= 1
    BY <1>2, <2>1
  <2>3. k = 1
    BY <2>1, <2>2
  <2>. QED BY <2>3 DEF k
<1>. QED BY <1>3, <1>4 DEF initialized_replica

(* What follows a registration, as long as no replica is lost.             *)
Hooked(c, d, r) ==
  /\ Kept([c EXCEPT !.init_done = d.init_done], d)
  /\ d.init_done <=> c.init_done \/ Len(c.members) >= NInit
  /\ d.loaded = c.loaded \cup (IF c.init_done THEN {r}
                               ELSE IF d.init_done THEN Members(c) ELSE {})
  /\ \A q \in Replicas :
       /\ d.status[q] = IF (IF c.init_done THEN q = r ELSE d.init_done /\ q \in Members(c))
                        THEN "ready" ELSE c.status[q]
       /\ d.cmdq[q] =
            IF c.init_done /\ q \in {1, r} THEN Append(c.cmdq[q], Send(r))
            ELSE IF ~c.init_done /\ d.init_done /\ Len(c.members) > 1 /\ q \in Members(c)
            THEN Append(c.cmdq[q], Spread) ELSE c.cmdq[q]

(* What the hook of a registration does when the weights are at replica 1. *)
LEMMA HookFields ==
  ASSUME NEW c, CtlOK(c), Len(c.members) >= 1, c.members[1] = 1, 1 \in c.loaded,
         1 \in Replicas, NEW r \in Replicas
  PROVE  Hooked(c, post_register_hook(c, r), r)
<1>. DEFINE d == post_register_hook(c, r)
            n == Len(c.members)
            same(b) == /\ b.init_done /\ b.cmdq = c.cmdq /\ b.step = c.step
                       /\ b.loaded = c.loaded /\ b.first_arrived = c.first_arrived
                       /\ b.status = c.status /\ b.members = c.members /\ Members(b) = Members(c)
<1>0. \A e, i : Kept([c EXCEPT !.init_done = i], e)
                  <=> /\ e.members = c.members /\ e.init_done = i
                      /\ e.step = c.step /\ e.first_arrived = c.first_arrived
  BY DEF CtlOK, Ctl, Kept
<1>1. n \in Nat /\ NInit \in Nat /\ NInit >= 1 /\ c \in Ctl /\ c.init_done \in BOOLEAN
  <2>1. c \in Ctl
    BY DEF CtlOK
  <2>. QED BY <2>1, MembersType, MeshAssumption DEF Ctl
<1>2. initialized_replica(c) = 1
  BY <1>1, FirstSource
<1>3. CASE ~c.init_done /\ ~(n >= NInit)
  <2>1. n < NInit
    BY <1>1, <1>3
  <2>2. d = c
    BY <1>3, <2>1 DEF post_register_hook
  <2>. QED BY <1>0, <1>3, <2>2 DEF Hooked
<1>4. CASE ~c.init_done /\ n >= NInit
  <2>. DEFINE i == [c EXCEPT !.init_done = TRUE]
              b == trigger_rebuild_mesh(i)
              e == broadcast_weights(b, 1)
  <2>1. CtlOK(i) /\ same(i)
    BY DEF CtlOK, Ctl, Members
  <2>. HIDE DEF i
  <2>2. /\ CtlOK(b) /\ Rebuilt(i, b)
        /\ b = [i EXCEPT !.in_mesh = b.in_mesh, !.buildq = b.buildq]
    BY <2>1, RebuildOK
  <2>3. same(b)
    <3>. DEFINE y == b.in_mesh
                z == b.buildq
    <3>1. b = [i EXCEPT !.in_mesh = y, !.buildq = z] /\ i \in Ctl
      BY <2>1, <2>2 DEF CtlOK
    <3>. HIDE DEF y, z, b
    <3>2. /\ b.init_done /\ b.cmdq = c.cmdq /\ b.step = c.step /\ b.status = c.status
          /\ b.loaded = c.loaded /\ b.first_arrived = c.first_arrived
      BY <2>1, <3>1 DEF Ctl
    <3>. QED BY <2>1, <2>2, <3>2 DEF Rebuilt, Members
  <2>4. d = finish_initialization(c)
    <3>1. ~(n < NInit)
      BY <1>1, <1>4
    <3>. QED BY <1>4, <3>1 DEF post_register_hook
  <2>. HIDE DEF b
  <2>5. CASE n = 1
    <3>1. finish_initialization(c) = set_ready(b, Members(c))
      BY <2>5 DEF finish_initialization, b, i
    <3>2. /\ Kept(b, d) /\ d.loaded = b.loaded /\ d.cmdq = b.cmdq
          /\ \A q \in Replicas : d.status[q] = IF q \in Members(c) THEN "ready" ELSE b.status[q]
      <4>1. b \in Ctl /\ d = set_ready(b, Members(c))
        BY <2>2, <2>4, <3>1 DEF CtlOK
      <4>. HIDE DEF d
      <4>. QED BY <4>1, ReadyFields
    <3>3. Members(c) = {1}
      <4>1. c.members \in Seq(Replicas)
        BY <1>1, MembersType
      <4>2. \A x : x \in ToSet(c.members) <=> \E k \in 1 .. 1 : x = c.members[k]
        BY <2>5, <4>1, ElementsOf
      <4>. QED BY <4>2 DEF Members
    <3>4. d.loaded = c.loaded \cup Members(c)
      BY <2>3, <3>2, <3>3
    <3>. HIDE DEF d
    <3>5. d.init_done /\ Kept([c EXCEPT !.init_done = d.init_done], d)
      BY <1>0, <2>3, <3>2 DEF Kept
    <3>. QED BY <1>4, <2>3, <2>5, <3>2, <3>4, <3>5 DEF Hooked, d
  <2>6. CASE n # 1
    <3>0. n > 1
      <4>1. n \in Nat /\ n >= 1 /\ n # 1
        BY <1>1, <2>6
      <4>. HIDE DEF n
      <4>. QED BY <4>1
    <3>1. finish_initialization(c) = set_ready(e, Members(c))
      BY <1>2, <2>6 DEF finish_initialization, b, i
    <3>2. Handed(b, e, Members(b), Spread, Members(b)) /\ e.first_arrived = b.first_arrived
      BY <2>2, BroadcastFields
    <3>3. e \in Ctl
      BY <2>2, BroadcastOK DEF Plain, CtlOK
    <3>4. /\ Kept(e, d) /\ d.loaded = e.loaded /\ d.cmdq = e.cmdq
          /\ \A q \in Replicas : d.status[q] = IF q \in Members(c) THEN "ready" ELSE e.status[q]
      <4>1. d = set_ready(e, Members(c))
        BY <2>4, <3>1
      <4>. HIDE DEF d, e
      <4>. QED BY <3>3, <4>1, ReadyFields
    <3>. HIDE DEF d, e
    <3>5. d.init_done /\ Kept([c EXCEPT !.init_done = d.init_done], d)
      BY <1>0, <2>3, <3>2, <3>4 DEF Kept, Handed
    <3>6. d.loaded = c.loaded \cup Members(c)
      BY <2>3, <3>2, <3>4 DEF Handed
    <3>. QED BY <1>4, <2>3, <3>0, <3>2, <3>4, <3>5, <3>6 DEF Hooked, Handed, d
  <2>. QED BY <2>5, <2>6
<1>5. CASE c.init_done
  <2>. DEFINE b == trigger_rebuild_mesh(c)
              e == unicast_weights(b, 1, r)
  <2>1. /\ CtlOK(b) /\ Rebuilt(c, b)
        /\ b = [c EXCEPT !.in_mesh = b.in_mesh, !.buildq = b.buildq]
    BY RebuildOK
  <2>2. same(b)
    <3>. DEFINE y == b.in_mesh
                z == b.buildq
    <3>1. b = [c EXCEPT !.in_mesh = y, !.buildq = z]
      BY <2>1
    <3>. HIDE DEF y, z, b
    <3>2. /\ b.init_done /\ b.cmdq = c.cmdq /\ b.step = c.step /\ b.status = c.status
          /\ b.loaded = c.loaded /\ b.first_arrived = c.first_arrived
      BY <1>1, <1>5, <3>1 DEF Ctl
    <3>. QED BY <2>1, <3>2 DEF Rebuilt, Members
  <2>3. d = set_ready(e, {r})
    BY <1>2, <1>5 DEF post_register_hook, scale_up
  <2>. HIDE DEF b
  <2>4. Handed(b, e, {1, r}, Send(r), {r}) /\ e.first_arrived = b.first_arrived
    BY <2>1, UnicastFields
  <2>5. e \in Ctl
    BY <2>1, UnicastOK DEF Plain, CtlOK
  <2>6. /\ Kept(e, d) /\ d.loaded = e.loaded /\ d.cmdq = e.cmdq
        /\ \A q \in Replicas : d.status[q] = IF q = r THEN "ready" ELSE e.status[q]
    <3>. HIDE DEF d, e
    <3>. QED BY <2>3, <2>5, ReadyFields
  <2>. HIDE DEF d, e
  <2>7. d.init_done /\ Kept([c EXCEPT !.init_done = d.init_done], d)
    BY <1>0, <2>2, <2>4, <2>6 DEF Kept, Handed
  <2>. QED BY <1>5, <2>2, <2>4, <2>6, <2>7 DEF Hooked, Handed, d
<1>. QED BY <1>1, <1>3, <1>4, <1>5

-----------------------------------------------------------------------------
(* The invariant, as long as no replica is lost.  Replicas register in the *)
(* order of their numbers and none leaves, so every mesh is a prefix.      *)

Prefix(m) == \A i \in 1 .. Len(m) : m[i] = i
Runs(r) == ctl.status[r] = "running"

(* Until the initial replicas are there only the first one is given        *)
(* something, the resume; from then on every registered replica counts as  *)
(* loaded.                                                                 *)
Arrivals ==
  /\ Prefix(ctl.members)
  /\ \A r \in Replicas : r <= Size <=> proc[r] # "new"
  /\ \A r \in Replicas : r > Size => ctl.cmdq[r] = <<>>
  /\ \A r \in Replicas : r \in ctl.loaded <=> r <= Size /\ (r = 1 \/ ctl.init_done)
  /\ Size = 0 => ~ctl.first_arrived /\ ~ctl.init_done
  /\ ~ctl.init_done =>
       /\ ctl.step = 0
       /\ \A r \in Replicas :
            r <= Size => ~Runs(r) /\ \A cmd \in ToSet(ctl.cmdq[r]) : r = 1 /\ cmd = Resume

(* A mesh is a prefix wherever it is kept, so the rank an operation works  *)
(* with is the replica it is about.  A resume needs no communicator.       *)
Prefixed ==
  /\ \A r \in Replicas :
       /\ Prefix(bt[r].mesh) /\ Prefix(ha[r].mesh)
       /\ \A m \in ToSet(ctl.buildq[r]) : Prefix(m)
       /\ ha[r].single => r = 1 /\ ha[r].mesh = <<1>>
  /\ \A g \in 1 .. Len(groups) : Prefix(groups[g].mesh)
Peers ==
  \A r \in Replicas :
    /\ main[r].pc \in {"wait", "lock", "flight", "report"} => main[r].peer = peer_of(r, main[r].cmd)
    /\ main[r].pc # "idle" => main[r].cmd # Resume

(* A stream holds the weights of its replica, first, the weights that      *)
(* replica 1 hands out to the n registered ones, and training step k as    *)
(* long as it is on.                                                       *)
Expected(r, cmd, n, k, on) ==
  \/ cmd = Resume /\ r = 1
  \/ cmd = Spread
  \/ \E d \in Replicas : 1 < d /\ d <= n /\ cmd = Send(d) /\ r \in {1, d}
  \/ cmd = Fetch(k) /\ on
Line(r, s, n, k, on) ==
  /\ IsInjective(s)
  /\ \A cmd \in ToSet(s) : Expected(r, cmd, n, k, on)
  /\ \A cmd \in ToSet(s) : Receives(r, cmd) => cmd = Head(s)
  /\ on => Fetch(k) \in ToSet(s)
Stream(r) == Line(r, ctl.cmdq[r], Size, ctl.step, Runs(r))
Streams == \A r \in Replicas : r <= Size => Stream(r)

(* Replica 1 hands out weights before a step exactly if the step is still  *)
(* before their receiver.                                                  *)
Handover(d, cmd) ==
  cmd \in ToSet(ctl.cmdq[1]) /\ cmd \in ToSet(ctl.cmdq[d])
    => (Before(ctl.cmdq[1], cmd, Fetch(ctl.step)) <=> Runs(d))
Ordered ==
  /\ \A d \in Replicas : 1 < d /\ d <= Size => Handover(d, Spread) /\ Handover(d, Send(d))
  /\ 1 <= Size /\ Resume \in ToSet(ctl.cmdq[1]) => ctl.step = IF Runs(1) THEN 1 ELSE 0

(* Whoever has received weights has those of the current step, before or   *)
(* after training it, unless a transfer or a reduction was aborted.        *)
Owed(r) == ctl.cmdq[r] # <<>> /\ Receives(r, Head(ctl.cmdq[r])) /\ main[r].pc # "done"
Reduced(r) == main[r].pc = "done" /\ main[r].cmd.type = "DataFetch"
Version(r) == IF Runs(r) /\ ~Reduced(r) THEN ctl.step - 1 ELSE ctl.step
Current ==
  \A r \in Replicas : r \in ctl.loaded => Owed(r) \/ weights[r] \in {Spoiled, Version(r)}

Steady == Arrivals /\ Prefixed /\ Peers /\ Streams /\ Ordered /\ Current

(* The registered replicas are the first ones.                             *)
LEMMA Crew ==
  ASSUME TypeInv, Arrivals
  PROVE  /\ ctl \in Ctl /\ CtlOK(ctl) /\ Size \in Nat /\ ctl.members \in Seq(Replicas)
         /\ Size <= NReplicas /\ \A i \in 1 .. Size : ctl.members[i] = i
         /\ Members(ctl) = 1 .. Size /\ \A r \in Replicas : r \in Members(ctl) <=> r <= Size
         /\ NReplicas \in Nat /\ NReplicas >= 1 /\ 1 \in Replicas
         /\ \A r \in Replicas : ctl.cmdq[r] \in Seq(Command) /\ r \in Nat /\ r >= 1
         /\ ctl.step \in Nat /\ NInit \in Nat /\ NInit >= 1
<1>1. CtlOK(ctl) /\ ctl \in Ctl /\ NReplicas \in Nat /\ NReplicas >= 1 /\ NInit \in Nat /\ NInit >= 1
  BY MeshAssumption DEF TypeInv, Typed, CtlOK
<1>2. ctl.members \in Seq(Replicas) /\ Len(ctl.members) <= NReplicas
  BY <1>1, MeshesSeq DEF Ctl
<1>3. Size \in Nat /\ Size <= NReplicas /\ \A i \in 1 .. Size : ctl.members[i] = i
  BY <1>2 DEF Size, Arrivals, Prefix
<1>4. \A x : x \in ToSet(ctl.members) <=> \E i \in 1 .. Size : x = ctl.members[i]
  BY <1>2, ElementsOf DEF Size
<1>5. Members(ctl) = 1 .. Size
  <2>1. \A x : x \in ToSet(ctl.members) <=> x \in 1 .. Size
    BY <1>3, <1>4
  <2>. HIDE DEF Size
  <2>. QED BY <2>1 DEF Members
<1>6. 1 \in Replicas /\ \A r \in Replicas : r \in Nat /\ r >= 1 /\ (r \in 1 .. Size <=> r <= Size)
  BY <1>1, <1>3 DEF Replicas
<1>7. ctl.step \in Nat /\ \A r \in Replicas : ctl.cmdq[r] \in Seq(Command)
  BY <1>1, MeshAssumption DEF Ctl
<1>. QED BY <1>1, <1>2, <1>3, <1>5, <1>6, <1>7

(* The controller after a registration.                                    *)
Entered(c, d, r) ==
  /\ d.members = Append(c.members, r) /\ d.step = c.step
  /\ d.init_done <=> c.init_done \/ r >= NInit
  /\ \A q \in Replicas :
       /\ q \in d.loaded <=> q <= r /\ (q = 1 \/ d.init_done)
       /\ d.status[q] = "running" <=> q # r /\ c.status[q] = "running"
       /\ d.cmdq[q] =
            IF r = 1 THEN (IF q = 1 THEN Append(c.cmdq[q], Resume) ELSE c.cmdq[q])
            ELSE IF c.init_done THEN (IF q \in {1, r} THEN Append(c.cmdq[q], Send(r))
                                      ELSE c.cmdq[q])
            ELSE IF d.init_done /\ q <= r THEN Append(c.cmdq[q], Spread) ELSE c.cmdq[q]

(* What a registration does, while nobody has left.                        *)
LEMMA RegisterFields ==
  ASSUME TypeInv, Arrivals, NEW r \in Replicas, r = Size + 1
  PROVE  Entered(ctl, register(ctl, r), r)
<1>. DEFINE a == Arrived(ctl, r)
            d == register(ctl, r)
            y == IF Size = 0 THEN weight_resume(a, r) ELSE a
<1>1. /\ ctl \in Ctl /\ CtlOK(ctl) /\ Size \in Nat /\ ctl.members \in Seq(Replicas)
      /\ Members(ctl) = 1 .. Size /\ Len(ctl.members) = Size
      /\ \A i \in 1 .. Size : ctl.members[i] = i
      /\ NInit \in Nat /\ NInit >= 1 /\ 1 \in Replicas /\ r \in Nat /\ r >= 1
      /\ \A q \in Replicas : q \in Nat /\ q >= 1
  BY Crew DEF Size
<1>2. r \notin Members(ctl)
  BY <1>1
<1>3. /\ CtlOK(a) /\ a.members = Append(ctl.members, r)
      /\ Members(a) = Members(ctl) \cup {r} /\ a.init_done = ctl.init_done
  BY <1>1, <1>2, ArrivedOK
<1>4. /\ a.cmdq = ctl.cmdq /\ a.step = ctl.step
      /\ a.loaded = ctl.loaded /\ a.first_arrived = ctl.first_arrived
      /\ \A q \in Replicas : a.status[q] = IF q = r THEN "uninitialized" ELSE ctl.status[q]
  BY <1>1 DEF Arrived, Ctl
<1>5. Members(a) = 1 .. r /\ Len(a.members) = r /\ a.members[1] = 1
  <2>. DEFINE n == Size
              m == ctl.members
  <2>1. /\ n \in Nat /\ m \in Seq(Replicas) /\ Len(m) = n /\ \A i \in 1 .. n : m[i] = i
        /\ Members(a) = (1 .. n) \cup {n + 1} /\ a.members = Append(m, n + 1) /\ r = n + 1
        /\ n + 1 \in Replicas
    BY <1>1, <1>3
  <2>. HIDE DEF n, m, a
  <2>2. 1 .. n + 1 = (1 .. n) \cup {n + 1}
    BY <2>1
  <2>3. Len(a.members) = n + 1
    BY <2>1
  <2>4. n = 0 => a.members[1] = 1
    BY <2>1
  <2>5. n # 0 => 1 \in 1 .. n
    BY <2>1
  <2>6. \A i \in 1 .. n : a.members[i] = m[i]
    BY <2>1
  <2>. QED BY <2>1, <2>2, <2>3, <2>4, <2>5, <2>6
<1>6. /\ Size = 0 => ~ctl.first_arrived /\ ~ctl.init_done
      /\ Size > 0 => 1 \in ctl.loaded
      /\ \A q \in Replicas : q \in ctl.loaded <=> q <= Size /\ (q = 1 \/ ctl.init_done)
      /\ ~ctl.init_done => \A q \in Replicas : q <= Size => ctl.status[q] # "running"
  BY <1>1 DEF Arrivals, Runs
<1>. HIDE DEF a
<1>7. /\ CtlOK(y) /\ y.members = a.members
      /\ y.init_done = a.init_done /\ y.step = a.step /\ y.status = a.status
      /\ y.loaded = ctl.loaded \cup {1}
      /\ \A q \in Replicas : y.cmdq[q] = IF r = 1 /\ q = 1 THEN Append(ctl.cmdq[q], Resume)
                                         ELSE ctl.cmdq[q]
  <2>1. CASE Size = 0
    <3>1. y = weight_resume(a, r) /\ r = 1
      BY <2>1
    <3>2. CtlOK(weight_resume(a, r))
      BY <1>3, ResumeOK DEF Plain
    <3>3. /\ Handed(a, weight_resume(a, r), {r}, Resume, {r})
          /\ weight_resume(a, r).first_arrived
      BY <1>3, ResumeFields
    <3>. HIDE DEF y
    <3>. QED BY <1>4, <2>1, <3>1, <3>2, <3>3 DEF Handed
  <2>2. CASE Size # 0
    <3>1. y = a /\ r # 1 /\ Size > 0
      BY <1>1, <2>2
    <3>. HIDE DEF y
    <3>. QED BY <1>3, <1>4, <1>6, <3>1
  <2>. QED BY <2>1, <2>2
<1>8. d = post_register_hook(y, r)
  <2>0. [ctl EXCEPT !.members = Append(@, r), !.status[r] = "uninitialized"] = a
    BY <1>1 DEF Arrived, a, Ctl
  <2>1. CASE Size = 0
    <3>1. Len(a.members) = 1 /\ ~ctl.first_arrived /\ y = weight_resume(a, r)
      BY <1>1, <1>5, <1>6, <2>1
    <3>. HIDE DEF y
    <3>. QED BY <2>0, <3>1 DEF register
  <2>2. CASE Size # 0
    <3>1. Len(a.members) # 1 /\ y = a
      BY <1>1, <1>5, <2>2
    <3>. HIDE DEF y
    <3>. QED BY <2>0, <3>1 DEF register
  <2>. QED BY <2>1, <2>2
<1>. HIDE DEF y, d
<1>9. Len(y.members) = r /\ y.members[1] = 1 /\ Members(y) = 1 .. r
  BY <1>5, <1>7 DEF Members
<1>10. Hooked(y, d, r)
  BY <1>1, <1>7, <1>8, <1>9, HookFields
<1>11. d.init_done <=> ctl.init_done \/ r >= NInit
  BY <1>3, <1>7, <1>9, <1>10 DEF Hooked
<1>12. \A q \in Replicas : q \in 1 .. r <=> q <= r
  BY <1>1
<1>13. ASSUME NEW q \in Replicas
       PROVE  d.cmdq[q] =
                   IF r = 1 THEN (IF q = 1 THEN Append(ctl.cmdq[q], Resume) ELSE ctl.cmdq[q])
                   ELSE IF ctl.init_done THEN (IF q \in {1, r} THEN Append(ctl.cmdq[q], Send(r))
                                               ELSE ctl.cmdq[q])
                   ELSE IF d.init_done /\ q <= r THEN Append(ctl.cmdq[q], Spread)
                   ELSE ctl.cmdq[q]
  <2>1. d.cmdq[q] = IF ctl.init_done /\ q \in {1, r} THEN Append(y.cmdq[q], Send(r))
                    ELSE IF ~ctl.init_done /\ d.init_done /\ r > 1 /\ q <= r
                    THEN Append(y.cmdq[q], Spread) ELSE y.cmdq[q]
    BY <1>3, <1>7, <1>9, <1>10, <1>12 DEF Hooked
  <2>2. r = 1 => ~ctl.init_done /\ ~(r > 1)
    BY <1>1, <1>6
  <2>3. r # 1 => r > 1
    BY <1>1
  <2>. QED BY <1>7, <2>1, <2>2, <2>3
<1>14. d.members = Append(ctl.members, r) /\ d.step = ctl.step
  <2>1. Kept([y EXCEPT !.init_done = d.init_done], d) /\ y \in Ctl
    BY <1>7, <1>10 DEF Hooked, CtlOK
  <2>2. d.members = y.members /\ d.step = y.step
    BY <2>1 DEF Kept, Ctl
  <2>. QED BY <1>3, <1>4, <1>7, <2>2
<1>15. ASSUME NEW q \in Replicas
       PROVE  /\ q \in d.loaded <=> q <= r /\ (q = 1 \/ d.init_done)
              /\ d.status[q] = "running" <=> q # r /\ ctl.status[q] = "running"
  <2>1. d.loaded = ctl.loaded \cup {1} \cup (IF ctl.init_done THEN {r}
                               ELSE IF d.init_done THEN 1 .. r ELSE {})
    BY <1>3, <1>7, <1>9, <1>10 DEF Hooked
  <2>2. d.status[q] = IF (IF ctl.init_done THEN q = r ELSE d.init_done /\ q <= r)
                      THEN "ready" ELSE (IF q = r THEN "uninitialized" ELSE ctl.status[q])
    BY <1>3, <1>4, <1>7, <1>9, <1>10, <1>12 DEF Hooked
  <2>3. q <= r <=> q <= Size \/ q = r
    BY <1>1
  <2>4. d.status[q] = "running" <=> q # r /\ ctl.status[q] = "running"
    BY <1>6, <2>2, <2>3
  <2>5. q \in d.loaded <=> q <= r /\ (q = 1 \/ d.init_done)
    BY <1>1, <1>6, <1>11, <1>12, <2>1, <2>3
  <2>. QED BY <2>4, <2>5
<1>16. Entered(ctl, d, r)
  BY <1>11, <1>13, <1>14, <1>15 DEF Entered
<1>. QED BY <1>16 DEF d

-----------------------------------------------------------------------------
(* The invariant: streams *)

(* A stream stays one when more replicas register.                         *)
LEMMA LineMore ==
  ASSUME NEW r, NEW s, NEW n \in Nat, NEW m \in Nat, n <= m, NEW k, NEW on, Line(r, s, n, k, on)
  PROVE  Line(r, s, m, k, on)
<1>1. \A d \in Replicas : d <= n => d <= m
  BY MeshAssumption DEF Replicas
<1>. QED BY <1>1 DEF Line, Expected

(* The empty stream.                                                       *)
LEMMA LineEmpty ==
  ASSUME NEW r, NEW n, NEW k
  PROVE  Line(r, <<>>, n, k, FALSE)
BY DEF Line, ToSet, IsInjective

(* Weights are published.                                                  *)
LEMMA LineAppend ==
  ASSUME NEW r \in Replicas, NEW s \in Seq(Command), NEW n, NEW k, NEW on, Line(r, s, n, k, on),
         NEW z \in Command, z \notin ToSet(s), Expected(r, z, n, k, on),
         Receives(r, z) => s = <<>>
  PROVE  Line(r, Append(s, z), n, k, on)
<1>. DEFINE t == Append(s, z)
<1>1. /\ ToSet(t) = ToSet(s) \cup {z} /\ IsInjective(t)
      /\ s # <<>> => Head(t) = Head(s)
      /\ s = <<>> => Head(t) = z
  BY Appended DEF Line
<1>2. s = <<>> => ToSet(s) = {}
  BY ElementsOf
<1>. HIDE DEF t
<1>3. \A cmd \in ToSet(t) : Receives(r, cmd) => cmd = Head(t)
  BY <1>1, <1>2 DEF Line
<1>. QED BY <1>1, <1>3 DEF Line, t

(* A training step is published.                                           *)
LEMMA LineFetch ==
  ASSUME NEW r \in Replicas, NEW s \in Seq(Command), NEW n, NEW k \in Nat, Line(r, s, n, k, FALSE),
         Fetch(k + 1) \in Command
  PROVE  Line(r, Append(s, Fetch(k + 1)), n, k + 1, TRUE)
<1>1. Line(r, s, n, k, FALSE) => \A cmd \in ToSet(s) : Expected(r, cmd, n, k + 1, FALSE)
  BY DEF Line, Expected
<1>2. Fetch(k + 1) \notin ToSet(s)
  BY <1>1, Different DEF Expected
<1>. DEFINE z == Fetch(k + 1)
            t == Append(s, z)
<1>3. /\ ToSet(t) = ToSet(s) \cup {z} /\ IsInjective(t)
      /\ s # <<>> => Head(t) = Head(s)
  BY <1>2, Appended DEF Line
<1>4. s = <<>> => ToSet(s) = {}
  BY ElementsOf
<1>. HIDE DEF t
<1>5. ~Receives(r, z)
  BY Different
<1>6. \A cmd \in ToSet(t) : Receives(r, cmd) => cmd = Head(t)
  BY <1>3, <1>4, <1>5 DEF Line
<1>7. \A cmd \in ToSet(t) : Expected(r, cmd, n, k + 1, TRUE)
  BY <1>1, <1>3 DEF Expected
<1>. QED BY <1>3, <1>6, <1>7 DEF Line, t

(* The first command has been executed.                                    *)
LEMMA LineTail ==
  ASSUME NEW r \in Replicas, NEW s \in Seq(Command), NEW n, NEW k, NEW on \in BOOLEAN,
         Line(r, s, n, k, on), s # <<>>
  PROVE  Line(r, Tail(s), n, k, on /\ Head(s) # Fetch(k))
<1>. DEFINE t == Tail(s)
<1>1. /\ ToSet(s) = {Head(s)} \cup ToSet(t) /\ IsInjective(t)
      /\ Head(s) \notin ToSet(t)
  BY Taken DEF Line
<1>. HIDE DEF t
<1>2. \A cmd \in ToSet(t) : Expected(r, cmd, n, k, on) /\ cmd # Head(s)
  BY <1>1 DEF Line
<1>3. \A cmd \in ToSet(t) : ~Receives(r, cmd)
  BY <1>1, <1>2 DEF Line
<1>4. on /\ Head(s) # Fetch(k) => Fetch(k) \in ToSet(t)
  BY <1>1 DEF Line
<1>5. \A cmd \in ToSet(t) : Expected(r, cmd, n, k, on /\ Head(s) # Fetch(k))
  BY <1>2 DEF Expected
<1>. QED BY <1>1, <1>3, <1>4, <1>5 DEF Line, t

(* The commands that carry weights.                                        *)
LEMMA Carriers ==
  Resume \in Command /\ (1 \in Replicas => Spread \in Command /\ \A d \in Replicas : Send(d) \in Command)
BY DEF Command, Resume, Spread, Send

(* The invariant: a replica registers.                                     *)
LEMMA RegisterSteady ==
  ASSUME TypeInv, Steady, NEW r \in Replicas, Register(r)
  PROVE  Steady'
<1>0. Arrivals /\ Prefixed /\ Peers /\ Streams /\ Ordered /\ Current
  BY DEF Steady
<1>1. /\ ctl \in Ctl /\ CtlOK(ctl) /\ Size \in Nat /\ ctl.members \in Seq(Replicas)
      /\ \A i \in 1 .. Size : ctl.members[i] = i
      /\ \A q \in Replicas : q \in Members(ctl) <=> q <= Size
      /\ 1 \in Replicas /\ \A q \in Replicas : ctl.cmdq[q] \in Seq(Command) /\ q \in Nat /\ q >= 1
      /\ ctl.step \in Nat /\ Size <= NReplicas /\ NReplicas \in Nat
  BY <1>0, Crew
<1>2. r = Size + 1
  <2>1. proc[r] = "new" /\ \A q \in 1 .. r - 1 : proc[q] # "new"
    BY DEF Register
  <2>2. ~(r <= Size)
    BY <1>0, <2>1 DEF Arrivals
  <2>3. ASSUME Size + 1 < r PROVE FALSE
    <3>1. Size + 1 \in Replicas /\ Size + 1 \in 1 .. r - 1
      <4>1. r \in 1 .. NReplicas
        BY DEF Replicas
      <4>. QED BY <1>1, <2>3, <4>1 DEF Replicas
    <3>2. proc[Size + 1] # "new"
      BY <2>1, <3>1
    <3>3. Size + 1 <= Size
      BY <1>0, <3>1, <3>2 DEF Arrivals
    <3>. QED BY <1>1, <3>3
  <2>. QED BY <1>1, <2>2, <2>3
<1>3. /\ ctl' = register(ctl, r) /\ Entered(ctl, ctl', r)
      /\ proc'[r] = "up" /\ \A q \in Replicas : q # r => proc'[q] = proc[q]
      /\ UNCHANGED <<kv, groups, bt, ha, main, weights, crashes>>
  <2>1. Entered(ctl, register(ctl, r), r)
    BY <1>0, <1>2, RegisterFields
  <2>. QED BY <2>1 DEF Register, workerVars, TypeInv, Typed
<1>4. /\ ctl'.members = Append(ctl.members, r) /\ ctl'.step = ctl.step
      /\ Size' = r /\ \A i \in 1 .. r : ctl'.members[i] = i
  BY <1>1, <1>2, <1>3 DEF Entered, Size
<1>5. \A q \in Replicas : q <= r <=> q <= Size \/ q = r
  BY <1>1, <1>2
<1>6. /\ \A q \in Replicas : q \in ctl'.loaded <=> q <= r /\ (q = 1 \/ ctl'.init_done)
      /\ \A q \in Replicas : Runs(q)' <=> q # r /\ Runs(q)
      /\ ctl.init_done => ctl'.init_done
      /\ r = 1 => ~ctl.init_done
  BY <1>0, <1>1, <1>2, <1>3 DEF Entered, Runs, Arrivals
<1>7. ctl.cmdq[r] = <<>> /\ ToSet(ctl.cmdq[r]) = {} /\ main[r].pc = "idle"
  <2>1. ~(r <= Size)
    BY <1>1, <1>2
  <2>2. ctl.cmdq[r] = <<>>
    BY <1>0, <1>1, <2>1 DEF Arrivals
  <2>3. main[r].pc = "idle"
    BY <2>2 DEF TypeInv, Ops
  <2>4. ToSet(ctl.cmdq[r]) = {}
    BY <1>1, <2>2, ElementsOf
  <2>. QED BY <2>2, <2>3, <2>4
<1>8. ASSUME ~ctl.init_done
      PROVE  /\ ctl.step = 0
             /\ \A q \in Replicas : q <= r => ~Runs(q)'
             /\ \A q \in Replicas : \A cmd \in ToSet(ctl.cmdq[q]) : q = 1 /\ cmd = Resume
             /\ \A q \in Replicas : q # 1 => ctl.cmdq[q] = <<>> /\ main[q].pc = "idle"
  <2>1. /\ ctl.step = 0
        /\ \A q \in Replicas :
             q <= Size => ~Runs(q) /\ \A cmd \in ToSet(ctl.cmdq[q]) : q = 1 /\ cmd = Resume
        /\ \A q \in Replicas : q > Size => ctl.cmdq[q] = <<>>
    BY <1>0, <1>8 DEF Arrivals
  <2>2. \A q \in Replicas : q <= Size \/ q > Size
    BY <1>1
  <2>3. \A q \in Replicas : ctl.cmdq[q] = <<>> <=> ToSet(ctl.cmdq[q]) = {}
    BY <1>1, ElementsOf
  <2>4. \A q \in Replicas : \A cmd \in ToSet(ctl.cmdq[q]) : q = 1 /\ cmd = Resume
    BY <2>1, <2>2, <2>3
  <2>5. \A q \in Replicas : q # 1 => ctl.cmdq[q] = <<>>
    BY <2>3, <2>4
  <2>6. \A q \in Replicas : q # 1 => main[q].pc = "idle"
    BY <2>5 DEF TypeInv, Ops
  <2>7. \A q \in Replicas : q <= r => ~Runs(q)'
    BY <1>5, <1>6, <2>1
  <2>. QED BY <2>1, <2>4, <2>5, <2>6, <2>7
<1>9. /\ Send(r) \in Command /\ Spread \in Command /\ Resume \in Command
       /\ Send(r) # Resume /\ Spread # Resume /\ Send(r) # Spread
       /\ \A k : Fetch(k) # Send(r) /\ Fetch(k) # Spread
       /\ \A e \in Replicas : e # r => Send(e) # Send(r)
  BY <1>1, Carriers, Different
<1>10. Arrivals'
  <2>1. Prefix(ctl.members)'
    BY <1>1, <1>4 DEF Prefix, Size
  <2>2. \A q \in Replicas : (q <= Size)' <=> proc'[q] # "new"
    BY <1>0, <1>3, <1>4, <1>5 DEF Arrivals
  <2>3. \A q \in Replicas : (q > Size)' => ctl'.cmdq[q] = <<>>
    <3>. SUFFICES ASSUME NEW q \in Replicas, q > r PROVE ctl'.cmdq[q] = <<>>
      BY <1>4
    <3>1. q # 1 /\ q # r /\ q > Size /\ ~(q <= r)
      BY <1>1, <1>2
    <3>2. ctl'.cmdq[q] = ctl.cmdq[q]
      BY <1>3, <3>1 DEF Entered
    <3>. QED BY <1>0, <3>1, <3>2 DEF Arrivals
  <2>4. \A q \in Replicas : q \in ctl'.loaded <=> (q <= Size)' /\ (q = 1 \/ ctl'.init_done)
    BY <1>4, <1>6
  <2>5. (Size # 0)'
    BY <1>1, <1>2, <1>4
  <2>6. ~ctl'.init_done =>
          /\ ctl'.step = 0
          /\ \A q \in Replicas : q <= r =>
                 ~Runs(q)' /\ \A cmd \in ToSet(ctl'.cmdq[q]) : q = 1 /\ cmd = Resume
    <3>. SUFFICES ASSUME ~ctl'.init_done, NEW q \in Replicas, q <= r
                  PROVE  /\ ctl'.step = 0 /\ ~Runs(q)'
                         /\ \A cmd \in ToSet(ctl'.cmdq[q]) : q = 1 /\ cmd = Resume
      BY <1>4, <1>6, <1>8
    <3>1. ~ctl.init_done /\ ctl'.step = 0 /\ ~Runs(q)'
      BY <1>4, <1>6, <1>8
    <3>2. \/ ctl'.cmdq[q] = ctl.cmdq[q]
          \/ q = 1 /\ r = 1 /\ ctl'.cmdq[q] = Append(ctl.cmdq[q], Resume)
      BY <1>3, <3>1 DEF Entered
    <3>3. ToSet(ctl'.cmdq[q]) \subseteq ToSet(ctl.cmdq[q]) \cup (IF q = 1 THEN {Resume} ELSE {})
      <4>1. Append(ctl.cmdq[q], Resume) # <<>>
            /\ ToSet(Append(ctl.cmdq[q], Resume)) = ToSet(ctl.cmdq[q]) \cup {Resume}
        BY <1>1, Appended, Carriers
      <4>. QED BY <3>2, <4>1
    <3>. QED BY <1>8, <3>1, <3>3
  <2>. QED BY <1>4, <2>1, <2>2, <2>3, <2>4, <2>5, <2>6 DEF Arrivals
<1>11. Prefixed' /\ Peers'
  <2>1. Prefix(ctl'.members) /\ ctl'.members \in Meshes
    <3>1. CtlOK(ctl')
      BY <1>1, <1>2, <1>3, RegisterOK
    <3>. QED BY <1>10, <3>1 DEF Arrivals, CtlOK, Ctl
  <2>2. ASSUME NEW q \in Replicas PROVE \A m \in ToSet(ctl'.buildq[q]) : Prefix(m)
    <3>1. ctl'.buildq[q] \in {ctl.buildq[q], Append(ctl.buildq[q], ctl'.members)}
      <4>1. r \notin Members(ctl)
        BY <1>1, <1>2
      <4>2. \/ ctl'.buildq = ctl.buildq
            \/ \A p \in Replicas :
                 ctl'.buildq[p] = IF p \in Members(ctl') THEN Append(ctl.buildq[p], ctl'.members)
                                  ELSE ctl.buildq[p]
        BY <1>1, <1>3, <4>1, RegisterOK
      <4>3. CASE ctl'.buildq = ctl.buildq
        BY <4>3
      <4>4. CASE \A p \in Replicas :
                 ctl'.buildq[p] = IF p \in Members(ctl') THEN Append(ctl.buildq[p], ctl'.members)
                                  ELSE ctl.buildq[p]
        <5>1. ctl'.buildq[q] = IF q \in Members(ctl') THEN Append(ctl.buildq[q], ctl'.members)
                               ELSE ctl.buildq[q]
          BY <4>4
        <5>. QED BY <5>1, Zenon
      <4>. QED BY <4>2, <4>3, <4>4
    <3>2. ctl.buildq[q] \in Seq(Meshes)
      BY <1>1 DEF Ctl
    <3>3. ToSet(ctl'.buildq[q]) \subseteq ToSet(ctl.buildq[q]) \cup {ctl'.members}
      <4>1. ToSet(Append(ctl.buildq[q], ctl'.members)) = ToSet(ctl.buildq[q]) \cup {ctl'.members}
        BY <2>1, <3>2, Appended
      <4>. QED BY <3>1, <4>1
    <3>. QED BY <1>0, <2>1, <3>3 DEF Prefixed
  <2>. QED BY <1>0, <1>3, <2>2 DEF Prefixed, Peers
<1>12. ASSUME NEW q \in Replicas, q <= r
       PROVE  \/ q = r /\ q = 1 /\ ctl'.cmdq[q] = Append(<<>>, Resume)
              \/ q = r /\ q # 1 /\ ctl.init_done /\ ctl'.cmdq[q] = Append(<<>>, Send(r))
              \/ q = 1 /\ q # r /\ ctl.init_done /\ ctl'.cmdq[q] = Append(ctl.cmdq[q], Send(r))
              \/ r # 1 /\ ~ctl.init_done /\ ctl'.init_done /\ ctl'.cmdq[q] = Append(ctl.cmdq[q], Spread)
              \/ /\ r # 1 /\ ctl'.cmdq[q] = ctl.cmdq[q]
                 /\ ~ctl'.init_done \/ (ctl.init_done /\ q \notin {1, r})
  <2>1. ctl'.cmdq[q] =
          IF r = 1 THEN (IF q = 1 THEN Append(ctl.cmdq[q], Resume) ELSE ctl.cmdq[q])
          ELSE IF ctl.init_done THEN (IF q \in {1, r} THEN Append(ctl.cmdq[q], Send(r))
                                      ELSE ctl.cmdq[q])
          ELSE IF ctl'.init_done /\ q <= r THEN Append(ctl.cmdq[q], Spread) ELSE ctl.cmdq[q]
    BY <1>3 DEF Entered
  <2>2. CASE r = 1
    <3>1. q = 1
      BY <1>1, <1>12, <2>2
    <3>. QED BY <1>7, <2>1, <2>2, <3>1
  <2>3. CASE r # 1 /\ ctl.init_done
    <3>1. CASE q = r
      BY <1>7, <2>1, <2>3, <3>1
    <3>2. CASE q # r
      BY <2>1, <2>3, <3>2
    <3>. QED BY <3>1, <3>2
  <2>4. CASE r # 1 /\ ~ctl.init_done
    BY <1>12, <2>1, <2>4
  <2>. QED BY <2>2, <2>3, <2>4
<1>13. Line(r, <<>>, r, ctl.step, FALSE) /\ ~Runs(r)'
  BY <1>6, LineEmpty
<1>14. ASSUME NEW q \in Replicas, q <= r PROVE Line(q, ctl'.cmdq[q], r, ctl.step, Runs(q)')
  <2>1. Line(q, ctl.cmdq[q], r, ctl.step, Runs(q)')
    <3>1. CASE q = r
      BY <1>7, <1>13, <3>1 DEF Line, Expected
    <3>2. CASE q # r
      <4>1. q <= Size /\ (Runs(q)' <=> Runs(q)) /\ Size <= r /\ r \in Nat /\ Size \in Nat
        BY <1>1, <1>2, <1>6, <1>14, <3>2
      <4>2. Line(q, ctl.cmdq[q], Size, ctl.step, Runs(q))
        BY <1>0, <4>1 DEF Streams, Stream
      <4>3. Line(q, ctl.cmdq[q], r, ctl.step, Runs(q))
        BY <4>1, <4>2, LineMore
      <4>. QED BY <4>1, <4>3 DEF Line, Expected
    <3>. QED BY <3>1, <3>2
  <2>2. ASSUME NEW z \in Command, z \notin ToSet(ctl.cmdq[q]), Expected(q, z, r, ctl.step, Runs(q)'),
               Receives(q, z) => ctl.cmdq[q] = <<>>, ctl'.cmdq[q] = Append(ctl.cmdq[q], z)
        PROVE  Line(q, ctl'.cmdq[q], r, ctl.step, Runs(q)')
    <3>. DEFINE on == Runs(q)'
    <3>1. Line(q, ctl.cmdq[q], r, ctl.step, on) /\ Expected(q, z, r, ctl.step, on)
      BY <2>1, <2>2
    <3>. HIDE DEF on
    <3>2. Line(q, Append(ctl.cmdq[q], z), r, ctl.step, on)
      BY <1>1, <2>2, <3>1, LineAppend
    <3>. QED BY <2>2, <3>2 DEF on
  <2>3. CASE q = r /\ q = 1 /\ ctl'.cmdq[q] = Append(<<>>, Resume)
    BY <1>7, <2>2, <2>3, Carriers DEF Expected
  <2>4. CASE q = r /\ q # 1 /\ ctl.init_done /\ ctl'.cmdq[q] = Append(<<>>, Send(r))
    <3>1. Expected(q, Send(r), r, ctl.step, Runs(q)')
      BY <1>1, <2>4 DEF Expected
    <3>. QED BY <1>1, <1>7, <2>2, <2>4, <3>1, Carriers
  <2>5. CASE q = 1 /\ q # r /\ ctl.init_done /\ ctl'.cmdq[q] = Append(ctl.cmdq[q], Send(r))
    <3>1. Expected(q, Send(r), r, ctl.step, Runs(q)')
      <4>1. 1 < r /\ r <= r
        BY <1>1, <2>5
      <4>. QED BY <2>5, <4>1 DEF Expected
    <3>2. ~Receives(q, Send(r))
      BY <2>5, Different DEF Receives
    <3>3. Send(r) \notin ToSet(ctl.cmdq[q])
      <4>1. Line(q, ctl.cmdq[q], Size, ctl.step, Runs(q))
        BY <1>0, <1>1, <1>2, <1>14, <2>5 DEF Streams, Stream
      <4>2. ASSUME Send(r) \in ToSet(ctl.cmdq[q]) PROVE FALSE
        <5>1. PICK e \in Replicas : e <= Size /\ Send(r) = Send(e)
          BY <4>1, <4>2, Different DEF Line, Expected
        <5>. QED BY <1>1, <1>2, <5>1, Different
      <4>. QED BY <4>2
    <3>. QED BY <1>1, <2>2, <2>5, <3>1, <3>2, <3>3, Carriers
  <2>6. CASE /\ r # 1 /\ ~ctl.init_done /\ ctl'.init_done
             /\ ctl'.cmdq[q] = Append(ctl.cmdq[q], Spread)
    <3>1. Expected(q, Spread, r, ctl.step, Runs(q)') /\ Spread \in Command
      BY <1>1, Carriers DEF Expected
    <3>2. Spread \notin ToSet(ctl.cmdq[q])
      BY <1>8, <2>6, Different
    <3>3. Receives(q, Spread) => ctl.cmdq[q] = <<>>
      BY <1>8, <2>6, Different DEF Receives
    <3>. QED BY <2>2, <2>6, <3>1, <3>2, <3>3
  <2>7. CASE ctl'.cmdq[q] = ctl.cmdq[q]
    BY <2>1, <2>7
  <2>. QED BY <1>12, <1>14, <2>3, <2>4, <2>5, <2>6, <2>7
<1>15. Streams'
  BY <1>4, <1>14 DEF Streams, Stream
<1>16. Ordered'
  <2>1. ASSUME NEW e \in Replicas, 1 < e, e <= r, NEW cmd \in {Spread, Send(e)},
               cmd \in ToSet(ctl'.cmdq[1]), cmd \in ToSet(ctl'.cmdq[e])
        PROVE  Before(ctl'.cmdq[1], cmd, Fetch(ctl.step)) <=> Runs(e)'
    <3>1. r # 1 /\ e # 1 /\ 1 # r /\ 1 <= r /\ Fetch(ctl.step) # cmd
      BY <1>1, <2>1, Different
    <3>2. ASSUME NEW z \in Command, z # Fetch(ctl.step), ctl'.cmdq[1] = Append(ctl.cmdq[1], z)
          PROVE  /\ Before(ctl'.cmdq[1], cmd, Fetch(ctl.step))
                      <=> Before(ctl.cmdq[1], cmd, Fetch(ctl.step))
                 /\ ToSet(ctl'.cmdq[1]) = ToSet(ctl.cmdq[1]) \cup {z}
      BY <1>1, <3>2, AppendOrder, Appended
    <3>3. ASSUME cmd \notin ToSet(ctl.cmdq[1]) PROVE ~Before(ctl.cmdq[1], cmd, Fetch(ctl.step))
      <4>1. ASSUME ctl.cmdq[1] # <<>> PROVE ~Before(ctl.cmdq[1], cmd, Fetch(ctl.step))
        <5>1. IsInjective(ctl.cmdq[1])
          BY <1>0, <1>1, <1>2, <3>1 DEF Streams, Stream, Line
        <5>. QED BY <1>1, <3>3, <4>1, <5>1, HeadOrder
      <4>2. ASSUME ctl.cmdq[1] = <<>> PROVE ~Before(ctl.cmdq[1], cmd, Fetch(ctl.step))
        <5>1. Len(ctl.cmdq[1]) = 0
          BY <4>2
        <5>. QED BY <5>1 DEF Before
      <4>. QED BY <4>1, <4>2
    <3>4. CASE ctl.init_done /\ e = r
      <4>1. ctl'.cmdq[1] = Append(ctl.cmdq[1], Send(r)) /\ ctl'.cmdq[r] = Append(<<>>, Send(r))
        <5>1. /\ ctl'.cmdq[1] = Append(ctl.cmdq[1], Send(r))
              /\ ctl'.cmdq[r] = Append(ctl.cmdq[r], Send(r))
          BY <1>1, <1>3, <3>1, <3>4 DEF Entered
        <5>. QED BY <1>7, <5>1
      <4>2. cmd = Send(r)
        <5>1. ToSet(ctl'.cmdq[r]) = {Send(r)}
          <6>1. ToSet(Append(ctl.cmdq[r], Send(r))) = ToSet(ctl.cmdq[r]) \cup {Send(r)}
            BY <1>1, <1>9, Appended
          <6>. QED BY <1>7, <4>1, <6>1
        <5>. QED BY <2>1, <3>4, <5>1
      <4>3. Send(r) \notin ToSet(ctl.cmdq[1])
        <5>1. Line(1, ctl.cmdq[1], Size, ctl.step, Runs(1))
          BY <1>0, <1>1, <1>2, <3>1 DEF Streams, Stream
        <5>2. ASSUME Send(r) \in ToSet(ctl.cmdq[1]) PROVE FALSE
          <6>1. PICK i \in Replicas : i <= Size /\ Send(r) = Send(i)
            BY <5>1, <5>2, Different DEF Line, Expected
          <6>. QED BY <1>1, <1>2, <6>1, Different
        <5>. QED BY <5>2
      <4>. QED BY <1>1, <1>6, <3>1, <3>2, <3>3, <3>4, <4>1, <4>2, <4>3, Carriers
    <3>5. CASE ctl.init_done /\ e # r
      <4>1. ctl'.cmdq[1] = Append(ctl.cmdq[1], Send(r)) /\ ctl'.cmdq[e] = ctl.cmdq[e]
        BY <1>1, <1>3, <2>1, <3>1, <3>5 DEF Entered
      <4>2. cmd # Send(r) /\ Send(r) \in Command /\ Send(r) # Fetch(ctl.step)
        BY <1>9, <2>1, <3>5
      <4>3. cmd \in ToSet(ctl.cmdq[1]) /\ cmd \in ToSet(ctl.cmdq[e])
        BY <2>1, <3>2, <4>1, <4>2
      <4>4. e <= Size /\ (Runs(e)' <=> Runs(e))
        BY <1>5, <1>6, <2>1, <3>5
      <4>5. Before(ctl.cmdq[1], cmd, Fetch(ctl.step)) <=> Runs(e)
        BY <1>0, <2>1, <4>3, <4>4 DEF Ordered, Handover
      <4>. QED BY <3>2, <4>1, <4>2, <4>4, <4>5
    <3>6. CASE ~ctl.init_done
      <4>1. cmd \notin ToSet(ctl.cmdq[1]) /\ ~Runs(e)'
        BY <1>1, <1>8, <2>1, <3>6, Different
      <4>2. ctl'.cmdq[1] \in {ctl.cmdq[1], Append(ctl.cmdq[1], Spread)}
        BY <1>1, <1>12, <3>1, <3>6
      <4>. QED BY <1>1, <3>2, <3>3, <4>1, <4>2, Different, Carriers
    <3>. QED BY <3>4, <3>5, <3>6
  <2>2. ASSUME Resume \in ToSet(ctl'.cmdq[1])
        PROVE  ctl'.step = IF Runs(1)' THEN 1 ELSE 0
    <3>1. CASE r = 1
      BY <1>4, <1>6, <1>8, <1>13, <3>1
    <3>2. CASE r # 1
      <4>1. ctl'.cmdq[1] \in {ctl.cmdq[1], Append(ctl.cmdq[1], Send(r)), Append(ctl.cmdq[1], Spread)}
        BY <1>1, <1>3, <3>2 DEF Entered
      <4>2. Resume \in ToSet(ctl.cmdq[1])
        <5>1. /\ ToSet(Append(ctl.cmdq[1], Send(r))) = ToSet(ctl.cmdq[1]) \cup {Send(r)}
              /\ ToSet(Append(ctl.cmdq[1], Spread)) = ToSet(ctl.cmdq[1]) \cup {Spread}
          BY <1>1, <1>9, Appended
        <5>. QED BY <1>9, <2>2, <4>1, <5>1
      <4>3. 1 <= Size /\ (Runs(1)' <=> Runs(1))
        BY <1>1, <1>2, <1>6, <3>2
      <4>. QED BY <1>0, <1>4, <4>2, <4>3 DEF Ordered
    <3>. QED BY <3>1, <3>2
  <2>. QED BY <1>4, <2>1, <2>2 DEF Ordered, Handover
<1>17. Current'
  <2>. SUFFICES ASSUME NEW q \in Replicas, q \in ctl'.loaded
                PROVE  Owed(q)' \/ weights[q] \in {Spoiled, Version(q)'}
    BY <1>3 DEF Current
  <2>1. q <= r /\ (q = 1 \/ ctl'.init_done) /\ main'[q] = main[q]
    BY <1>3, <1>6
  <2>2. ASSUME NEW z, Receives(q, z), ctl'.cmdq[q] = Append(<<>>, z), main[q].pc = "idle"
        PROVE  Owed(q)'
    <3>1. ctl'.cmdq[q] # <<>> /\ Head(ctl'.cmdq[q]) = z
      BY <2>2
    <3>. QED BY <2>1, <2>2, <3>1 DEF Owed
  <2>3. CASE q = r
    BY <1>7, <1>12, <2>1, <2>2, <2>3 DEF Receives
  <2>4. CASE q # r /\ q # 1 /\ ~ctl.init_done
    BY <1>8, <1>12, <2>1, <2>2, <2>4 DEF Receives
  <2>5. CASE q # r /\ (q = 1 \/ ctl.init_done)
    <3>1. q <= Size /\ q \in ctl.loaded /\ (Runs(q)' <=> Runs(q))
      BY <1>0, <1>5, <1>6, <2>1, <2>5 DEF Arrivals
    <3>2. Version(q)' = Version(q)
      BY <1>4, <2>1, <3>1 DEF Version, Reduced
    <3>3. Owed(q) => Owed(q)'
      <4>1. ctl'.cmdq[q] \in {ctl.cmdq[q], Append(ctl.cmdq[q], Send(r)), Append(ctl.cmdq[q], Spread)}
        BY <1>12, <2>1, <2>5
      <4>2. ASSUME NEW z \in Command, ctl.cmdq[q] # <<>>
            PROVE  Append(ctl.cmdq[q], z) # <<>> /\ Head(Append(ctl.cmdq[q], z)) = Head(ctl.cmdq[q])
        BY <1>1, <4>2, Appended
      <4>3. Owed(q) => ctl'.cmdq[q] # <<>> /\ Head(ctl'.cmdq[q]) = Head(ctl.cmdq[q])
        BY <1>1, <4>1, <4>2, Carriers DEF Owed
      <4>. QED BY <2>1, <4>3 DEF Owed
    <3>. QED BY <1>0, <3>1, <3>2, <3>3 DEF Current
  <2>. QED BY <2>1, <2>3, <2>4, <2>5
<1>. QED BY <1>10, <1>11, <1>15, <1>16, <1>17 DEF Steady

(* The invariant: a training step is dispatched.                           *)
LEMMA DispatchSteady ==
  ASSUME TypeInv, Steady, Dispatch
  PROVE  Steady'
<1>. DEFINE k == ctl.step
            z == Fetch(ctl.step + 1)
<1>0. Arrivals /\ Prefixed /\ Peers /\ Streams /\ Ordered /\ Current
  BY DEF Steady
<1>1. /\ ctl \in Ctl /\ CtlOK(ctl) /\ Size \in Nat
      /\ \A q \in Replicas : q \in Members(ctl) <=> q <= Size
      /\ 1 \in Replicas /\ \A q \in Replicas : ctl.cmdq[q] \in Seq(Command) /\ q \in Nat /\ q >= 1
      /\ k \in Nat /\ k < LastStep
  BY <1>0, Crew DEF Dispatch
<1>2. z \in Command /\ k + 1 \in Nat
  <2>1. k + 1 \in 1 .. LastStep
    BY <1>1, MeshAssumption
  <2>. QED BY <2>1 DEF Command, Fetch
<1>3. /\ ctl.init_done /\ ctl' = try_trigger_data_fetch_and_training(ctl)
      /\ UNCHANGED <<kv, groups, proc, bt, ha, main, weights, crashes>>
  BY DEF Dispatch, workerVars
<1>4. \A q \in Replicas : q <= Size => ~Runs(q)
  BY <1>1 DEF Dispatch, all_with_status, Runs
<1>5. /\ ctl'.members = ctl.members /\ ctl'.init_done = ctl.init_done
      /\ ctl'.first_arrived = ctl.first_arrived /\ ctl'.loaded = ctl.loaded
      /\ ctl'.step = k + 1 /\ Size' = Size
      /\ \A q \in Replicas :
           /\ q <= Size => Runs(q)'
           /\ ctl'.cmdq[q] = IF q <= Size THEN Append(ctl.cmdq[q], z) ELSE ctl.cmdq[q]
  BY <1>1, <1>3, DispatchFields DEF Runs, Size
<1>6. ctl'.buildq = ctl.buildq
  BY <1>1, <1>3, DispatchOK DEF Plain, SameMesh
<1>7. Arrivals'
  <2>1. \A r \in Replicas : r > Size => ctl'.cmdq[r] = <<>>
    BY <1>0, <1>1, <1>5 DEF Arrivals
  <2>. QED BY <1>0, <1>3, <1>5, <2>1 DEF Arrivals
<1>8. Prefixed' /\ Peers'
  BY <1>0, <1>3, <1>6 DEF Prefixed, Peers
<1>9. Streams'
  <2>. SUFFICES ASSUME NEW q \in Replicas, q <= Size
                PROVE  Line(q, ctl'.cmdq[q], Size, k + 1, Runs(q)')
    BY <1>5 DEF Streams, Stream
  <2>1. Line(q, ctl.cmdq[q], Size, k, FALSE)
    BY <1>0, <1>4 DEF Streams, Stream, Line, Expected
  <2>2. Line(q, Append(ctl.cmdq[q], z), Size, k + 1, TRUE)
    BY <1>1, <1>2, <2>1, LineFetch
  <2>3. Runs(q)' /\ ctl'.cmdq[q] = Append(ctl.cmdq[q], z)
    BY <1>5
  <2>. QED BY <2>2, <2>3 DEF Line, Expected
<1>10. Ordered'
  <2>1. ASSUME NEW e \in Replicas, 1 < e, e <= Size, NEW cmd \in {Spread, Send(e)},
               cmd \in ToSet(ctl'.cmdq[1])
        PROVE  Before(ctl'.cmdq[1], cmd, z) <=> Runs(e)'
    <3>1. ctl'.cmdq[1] = Append(ctl.cmdq[1], z) /\ cmd # z
      <4>1. 1 <= Size
        BY <1>1, <2>1
      <4>2. ctl'.cmdq[1] = Append(ctl.cmdq[1], z)
        BY <1>1, <1>5, <4>1
      <4>3. cmd # z
        BY <2>1, Different
      <4>. QED BY <4>2, <4>3
    <3>2. cmd \in ToSet(ctl.cmdq[1])
      BY <1>1, <1>2, <2>1, <3>1, Appended
    <3>. HIDE DEF z
    <3>. QED BY <1>1, <1>2, <1>5, <2>1, <3>1, <3>2, AppendOrder
  <2>2. ASSUME 1 <= Size, Resume \in ToSet(ctl'.cmdq[1]) PROVE k + 1 = 1
    <3>1. ctl'.cmdq[1] = Append(ctl.cmdq[1], z) /\ Resume # z
      BY <1>1, <1>5, <2>2, Different
    <3>2. Resume \in ToSet(ctl.cmdq[1])
      BY <1>1, <1>2, <2>2, <3>1, Appended
    <3>. QED BY <1>0, <1>1, <1>4, <2>2, <3>2 DEF Ordered
  <2>. QED BY <1>1, <1>5, <2>1, <2>2 DEF Ordered, Handover
<1>11. Current'
  <2>. SUFFICES ASSUME NEW q \in Replicas, q \in ctl.loaded
                PROVE  Owed(q)' \/ weights[q] \in {Spoiled, Version(q)'}
    BY <1>3, <1>5 DEF Current
  <2>1. q <= Size /\ ~Runs(q) /\ Runs(q)' /\ main'[q] = main[q] /\ ctl'.step = k + 1
        /\ ctl'.cmdq[q] = Append(ctl.cmdq[q], z)
    BY <1>0, <1>3, <1>4, <1>5 DEF Arrivals
  <2>2. ~Reduced(q)
    <3>1. ASSUME Reduced(q) PROVE FALSE
      <4>1. ctl.cmdq[q] # <<>> /\ main[q].cmd = Head(ctl.cmdq[q]) /\ main[q].cmd.type = "DataFetch"
        BY <3>1 DEF Reduced, TypeInv, Ops
      <4>2. Expected(q, main[q].cmd, Size, k, Runs(q))
        <5>1. Head(ctl.cmdq[q]) \in ToSet(ctl.cmdq[q])
          BY <1>1, <4>1, ElementsOf
        <5>. QED BY <1>0, <2>1, <4>1, <5>1 DEF Streams, Stream, Line
      <4>. QED BY <2>1, <4>1, <4>2, Kinds DEF Expected
    <3>. QED BY <3>1
  <2>3. Version(q) = k /\ Version(q)' = k
    BY <1>1, <2>1, <2>2 DEF Version, Reduced
  <2>4. Owed(q) => Owed(q)'
    <3>1. ctl.cmdq[q] # <<>> => /\ Append(ctl.cmdq[q], z) # <<>>
                                /\ Head(Append(ctl.cmdq[q], z)) = Head(ctl.cmdq[q])
      BY <1>1, <1>2, Appended
    <3>. QED BY <2>1, <3>1 DEF Owed
  <2>. QED BY <1>0, <2>3, <2>4 DEF Current
<1>. QED BY <1>7, <1>8, <1>9, <1>10, <1>11 DEF Steady

-----------------------------------------------------------------------------
(* The invariant: steps of the replicas *)

(* A step that changes neither streams nor statuses.                       *)
LEMMA StreamsFrame ==
  ASSUME Arrivals, Streams, Ordered, Alike(ctl, ctl'), proc' = proc
  PROVE  Arrivals' /\ Streams' /\ Ordered'
<1>1. Size' = Size /\ (\A q : Runs(q)' <=> Runs(q))
  BY DEF Alike, Kept, Size, Runs
<1>2. Arrivals'
  BY <1>1 DEF Alike, Kept, Arrivals
<1>3. Streams'
  BY <1>1 DEF Alike, Kept, Streams, Stream, Line, Expected
<1>4. Ordered'
  BY <1>1 DEF Alike, Kept, Ordered, Handover
<1>. QED BY <1>2, <1>3, <1>4

(* Nor what has been received.                                             *)
LEMMA CurrentFrame ==
  ASSUME Current, Alike(ctl, ctl'),
         \A q \in Replicas :
           /\ main'[q].pc = "done" <=> main[q].pc = "done"
           /\ main[q].pc = "done" => main'[q].cmd = main[q].cmd
           /\ weights'[q] = weights[q]
  PROVE  Current'
BY DEF Current, Owed, Reduced, Version, Runs, Alike, Kept

(* The background thread reads a mesh from its queue or has it already.    *)
LEMMA PrefixedFrame ==
  ASSUME TypeInv, Prefixed, NEW r \in Replicas,
         \A q \in Replicas : ToSet(ctl'.buildq[q]) \subseteq ToSet(ctl.buildq[q]),
         \A q \in Replicas : q # r => bt'[q] = bt[q] /\ ha'[q] = ha[q],
         Prefix(bt'[r].mesh), Prefix(ha'[r].mesh), ha'[r].single => r = 1 /\ ha'[r].mesh = << 1 >>,
         \A g \in 1 .. Len(groups') : Prefix(groups'[g].mesh)
  PROVE  Prefixed'
<1>. SUFFICES ASSUME NEW q \in Replicas
              PROVE  /\ Prefix(bt'[q].mesh) /\ Prefix(ha'[q].mesh)
                     /\ \A m \in ToSet(ctl'.buildq[q]) : Prefix(m)
                     /\ ha'[q].single => q = 1 /\ ha'[q].mesh = << 1 >>
  BY DEF Prefixed
<1>1. CASE q = r
  BY <1>1 DEF Prefixed
<1>2. CASE q # r
  BY <1>2 DEF Prefixed
<1>. QED BY <1>1, <1>2

(* A step of the background thread that leaves the main thread alone.      *)
LEMMA BackgroundFrame ==
  ASSUME TypeInv, Steady, NEW r \in Replicas,
         Alike(ctl, ctl'), ctl'.buildq = ctl.buildq,
         \A q \in Replicas : q # r => bt'[q] = bt[q] /\ ha'[q] = ha[q],
         Prefix(bt'[r].mesh), Prefix(ha'[r].mesh), ha'[r].single => r = 1 /\ ha'[r].mesh = << 1 >>,
         \A g \in 1 .. Len(groups') : Prefix(groups'[g].mesh),
         UNCHANGED <<proc, main, weights>>
  PROVE  Steady'
<1>1. Prefixed'
  BY PrefixedFrame DEF Steady
<1>2. Arrivals' /\ Streams' /\ Ordered'
  BY StreamsFrame DEF Steady
<1>3. Current'
  BY CurrentFrame DEF Steady
<1>4. Peers'
  BY DEF Steady, Peers
<1>. QED BY <1>1, <1>2, <1>3, <1>4 DEF Steady

(* The invariant: the background thread builds a communicator.             *)
LEMMA BuildSteady ==
  ASSUME TypeInv, Steady, NEW r \in Replicas,
         \/ PostUid(r) \/ AcceptUid(r) \/ AcceptFails(r) \/ CommCreated(r)
         \/ ClearStore(r) \/ CreateFails(r) \/ CreateReported(r)
  PROVE  Steady'
<1>1. /\ CtlOK(ctl) /\ ctl \in Ctl /\ bt \in [Replicas -> Build] /\ ha \in [Replicas -> Comm]
      /\ Prefix(bt[r].mesh) /\ Prefix(ha[r].mesh) /\ (ha[r].single => r = 1 /\ ha[r].mesh = <<1>>)
      /\ \A g \in 1 .. Len(groups) : Prefix(groups[g].mesh)
      /\ Prefix(<<>>) /\ bt[r] \in Build /\ groups \in Seq(Group) /\ Len(groups) \in Nat
  BY DEF TypeInv, Typed, CtlOK, Steady, Prefixed, Prefix
<1>2. Alike(ctl, ctl') /\ ctl'.buildq = ctl.buildq
  <2>1. Alike(ctl, ctl)
    BY DEF Alike, Kept
  <2>2. CASE CreateFails(r)
    <3>1. ctl' = set_replica_ncclerror(ctl, r)
      BY <2>2 DEF CreateFails
    <3>. QED BY <1>1, <3>1, ReportFields, ReportOK DEF Plain, SameMesh
  <2>3. CASE ~CreateFails(r)
    <3>1. ctl' = ctl
      BY <2>3 DEF PostUid, AcceptUid, AcceptFails, CommCreated, ClearStore, CreateReported
    <3>. QED BY <2>1, <3>1
  <2>. QED BY <2>2, <2>3
<1>3. UNCHANGED <<proc, main, weights>>
  BY DEF PostUid, AcceptUid, AcceptFails, CommCreated, ClearStore, CreateFails, CreateReported
<1>4. \A q \in Replicas : q # r => bt'[q] = bt[q] /\ ha'[q] = ha[q]
  BY <1>1
     DEF PostUid, AcceptUid, AcceptFails, CommCreated, ClearStore, CreateFails, CreateReported
<1>5. Prefix(bt'[r].mesh) /\ (ha' = ha \/ ha'[r] = [comm |-> bt[r].id, mesh |-> bt[r].mesh,
                                                   ready |-> TRUE, single |-> FALSE])
  <2>1. bt'[r].mesh \in {bt[r].mesh, <<>>}
    BY <1>1 DEF PostUid, AcceptUid, AcceptFails, CommCreated, ClearStore, CreateFails,
                CreateReported, NoBuild, Build
  <2>2. ha' = ha \/ ha'[r] = [comm |-> bt[r].id, mesh |-> bt[r].mesh,
                              ready |-> TRUE, single |-> FALSE]
    BY <1>1 DEF PostUid, AcceptUid, AcceptFails, CommCreated, ClearStore, CreateFails,
                CreateReported
  <2>. QED BY <1>1, <2>1, <2>2
<1>6. Prefix(ha'[r].mesh) /\ (ha'[r].single => r = 1 /\ ha'[r].mesh = <<1>>)
  BY <1>1, <1>5
<1>7. \A g \in 1 .. Len(groups') : Prefix(groups'[g].mesh)
  <2>1. CASE PostUid(r)
    <3>. DEFINE e == [mesh |-> bt[r].mesh, joined |-> {r}]
    <3>1. groups' = Append(groups, e)
      BY <2>1 DEF PostUid
    <3>2. /\ Len(groups') = Len(groups) + 1 /\ groups'[Len(groups) + 1] = e
          /\ \A g \in 1 .. Len(groups) : groups'[g] = groups[g]
      BY <1>1, <3>1
    <3>3. \A g \in 1 .. Len(groups') : g \in 1 .. Len(groups) \/ g = Len(groups) + 1
      BY <1>1, <3>2
    <3>4. e.mesh = bt[r].mesh
      OBVIOUS
    <3>. HIDE DEF e
    <3>. QED BY <1>1, <3>2, <3>3, <3>4
  <2>2. CASE AcceptUid(r)
    <3>. DEFINE h == kv[bt[r].mesh]
    <3>1. h \in 1 .. Len(groups) /\ groups' = [groups EXCEPT ![h].joined = @ \cup {r}]
      BY <2>2 DEF AcceptUid, TypeInv, Posted, IdOf
    <3>. HIDE DEF h
    <3>2. \A g \in 1 .. Len(groups) : groups[g] \in Group
      BY <1>1
    <3>3. Len(groups') = Len(groups) /\ \A g \in 1 .. Len(groups) : groups'[g].mesh = groups[g].mesh
      BY <1>1, <3>1, <3>2 DEF Group
    <3>. QED BY <1>1, <3>3
  <2>3. CASE ~PostUid(r) /\ ~AcceptUid(r)
    <3>1. groups' = groups
      BY <2>3 DEF AcceptFails, CommCreated, ClearStore, CreateFails, CreateReported
    <3>. QED BY <1>1, <3>1
  <2>. QED BY <2>1, <2>2, <2>3
<1>. QED BY <1>2, <1>3, <1>4, <1>5, <1>6, <1>7, BackgroundFrame

(* What a main thread may be executing.                                    *)
Task(r, cmd) ==
  \/ cmd = Fetch(ctl.step) /\ Runs(r) /\ ~Receives(r, cmd)
  \/ /\ r = 1 /\ ~Receives(r, cmd)
     /\ cmd = Spread \/ \E d \in Replicas : 1 < d /\ d <= Size /\ cmd = Send(d)
  \/ /\ r # 1 /\ Receives(r, cmd) /\ cmd \in {Spread, Send(r)}

LEMMA HeadTask ==
  ASSUME TypeInv, Steady, NEW r \in Replicas, ctl.cmdq[r] # <<>>, Head(ctl.cmdq[r]) # Resume
  PROVE  /\ Task(r, Head(ctl.cmdq[r])) /\ Head(ctl.cmdq[r]) \in ToSet(ctl.cmdq[r])
         /\ ctl.init_done /\ r <= Size /\ r \in ctl.loaded
<1>. DEFINE cmd == Head(ctl.cmdq[r])
<1>0. Arrivals /\ Streams
  BY DEF Steady
<1>1. /\ \A q \in Replicas : ctl.cmdq[q] \in Seq(Command) /\ q \in Nat /\ q >= 1
      /\ Size \in Nat
  BY <1>0, Crew
<1>2. cmd \in ToSet(ctl.cmdq[r])
  BY <1>1, ElementsOf
<1>3. r <= Size
  BY <1>0, <1>1 DEF Arrivals
<1>. HIDE DEF cmd
<1>4. Expected(r, cmd, Size, ctl.step, Runs(r)) /\ cmd # Resume
  BY <1>0, <1>2, <1>3 DEF Streams, Stream, Line, cmd
<1>5. ctl.init_done
  BY <1>0, <1>2, <1>3, <1>4 DEF Arrivals
<1>6. r \in ctl.loaded
  BY <1>0, <1>3, <1>5 DEF Arrivals
<1>7. Task(r, cmd)
  <2>1. CASE cmd = Fetch(ctl.step) /\ Runs(r)
    BY <2>1, Different DEF Task
  <2>2. CASE cmd = Spread
    BY <2>2, Different DEF Task, Receives
  <2>3. CASE \E d \in Replicas : 1 < d /\ d <= Size /\ cmd = Send(d) /\ r \in {1, d}
    <3>1. PICK d \in Replicas : 1 < d /\ d <= Size /\ cmd = Send(d) /\ r \in {1, d}
      BY <2>3
    <3>2. d # 1
      BY <1>1, <3>1
    <3>. QED BY <3>1, <3>2, Different DEF Task, Receives
  <2>. QED BY <1>4, <2>1, <2>2, <2>3 DEF Expected
<1>. QED BY <1>2, <1>3, <1>5, <1>6, <1>7 DEF cmd

(* The operation in progress.                                              *)
LEMMA OpTask ==
  ASSUME TypeInv, Steady, NEW r \in Replicas, main[r].pc # "idle"
  PROVE  /\ Task(r, main[r].cmd) /\ main[r].cmd \in ToSet(ctl.cmdq[r])
         /\ ctl.cmdq[r] # <<>> /\ main[r].cmd = Head(ctl.cmdq[r])
         /\ ctl.init_done /\ r <= Size /\ r \in ctl.loaded
<1>1. ctl.cmdq[r] # <<>> /\ main[r].cmd = Head(ctl.cmdq[r]) /\ main[r].cmd # Resume
  BY DEF TypeInv, Ops, Steady, Peers
<1>. QED BY <1>1, HeadTask

(* The invariant: the background thread takes a build, and aborts what is  *)
(* in flight.                                                              *)
LEMMA TakeBuildMeshSteady ==
  ASSUME TypeInv, Steady, NEW r \in Replicas, TakeBuildMesh(r)
  PROVE  Steady'
<1>. DEFINE m == Head(ctl.buildq[r])
            s == Tail(ctl.buildq[r])
<1>0. Arrivals /\ Prefixed /\ Peers /\ Streams /\ Ordered /\ Current
  BY DEF Steady
<1>1. /\ CtlOK(ctl) /\ ctl \in Ctl /\ ctl.buildq[r] \in Seq(Meshes) /\ ctl.buildq[r] # <<>>
      /\ bt \in [Replicas -> Build] /\ ha \in [Replicas -> Comm] /\ main \in [Replicas -> Op]
      /\ weights \in [Replicas -> Weight]
  BY DEF TakeBuildMesh, TypeInv, Typed, CtlOK, Ctl
<1>2. s \in Seq(Meshes) /\ m \in Meshes /\ ToSet(ctl.buildq[r]) = {m} \cup ToSet(s)
  BY <1>1, Taken
<1>3. m \in Seq(Replicas) /\ Prefix(m)
  BY <1>0, <1>2, MeshesSeq DEF Prefixed
<1>4. ASSUME Len(m) = 1 PROVE m = <<1>> /\ r = 1
  <2>. HIDE DEF m
  <2>1. m[1] = 1
    BY <1>3, <1>4 DEF Prefix
  <2>2. m \in Seq(Replicas) /\ <<1>> \in Seq(Nat) /\ Len(<<1>>) = 1 /\ <<1>>[1] = 1
    BY <1>3
  <2>3. \A i \in 1 .. Len(m) : m[i] = <<1>>[i]
    BY <1>4, <2>1, <2>2
  <2>4. m = [i \in 1 .. Len(m) |-> m[i]]
    BY <2>2
  <2>5. m = <<1>>
    BY <1>4, <2>1, <2>3, <2>4
  <2>6. r \in ToSet(m)
    BY <1>1, <1>2 DEF CtlOK
  <2>7. \E i \in 1 .. Len(m) : r = m[i]
    BY <1>3, <2>6, ElementsOf
  <2>. QED BY <1>4, <2>1, <2>5, <2>7
<1>5. /\ UNCHANGED <<kv, groups, proc, crashes>> /\ DestroyComm(r)
      /\ ctl' = [ctl EXCEPT !.buildq[r] = s]
      /\ IF Len(m) = 1
         THEN /\ ha' = [ha EXCEPT ![r] = [comm |-> NoComm, mesh |-> m,
                                          ready |-> TRUE, single |-> TRUE]]
              /\ bt' = bt
         ELSE /\ ha' = [ha EXCEPT ![r].comm = NoComm, ![r].ready = FALSE]
              /\ bt' = [bt EXCEPT ![r] = [pc |-> "uid", mesh |-> m, id |-> NoComm]]
  BY <1>1 DEF TakeBuildMesh
<1>. HIDE DEF m, s
<1>6. Alike(ctl, ctl') /\ \A q \in Replicas : ToSet(ctl'.buildq[q]) \subseteq ToSet(ctl.buildq[q])
  <2>. DEFINE f == [ctl.buildq EXCEPT ![r] = s]
  <2>1. ctl' = [ctl EXCEPT !.buildq = f]
    BY <1>1, <1>5 DEF Ctl
  <2>2. \A q \in Replicas : f[q] = IF q = r THEN s ELSE ctl.buildq[q]
    BY <1>1 DEF Ctl
  <2>. HIDE DEF f
  <2>3. Alike(ctl, ctl') /\ ctl'.buildq = f
    BY <1>1, <2>1 DEF Ctl, Alike, Kept
  <2>. QED BY <1>2, <2>2, <2>3
<1>7. Prefixed'
  <2>1. Prefix(bt[r].mesh) /\ Prefix(ha[r].mesh) /\ (ha[r].single => r = 1 /\ ha[r].mesh = <<1>>)
    BY <1>0 DEF Prefixed
  <2>2. /\ \A q \in Replicas : q # r => bt'[q] = bt[q] /\ ha'[q] = ha[q]
        /\ Prefix(bt'[r].mesh) /\ Prefix(ha'[r].mesh) /\ (ha'[r].single => r = 1 /\ ha'[r].mesh = <<1>>)
    <3>1. CASE Len(m) = 1
      BY <1>1, <1>3, <1>4, <1>5, <2>1, <3>1
    <3>2. CASE Len(m) # 1
      <4>1. /\ ha' = [ha EXCEPT ![r].comm = NoComm, ![r].ready = FALSE]
            /\ bt' = [bt EXCEPT ![r] = [pc |-> "uid", mesh |-> m, id |-> NoComm]]
        BY <1>5, <3>2
      <4>2. ha'[r].mesh = ha[r].mesh /\ ha'[r].single = ha[r].single
        BY <1>1, <4>1 DEF Comm
      <4>. QED BY <1>1, <1>3, <2>1, <4>1, <4>2
    <3>. QED BY <3>1, <3>2
  <2>. QED BY <1>0, <1>5, <1>6, <2>2, PrefixedFrame DEF Prefixed
<1>8. Arrivals' /\ Streams' /\ Ordered'
  BY <1>0, <1>5, <1>6, StreamsFrame
<1>9. CASE main[r].pc = "flight"
  <2>1. ha[r].comm # NoComm
    BY <1>9 DEF TypeInv, Ops
  <2>2. /\ main' = [main EXCEPT ![r].pc = "done"]
        /\ weights' = [weights EXCEPT ![r] = aborted_weights(r)]
    BY <1>5, <1>9, <2>1 DEF DestroyComm
  <2>3. /\ main'[r].pc = "done" /\ main'[r].cmd = main[r].cmd
        /\ weights'[r] = aborted_weights(r)
        /\ \A q \in Replicas : q # r => main'[q] = main[q] /\ weights'[q] = weights[q]
    BY <1>1, <2>2 DEF Op
  <2>4. Peers'
    <3>. SUFFICES ASSUME NEW q \in Replicas
                  PROVE  /\ main'[q].pc \in {"wait", "lock", "flight", "report"}
                              => main'[q].peer = peer_of(q, main'[q].cmd)
                         /\ main'[q].pc # "idle" => main'[q].cmd # Resume
      BY DEF Peers, peer_of
    <3>1. CASE q = r
      BY <1>0, <1>9, <2>3, <3>1 DEF Peers
    <3>2. CASE q # r
      BY <1>0, <2>3, <3>2 DEF Peers
    <3>. QED BY <3>1, <3>2
  <2>5. Current'
    <3>. SUFFICES ASSUME NEW q \in Replicas, q \in ctl.loaded
                  PROVE  Owed(q)' \/ weights'[q] \in {Spoiled, Version(q)'}
      BY <1>6 DEF Current, Alike
    <3>1. CASE q # r
      BY <1>0, <1>6, <2>3, <3>1 DEF Current, Owed, Version, Reduced, Runs, Alike, Kept
    <3>2. CASE q = r /\ aborted_weights(r) = Spoiled
      BY <2>3, <3>2
    <3>3. CASE q = r /\ aborted_weights(r) # Spoiled
      <4>1. Task(r, main[r].cmd) /\ main[r].cmd = Head(ctl.cmdq[r])
        BY <1>9, OpTask
      <4>2. main[r].cmd.type # "DataFetch" /\ main[r].cmd.src = r
        BY <3>3 DEF aborted_weights
      <4>3. aborted_weights(r) = weights[r]
        BY <4>2 DEF aborted_weights
      <4>4. ~Receives(r, main[r].cmd)
        BY <4>1, <4>2, Kinds DEF Task
      <4>5. ~Owed(r) /\ ~Reduced(r) /\ ~Reduced(r)'
        BY <1>9, <2>3, <4>1, <4>2, <4>4 DEF Owed, Reduced
      <4>6. Version(r)' = Version(r)
        BY <1>6, <4>5 DEF Version, Runs, Alike, Kept
      <4>. QED BY <1>0, <2>3, <3>3, <4>3, <4>5, <4>6 DEF Current
    <3>. QED BY <3>1, <3>2, <3>3
  <2>. QED BY <1>7, <1>8, <2>4, <2>5 DEF Steady
<1>10. CASE main[r].pc # "flight"
  <2>1. UNCHANGED <<main, weights>>
    BY <1>5, <1>10 DEF DestroyComm
  <2>2. Peers' /\ Current'
    BY <1>0, <1>6, <2>1, CurrentFrame DEF Peers
  <2>. QED BY <1>7, <1>8, <2>2 DEF Steady
<1>. QED BY <1>9, <1>10

(* A step within an operation that changes neither streams nor weights.    *)
Busy == {"wait", "lock", "flight", "report"}

LEMMA OpFrame ==
  ASSUME TypeInv, Steady, NEW r \in Replicas, NEW x, main' = [main EXCEPT ![r] = x],
         main[r].pc \in Busy, x.pc \in Busy, x.cmd = main[r].cmd, x.peer = main[r].peer,
         Alike(ctl, ctl'), ctl'.buildq = ctl.buildq,
         \A q \in Replicas : ha'[q].mesh = ha[q].mesh /\ ha'[q].single = ha[q].single,
         UNCHANGED <<groups, proc, bt, weights>>
  PROVE  Steady'
<1>1. main'[r] = x /\ \A q \in Replicas : q # r => main'[q] = main[q]
  BY DEF TypeInv, Typed
<1>2. \A q \in Replicas : /\ main'[q].pc = "done" <=> main[q].pc = "done"
                          /\ main'[q].cmd = main[q].cmd /\ main'[q].peer = main[q].peer
                          /\ main'[q].pc \in Busy <=> main[q].pc \in Busy
                          /\ main'[q].pc = "idle" <=> main[q].pc = "idle"
  BY <1>1 DEF Busy
<1>3. Arrivals' /\ Streams' /\ Ordered'
  BY StreamsFrame DEF Steady
<1>4. Prefixed'
  BY DEF Steady, Prefixed
<1>5. Peers'
  BY <1>2 DEF Steady, Peers, Busy, peer_of
<1>6. Current'
  BY <1>2, CurrentFrame DEF Steady
<1>. QED BY <1>3, <1>4, <1>5, <1>6 DEF Steady

(* The invariant: waiting, enqueueing, giving up and trying again.         *)
LEMMA AttemptSteady ==
  ASSUME TypeInv, Steady, NEW r \in Replicas,
         \/ CommReady(r) \/ Enqueue(r) \/ OpTimeout(r) \/ WaitTimeout(r)
         \/ NextAttempt(r) /\ main[r].try < MaxRetry
  PROVE  Steady'
<1>1. main[r] \in Op /\ ha \in [Replicas -> Comm] /\ ctl \in Ctl /\ CtlOK(ctl)
  BY OpFields DEF TypeInv, Typed
<1>2. Alike(ctl, ctl') /\ ctl'.buildq = ctl.buildq
  <2>1. Alike(ctl, ctl)
    BY DEF Alike, Kept
  <2>2. ctl' \in {ctl, set_replica_ncclerror(ctl, r)}
    BY DEF CommReady, Enqueue, OpTimeout, WaitTimeout, NextAttempt
  <2>3. LET d == set_replica_ncclerror(ctl, r) IN Alike(ctl, d) /\ d.buildq = ctl.buildq
    BY <1>1, ReportFields, ReportOK DEF Plain, SameMesh
  <2>. QED BY <2>1, <2>2, <2>3
<1>3. UNCHANGED <<groups, proc, bt, weights>>
  BY DEF CommReady, Enqueue, OpTimeout, WaitTimeout, NextAttempt
<1>4. \A q \in Replicas : ha'[q].mesh = ha[q].mesh /\ ha'[q].single = ha[q].single
  <2>1. \/ ha' = ha \/ ha' = [ha EXCEPT ![r].ready = FALSE]
        \/ ha' = [ha EXCEPT ![r].comm = NoComm, ![r].ready = FALSE]
    BY DEF CommReady, Enqueue, OpTimeout, WaitTimeout, NextAttempt
  <2>. QED BY <1>1, <2>1 DEF Comm
<1>5. main[r].pc \in Busy
  BY DEF CommReady, Enqueue, OpTimeout, WaitTimeout, NextAttempt, Busy
<1>6. \E x : /\ main' = [main EXCEPT ![r] = x] /\ x.pc \in Busy
             /\ x.cmd = main[r].cmd /\ x.peer = main[r].peer
  <2>1. CASE \E pc \in Busy : main' = [main EXCEPT ![r].pc = pc]
    <3>1. PICK pc \in Busy : main' = [main EXCEPT ![r].pc = pc]
      BY <2>1
    <3>. DEFINE x == [main[r] EXCEPT !.pc = pc]
    <3>2. main' = [main EXCEPT ![r] = x]
      BY <3>1
    <3>3. x.pc = pc /\ x.cmd = main[r].cmd /\ x.peer = main[r].peer
      BY <1>1 DEF Op
    <3>. QED BY <3>2, <3>3
  <2>2. CASE NextAttempt(r) /\ main[r].try < MaxRetry
    <3>. DEFINE x == [main[r] EXCEPT !.pc = "wait", !.try = main[r].try + 1]
    <3>1. main' = [main EXCEPT ![r] = x]
      BY <2>2 DEF NextAttempt
    <3>2. x.pc = "wait" /\ x.cmd = main[r].cmd /\ x.peer = main[r].peer
      BY <1>1 DEF Op
    <3>. QED BY <3>1, <3>2 DEF Busy
  <2>3. CASE CommReady(r) \/ Enqueue(r) \/ OpTimeout(r) \/ WaitTimeout(r)
    <3>1. \E pc \in Busy : main' = [main EXCEPT ![r].pc = pc]
      BY <2>3 DEF CommReady, Enqueue, OpTimeout, WaitTimeout, Busy
    <3>. QED BY <2>1, <3>1
  <2>. QED BY <2>2, <2>3
<1>. QED BY <1>2, <1>3, <1>4, <1>5, <1>6, OpFrame

(* A command leaves the stream of r; a training step with it the statuses. *)
LEMMA Popped ==
  ASSUME TypeInv, Steady, NEW r \in Replicas, ctl.cmdq[r] # <<>>, r <= Size,
         Kept(ctl, ctl'), ctl'.loaded = ctl.loaded, proc' = proc,
         \A q \in Replicas :
           /\ ctl'.cmdq[q] = IF q = r THEN Tail(ctl.cmdq[r]) ELSE ctl.cmdq[q]
           /\ Runs(q)' <=> Runs(q) /\ (q = r => Head(ctl.cmdq[r]) # Fetch(ctl.step))
  PROVE  Arrivals' /\ Streams' /\ Ordered'
<1>. DEFINE s == ctl.cmdq[r]
            k == ctl.step
            F == Fetch(k)
<1>0. Arrivals /\ Streams /\ Ordered
  BY DEF Steady
<1>1. /\ Size' = Size /\ ctl'.step = k /\ ctl'.init_done = ctl.init_done
      /\ ctl'.members = ctl.members /\ ctl'.first_arrived = ctl.first_arrived
      /\ Size \in Nat /\ 1 \in Replicas
      /\ \A q \in Replicas : ctl.cmdq[q] \in Seq(Command) /\ q \in Nat /\ q >= 1
  BY <1>0, Crew DEF Kept, Size
<1>2. /\ ctl'.cmdq[r] = Tail(s) /\ \A q \in Replicas : q # r => ctl'.cmdq[q] = ctl.cmdq[q]
      /\ \A q \in Replicas : q # r => (Runs(q)' <=> Runs(q))
      /\ Runs(r)' <=> Runs(r) /\ Head(s) # F
  OBVIOUS
<1>3. s \in Seq(Command) /\ s # <<>> /\ Line(r, s, Size, k, Runs(r))
  BY <1>0, <1>1 DEF Streams, Stream
<1>4. /\ ToSet(s) = {Head(s)} \cup ToSet(Tail(s)) /\ IsInjective(s)
      /\ Head(s) \notin ToSet(Tail(s))
  BY <1>3, Taken DEF Line
<1>5. \A cmd \in ToSet(Tail(s)) : cmd # Head(s) /\ ~Receives(r, cmd)
  BY <1>3, <1>4 DEF Line
<1>. HIDE DEF s, k, F
<1>6. Arrivals'
  <2>1. ASSUME NEW q \in Replicas PROVE ToSet(ctl'.cmdq[q]) \subseteq ToSet(ctl.cmdq[q])
    BY <1>2, <1>4 DEF s
  <2>2. \A q \in Replicas : q > Size => ctl'.cmdq[q] = <<>>
    <3>1. \A q \in Replicas : q > Size => q # r
      BY <1>1
    <3>. QED BY <1>0, <1>2, <3>1 DEF Arrivals
  <2>3. ~ctl.init_done => \A q \in Replicas : q <= Size =>
            ~Runs(q)' /\ \A cmd \in ToSet(ctl'.cmdq[q]) : q = 1 /\ cmd = Resume
    BY <1>0, <2>1 DEF Arrivals
  <2>. QED BY <1>0, <1>1, <2>2, <2>3 DEF Arrivals, k
<1>7. Streams'
  <2>. SUFFICES ASSUME NEW q \in Replicas, q <= Size
                PROVE  Line(q, ctl'.cmdq[q], Size, k, Runs(q)')
    BY <1>1 DEF Streams, Stream
  <2>1. CASE q = r
    <3>. DEFINE on == Runs(r)
    <3>1. on \in BOOLEAN
      BY DEF Runs
    <3>2. Line(r, s, Size, k, on)
      BY <1>3
    <3>. HIDE DEF on
    <3>3. Line(r, Tail(s), Size, k, on /\ Head(s) # Fetch(k))
      BY <1>3, <3>1, <3>2, LineTail
    <3>4. Runs(r)' <=> on /\ Head(s) # Fetch(k)
      BY <1>2 DEF F, on
    <3>. QED BY <1>2, <2>1, <3>3, <3>4 DEF Line, Expected
  <2>2. CASE q # r
    <3>1. Line(q, ctl.cmdq[q], Size, k, Runs(q))
      BY <1>0 DEF Streams, Stream, k
    <3>. QED BY <1>2, <2>2, <3>1 DEF Line, Expected
  <2>. QED BY <2>1, <2>2
<1>8. Ordered'
  <2>1. ASSUME NEW d \in Replicas, 1 < d, d <= Size, NEW cmd \in {Spread, Send(d)},
               cmd \in ToSet(ctl'.cmdq[1]), cmd \in ToSet(ctl'.cmdq[d])
        PROVE  Before(ctl'.cmdq[1], cmd, F) <=> Runs(d)'
    <3>1. d # 1 /\ Receives(d, cmd)
      BY <1>1, <2>1 DEF Receives
    <3>2. d # r
      BY <1>2, <1>5, <2>1, <3>1
    <3>3. (Runs(d)' <=> Runs(d)) /\ cmd \in ToSet(ctl.cmdq[d])
      BY <1>2, <2>1, <3>2
    <3>4. /\ cmd \in ToSet(ctl.cmdq[1])
          /\ Before(ctl'.cmdq[1], cmd, F) <=> Before(ctl.cmdq[1], cmd, F)
      <4>1. CASE r = 1
        <5>1. ctl'.cmdq[1] = Tail(s) /\ s = ctl.cmdq[1]
          BY <1>2, <4>1 DEF s
        <5>2. cmd \in ToSet(s) /\ cmd # Head(s)
          BY <1>4, <2>1, <5>1
        <5>3. Before(Tail(s), cmd, F) <=> Before(s, cmd, F)
          BY <1>3, <5>2, TailOrder
        <5>. QED BY <5>1, <5>2, <5>3
      <4>2. CASE r # 1
        BY <1>1, <1>2, <2>1, <4>2
      <4>. QED BY <4>1, <4>2
    <3>5. Before(ctl.cmdq[1], cmd, F) <=> Runs(d)
      BY <1>0, <2>1, <3>3, <3>4 DEF Ordered, Handover, F, k
    <3>. QED BY <3>3, <3>4, <3>5
  <2>2. ASSUME 1 <= Size, Resume \in ToSet(ctl'.cmdq[1])
        PROVE  k = IF Runs(1)' THEN 1 ELSE 0
    <3>1. r # 1
      BY <1>2, <1>5, <2>2 DEF Receives
    <3>. QED BY <1>0, <1>1, <1>2, <2>2, <3>1 DEF Ordered, k
  <2>. QED BY <1>1, <2>1, <2>2 DEF Ordered, Handover, F
<1>. QED BY <1>6, <1>7, <1>8

(* The invariant: weights are resumed.                                     *)
LEMMA WeightResumeSteady ==
  ASSUME TypeInv, Steady, NEW r \in Replicas, WeightResume(r)
  PROVE  Steady'
<1>. DEFINE cmd == Head(ctl.cmdq[r])
<1>0. Arrivals /\ Prefixed /\ Peers /\ Streams /\ Ordered /\ Current
  BY DEF Steady
<1>1. /\ main[r].pc = "idle" /\ ctl.cmdq[r] # <<>> /\ cmd.type = "WeightResume"
      /\ weights' = [weights EXCEPT ![r] = 0] /\ ctl' = done(ctl, r)
      /\ UNCHANGED <<kv, groups, proc, bt, ha, main, crashes>>
  BY DEF WeightResume, Idle
<1>2. /\ ctl \in Ctl /\ Size \in Nat /\ 1 \in Replicas /\ ctl.cmdq[r] \in Seq(Command)
      /\ weights \in [Replicas -> Weight] /\ CtlOK(ctl) /\ \A q \in Replicas : q \in Nat
  BY <1>0, Crew DEF TypeInv, Typed
<1>3. r <= Size
  BY <1>0, <1>1, <1>2 DEF Arrivals
<1>4. cmd \in ToSet(ctl.cmdq[r]) /\ Line(r, ctl.cmdq[r], Size, ctl.step, Runs(r))
  BY <1>0, <1>1, <1>2, <1>3, ElementsOf DEF Streams, Stream
<1>. HIDE DEF cmd
<1>5. r = 1 /\ cmd = Resume
  <2>1. Expected(r, cmd, Size, ctl.step, Runs(r))
    BY <1>4 DEF Line
  <2>. QED BY <1>1, <2>1, Kinds DEF Expected
<1>6. cmd # Fetch(ctl.step)
  BY <1>5, Different
<1>7. /\ Kept(ctl, ctl') /\ ctl'.loaded = ctl.loaded /\ (\A q : Runs(q)' <=> Runs(q))
      /\ \A q \in Replicas : ctl'.cmdq[q] = IF q = r THEN Tail(ctl.cmdq[r]) ELSE ctl.cmdq[q]
      /\ ctl'.buildq = ctl.buildq
  BY <1>1, <1>2, DoneFields, DoneOK DEF Runs, SameMesh
<1>8. Arrivals' /\ Streams' /\ Ordered'
  BY <1>1, <1>3, <1>6, <1>7, Popped DEF cmd
<1>9. Prefixed' /\ Peers'
  BY <1>0, <1>1, <1>7 DEF Prefixed, Peers
<1>10. Current'
  <2>. SUFFICES ASSUME NEW q \in Replicas, q \in ctl.loaded
                PROVE  Owed(q)' \/ weights'[q] \in {Spoiled, Version(q)'}
    BY <1>7 DEF Current
  <2>1. CASE q = r
    <3>1. weights'[q] = 0 /\ ~Reduced(q)'
      BY <1>1, <1>2, <2>1 DEF Reduced
    <3>2. 1 <= Size /\ Resume \in ToSet(ctl.cmdq[1])
      BY <1>3, <1>4, <1>5
    <3>3. ctl.step = IF Runs(1) THEN 1 ELSE 0
      BY <1>0, <3>2 DEF Ordered
    <3>. QED BY <1>5, <1>7, <2>1, <3>1, <3>3 DEF Version, Kept
  <2>2. CASE q # r
    <3>1. /\ weights'[q] = weights[q] /\ ctl'.cmdq[q] = ctl.cmdq[q] /\ main'[q] = main[q]
          /\ ctl'.step = ctl.step
      BY <1>1, <1>2, <1>7, <2>2 DEF Kept
    <3>. QED BY <1>0, <1>7, <3>1 DEF Current, Owed, Reduced, Version
  <2>. QED BY <2>1, <2>2
<1>. QED BY <1>8, <1>9, <1>10 DEF Steady

(* The invariant: an operation ends.                                       *)
LEMMA EndOpSteady ==
  ASSUME TypeInv, Steady, NEW r \in Replicas, EndOp(r), ~Dies(r)
  PROVE  Steady'
<1>. DEFINE cmd == main[r].cmd
            step == cmd.type = "DataFetch"
            d == done(ctl, r)
<1>0. Arrivals /\ Prefixed /\ Peers /\ Streams /\ Ordered /\ Current
  BY DEF Steady
<1>1. /\ main[r].pc = "done" /\ main' = [main EXCEPT ![r] = NoOp]
      /\ ctl' = IF step THEN train_ack(d, r) ELSE d
      /\ UNCHANGED <<kv, groups, proc, bt, ha, weights, crashes>>
  BY DEF EndOp
<1>2. /\ Task(r, cmd) /\ ctl.cmdq[r] # <<>> /\ cmd = Head(ctl.cmdq[r])
      /\ r <= Size /\ r \in ctl.loaded
  BY <1>1, OpTask
<1>3. CtlOK(ctl) /\ ctl \in Ctl /\ CtlOK(d) /\ d \in Ctl /\ d.buildq = ctl.buildq
  BY <1>0, <1>2, Crew, DoneOK DEF CtlOK, SameMesh
<1>4. (step => cmd = Fetch(ctl.step) /\ Runs(r)) /\ (~step => cmd # Fetch(ctl.step))
  <2>. HIDE DEF cmd
  <2>. QED BY <1>2, Kinds DEF Task
<1>. HIDE DEF cmd
<1>5. /\ Kept(ctl, d) /\ d.loaded = ctl.loaded /\ d.status = ctl.status
      /\ \A q \in Replicas : d.cmdq[q] = IF q = r THEN Tail(ctl.cmdq[r]) ELSE ctl.cmdq[q]
  BY <1>3, DoneFields
<1>. HIDE DEF d
<1>6. /\ Kept(ctl, ctl') /\ ctl'.loaded = ctl.loaded /\ ctl'.cmdq = d.cmdq
      /\ ctl'.buildq = ctl.buildq
      /\ \A q \in Replicas : Runs(q)' <=> Runs(q) /\ (q = r => ~step)
  <2>1. CASE step
    <3>1. ctl' = train_ack(d, r)
      BY <1>1, <2>1
    <3>2. /\ Kept(d, ctl') /\ ctl'.loaded = d.loaded /\ ctl'.cmdq = d.cmdq
          /\ \A q \in Replicas : ctl'.status[q] = "running" <=> q # r /\ d.status[q] = "running"
      BY <1>3, <3>1, AckFields
    <3>3. ctl'.buildq = d.buildq
      BY <1>3, <3>1, AckOK DEF Plain, SameMesh
    <3>. QED BY <1>3, <1>5, <2>1, <3>2, <3>3 DEF Kept, Runs
  <2>2. CASE ~step
    BY <1>1, <1>3, <1>5, <2>2 DEF Runs
  <2>. QED BY <2>1, <2>2
<1>7. Arrivals' /\ Streams' /\ Ordered'
  <2>1. \A q \in Replicas :
           /\ ctl'.cmdq[q] = IF q = r THEN Tail(ctl.cmdq[r]) ELSE ctl.cmdq[q]
           /\ Runs(q)' <=> Runs(q) /\ (q = r => Head(ctl.cmdq[r]) # Fetch(ctl.step))
    BY <1>2, <1>4, <1>5, <1>6
  <2>. QED BY <1>1, <1>2, <1>6, <2>1, Popped
<1>8. main'[r] = NoOp /\ \A q \in Replicas : q # r => main'[q] = main[q]
  BY <1>1 DEF TypeInv, Typed
<1>9. Prefixed'
  BY <1>0, <1>1, <1>6 DEF Prefixed
<1>10. Peers'
  <2>. SUFFICES ASSUME NEW q \in Replicas
                PROVE  /\ main'[q].pc \in {"wait", "lock", "flight", "report"}
                            => main'[q].peer = peer_of(q, main'[q].cmd)
                       /\ main'[q].pc # "idle" => main'[q].cmd # Resume
    BY DEF Peers, peer_of
  <2>1. CASE q = r
    BY <1>8, <2>1 DEF NoOp
  <2>2. CASE q # r
    BY <1>0, <1>8, <2>2 DEF Peers
  <2>. QED BY <2>1, <2>2
<1>11. Current'
  <2>. SUFFICES ASSUME NEW q \in Replicas, q \in ctl.loaded
                PROVE  Owed(q)' \/ weights[q] \in {Spoiled, Version(q)'}
    BY <1>1, <1>6 DEF Current
  <2>1. CASE q = r
    <3>1. ~Owed(r) /\ ~Reduced(r)' /\ (Reduced(r) <=> step)
      BY <1>1, <1>8 DEF Owed, Reduced, NoOp, cmd
    <3>2. Version(r)' = Version(r)
      BY <1>4, <1>6, <3>1 DEF Version, Kept
    <3>. QED BY <1>0, <1>2, <2>1, <3>1, <3>2 DEF Current
  <2>2. CASE q # r
    <3>1. /\ ctl'.cmdq[q] = ctl.cmdq[q] /\ main'[q] = main[q] /\ ctl'.step = ctl.step
          /\ Runs(q)' <=> Runs(q)
      BY <1>5, <1>6, <1>8, <2>2 DEF Kept
    <3>. QED BY <1>0, <3>1 DEF Current, Owed, Reduced, Version
  <2>. QED BY <2>1, <2>2
<1>. QED BY <1>7, <1>9, <1>10, <1>11 DEF Steady

(* The rank of a replica in a prefix is its number.                        *)
LEMMA RankOf ==
  ASSUME NEW m \in Seq(Replicas), Prefix(m), NEW p \in ToSet(m)
  PROVE  SelectInSeq(m, LAMBDA q : q = p) = p
<1>. DEFINE I == {i \in 1 .. Len(m) : m[i] = p}
<1>1. \A i \in 1 .. Len(m) : m[i] = i
  BY DEF Prefix
<1>2. p \in 1 .. Len(m) /\ m[p] = p
  BY <1>1, ElementsOf
<1>3. I = {p}
  BY <1>1, <1>2
<1>4. SelectInSeq(m, LAMBDA q : q = p) = Min(I)
  BY <1>3 DEF SelectInSeq
<1>5. {p} # {} /\ {p} \subseteq Nat
  BY <1>2
<1>6. Min({p}) \in {p}
  BY <1>5, LeastIndex
<1>. QED BY <1>3, <1>4, <1>6

(* The invariant: an operation begins; alone, it is over at once.          *)
LEMMA BeginOpSteady ==
  ASSUME TypeInv, Steady, NEW r \in Replicas, NEW type, BeginOp(r, type), ~Dies(r),
         type = "DataFetch" \/ type = "P2PBroadcast" \/ type = "P2PUnicast"
  PROVE  Steady'
<1>. DEFINE cmd == Head(ctl.cmdq[r])
            peer == peer_of(r, cmd)
            x == [NoOp EXCEPT !.pc = "done", !.cmd = cmd]
            y == [pc |-> "wait", cmd |-> cmd, try |-> 1,
                  peer |-> SelectInSeq(ha[r].mesh, LAMBDA q : q = peer)]
<1>0. Arrivals /\ Prefixed /\ Peers /\ Streams /\ Ordered /\ Current
  BY DEF Steady
<1>1. /\ main[r].pc = "idle" /\ ctl.cmdq[r] # <<>> /\ cmd.type = type /\ cmd \in Command
      /\ UNCHANGED <<ctl, kv, groups, proc, bt, ha, crashes>> /\ peer \in ToSet(ha[r].mesh)
      /\ \/ /\ ha[r].single /\ main' = [main EXCEPT ![r] = x]
            /\ weights' = [weights EXCEPT ![r] = IF type = "DataFetch"
                                                 THEN trained(weights[r], cmd.step)
                                                 ELSE weights[r]]
         \/ main' = [main EXCEPT ![r] = y] /\ weights' = weights
  BY OpFields DEF BeginOp, Idle
<1>2. /\ ha[r].mesh \in Seq(Replicas) /\ Prefix(ha[r].mesh) /\ main \in [Replicas -> Op]
      /\ weights \in [Replicas -> Weight] /\ (ha[r].single => r = 1)
  BY <1>0, OpFields, MeshesSeq DEF TypeInv, Typed, Comm, Prefixed
<1>3. Alike(ctl, ctl')
  BY <1>1 DEF Alike, Kept
<1>4. Arrivals' /\ Streams' /\ Ordered' /\ Prefixed'
  BY <1>0, <1>1, <1>3, StreamsFrame DEF Prefixed
<1>5. cmd # Resume
  <2>. HIDE DEF cmd
  <2>. QED BY <1>1, Kinds
<1>6. Task(r, cmd) /\ r \in ctl.loaded
  BY <1>1, <1>5, HeadTask
<1>7. CASE main' = [main EXCEPT ![r] = y] /\ weights' = weights
  <2>1. y = [pc |-> "wait", cmd |-> cmd, try |-> 1, peer |-> peer]
    BY <1>1, <1>2, RankOf
  <2>. HIDE DEF cmd, peer, y
  <2>2. y.pc = "wait" /\ y.cmd = cmd /\ y.peer = peer_of(r, cmd)
    BY <2>1 DEF peer
  <2>3. main'[r] = y /\ \A q \in Replicas : q # r => main'[q] = main[q]
    BY <1>2, <1>7
  <2>4. Peers'
    <3>. SUFFICES ASSUME NEW q \in Replicas
                  PROVE  /\ main'[q].pc \in {"wait", "lock", "flight", "report"}
                              => main'[q].peer = peer_of(q, main'[q].cmd)
                         /\ main'[q].pc # "idle" => main'[q].cmd # Resume
      BY DEF Peers, peer_of
    <3>1. CASE q = r
      BY <1>5, <2>2, <2>3, <3>1
    <3>2. CASE q # r
      BY <1>0, <2>3, <3>2 DEF Peers
    <3>. QED BY <3>1, <3>2
  <2>5. Current'
    <3>1. \A q \in Replicas : /\ main'[q].pc = "done" <=> main[q].pc = "done"
                              /\ main[q].pc = "done" => main'[q].cmd = main[q].cmd
                              /\ weights'[q] = weights[q]
      BY <1>1, <1>7, <2>2, <2>3
    <3>. QED BY <1>0, <1>3, <3>1, CurrentFrame
  <2>. QED BY <1>4, <2>4, <2>5 DEF Steady
<1>8. CASE /\ ha[r].single /\ main' = [main EXCEPT ![r] = x]
           /\ weights' = [weights EXCEPT ![r] = IF type = "DataFetch"
                                                THEN trained(weights[r], cmd.step)
                                                ELSE weights[r]]
  <2>. HIDE DEF cmd, peer
  <2>1. x.pc = "done" /\ x.cmd = cmd
    BY DEF NoOp
  <2>. HIDE DEF x
  <2>2. /\ main'[r] = x /\ \A q \in Replicas : q # r => main'[q] = main[q] /\ weights'[q] = weights[q]
        /\ weights'[r] = IF type = "DataFetch" THEN trained(weights[r], cmd.step) ELSE weights[r]
    BY <1>2, <1>8
  <2>3. Peers'
    <3>. SUFFICES ASSUME NEW q \in Replicas
                  PROVE  /\ main'[q].pc \in {"wait", "lock", "flight", "report"}
                              => main'[q].peer = peer_of(q, main'[q].cmd)
                         /\ main'[q].pc # "idle" => main'[q].cmd # Resume
      BY DEF Peers, peer_of
    <3>1. CASE q = r
      BY <1>5, <2>1, <2>2, <3>1
    <3>2. CASE q # r
      BY <1>0, <2>2, <3>2 DEF Peers
    <3>. QED BY <3>1, <3>2
  <2>4. ~Receives(r, cmd) /\ r = 1
    BY <1>2, <1>6, <1>8 DEF Task
  <2>5. ~Owed(r) /\ ~Reduced(r) /\ weights[r] \in {Spoiled, Version(r)}
    BY <1>0, <1>1, <1>6, <2>4 DEF Owed, Reduced, Current, cmd
  <2>6. weights'[r] \in {Spoiled, Version(r)'}
    <3>1. CASE type = "DataFetch"
      <4>1. cmd = Fetch(ctl.step) /\ Runs(r)
        BY <1>1, <1>6, <3>1, Kinds DEF Task
      <4>2. cmd.step = ctl.step /\ ctl.step \in 1 .. LastStep
        <5>1. cmd.step \in 1 .. LastStep
          BY <1>1, <3>1 DEF Command
        <5>. QED BY <4>1, <5>1, Kinds
      <4>3. weights[r] \in {Spoiled, ctl.step - 1}
        BY <2>5, <4>1 DEF Version
      <4>4. weights'[r] \in {Spoiled, ctl.step}
        BY <2>2, <3>1, <4>2, <4>3 DEF trained, Unloaded, Spoiled
      <4>5. Reduced(r)'
        BY <1>1, <2>1, <2>2, <3>1 DEF Reduced
      <4>6. Version(r)' = ctl.step
        BY <1>1, <4>5 DEF Version
      <4>. QED BY <4>4, <4>6
    <3>2. CASE type # "DataFetch"
      <4>1. weights'[r] = weights[r] /\ ~Reduced(r)'
        BY <1>1, <2>1, <2>2, <3>2 DEF Reduced
      <4>2. Version(r)' = Version(r)
        BY <1>1, <2>5, <4>1 DEF Version, Runs
      <4>. QED BY <2>5, <4>1, <4>2
    <3>. QED BY <3>1, <3>2
  <2>7. Current'
    <3>. SUFFICES ASSUME NEW q \in Replicas, q \in ctl.loaded
                  PROVE  Owed(q)' \/ weights'[q] \in {Spoiled, Version(q)'}
      BY <1>1 DEF Current
    <3>1. CASE q = r
      BY <2>6, <3>1
    <3>2. CASE q # r
      BY <1>0, <1>1, <2>2, <3>2 DEF Current, Owed, Reduced, Version, Runs
    <3>. QED BY <3>1, <3>2
  <2>. QED BY <1>4, <2>3, <2>7 DEF Steady
<1>. QED BY <1>1, <1>7, <1>8

(* While weights are handed over, the current step is ahead of both or of  *)
(* neither of their replicas.                                              *)
LEMMA HandedOver ==
  ASSUME TypeInv, Steady, NEW d \in Replicas, d # 1, NEW cmd \in {Spread, Send(d)},
         main[1].pc = "flight", main[1].cmd = cmd, main[d].pc = "flight", main[d].cmd = cmd
  PROVE  /\ weights[1] \in {Spoiled, Version(1)} /\ Version(d) = Version(1)
<1>0. Arrivals /\ Prefixed /\ Peers /\ Streams /\ Ordered /\ Current
  BY DEF Steady
<1>. DEFINE s == ctl.cmdq[1]
            F == Fetch(ctl.step)
<1>1. /\ 1 \in Replicas /\ Size \in Nat /\ \A q \in Replicas : q \in Nat /\ q >= 1
      /\ s \in Seq(Command)
  BY <1>0, Crew
<1>2. /\ cmd \in ToSet(s) /\ cmd \in ToSet(ctl.cmdq[d]) /\ s # <<>> /\ cmd = Head(s)
      /\ 1 < d /\ d <= Size /\ 1 \in ctl.loaded /\ 1 <= Size
  <2>1. cmd \in ToSet(s) /\ s # <<>> /\ cmd = Head(s) /\ 1 \in ctl.loaded /\ 1 <= Size
    BY <1>1, OpTask
  <2>2. cmd \in ToSet(ctl.cmdq[d]) /\ d <= Size
    BY OpTask
  <2>3. 1 < d
    BY <1>1
  <2>. QED BY <2>1, <2>2, <2>3
<1>3. cmd.type # "DataFetch" /\ cmd # F /\ ~Receives(1, cmd)
  BY Kinds, Different DEF Receives
<1>4. ~Reduced(1) /\ ~Reduced(d) /\ ~Owed(1)
  BY <1>2, <1>3 DEF Reduced, Owed
<1>5. Line(1, s, Size, ctl.step, Runs(1))
  BY <1>0, <1>1, <1>2 DEF Streams, Stream
<1>6. F \in ToSet(s) <=> Runs(1)
  <2>1. Runs(1) => F \in ToSet(s)
    BY <1>5 DEF Line
  <2>2. F \in ToSet(s) => Expected(1, F, Size, ctl.step, Runs(1))
    BY <1>5 DEF Line
  <2>3. Expected(1, F, Size, ctl.step, Runs(1)) => Runs(1)
    BY Different DEF Expected
  <2>. QED BY <2>1, <2>2, <2>3
<1>. HIDE DEF s, F
<1>7. Before(s, cmd, F) <=> F \in ToSet(s)
  <2>1. IsInjective(s)
    BY <1>5 DEF Line
  <2>. QED BY <1>1, <1>2, <1>3, <2>1, HeadOrder
<1>8. Before(s, cmd, F) <=> Runs(d)
  BY <1>0, <1>2 DEF Ordered, Handover, s, F
<1>9. Version(d) = Version(1)
  BY <1>4, <1>6, <1>7, <1>8 DEF Version
<1>. QED BY <1>0, <1>1, <1>2, <1>4, <1>9 DEF Current

(* The replica whose weights an operation in flight is about.              *)
LEMMA PeerOf ==
  ASSUME TypeInv, Steady, NEW r \in Replicas, NEW g, g # NoComm, InFlight(r, g)
  PROVE  groups[g].mesh[main[r].peer] = peer_of(r, main[r].cmd) /\ 1 \in Ranks(g)
<1>1. main[r].peer \in Nat /\ ha[r].comm = g /\ IdOf(groups, g, ha[r].mesh)
      /\ main[r].peer >= 1 /\ main[r].peer <= Len(ha[r].mesh)
  BY DEF TypeInv, Typed, Op, Ops, Comms, InFlight
<1>2. ha[r].mesh \in Seq(Replicas) /\ groups[g].mesh = ha[r].mesh
  BY <1>1, MeshesSeq DEF TypeInv, Typed, Comm, IdOf
<1>3. main[r].peer = peer_of(r, main[r].cmd) /\ Prefix(ha[r].mesh)
  BY DEF InFlight, Steady, Peers, Prefixed
<1>4. main[r].peer \in 1 .. Len(ha[r].mesh) /\ 1 \in 1 .. Len(ha[r].mesh)
  BY <1>1, <1>2
<1>5. ha[r].mesh[main[r].peer] = main[r].peer /\ ha[r].mesh[1] = 1
  BY <1>3, <1>4 DEF Prefix
<1>6. 1 \in ToSet(ha[r].mesh)
  BY <1>2, <1>4, <1>5, ElementsOf
<1>. QED BY <1>2, <1>3, <1>5, <1>6 DEF Ranks

(* What the replicas of a transfer or reduction end up with.               *)
LEMMA TransferCurrent ==
  ASSUME TypeInv, Steady, NEW r \in Replicas, NEW g, g # NoComm, InFlight(r, g),
         \A p \in Partners(r, g) : Pairs(r, p, g), NEW q \in Partners(r, g)
  PROVE  transferred(q, g, Partners(r, g))
           \in {Spoiled, IF main[q].cmd.type = "DataFetch" THEN ctl.step ELSE Version(q)}
<1>. DEFINE S == Partners(r, g)
            type == main[r].cmd.type
<1>0. Arrivals /\ Prefixed /\ Peers /\ Streams /\ Ordered /\ Current
  BY DEF Steady
<1>1. S \subseteq Replicas /\ 1 \in Replicas /\ \A p \in Replicas : p \in Nat /\ p >= 1
  BY <1>0, PartnersType, Crew
<1>2. ASSUME NEW p \in S
      PROVE  /\ p \in Replicas /\ main[p].pc = "flight" /\ main[p].cmd.type = type
             /\ Task(p, main[p].cmd) /\ main[p].cmd = Head(ctl.cmdq[p]) /\ p \in ctl.loaded
             /\ groups[g].mesh[main[p].peer] = peer_of(p, main[p].cmd)
             /\ main[p].cmd \in Command
  <2>1. p \in Replicas /\ InFlight(p, g) /\ main[p].cmd.type = type
    BY <1>1, <1>2 DEF Pairs
  <2>2. main[p].pc = "flight" /\ main[p].pc # "idle"
    BY <2>1 DEF InFlight
  <2>3. groups[g].mesh[main[p].peer] = peer_of(p, main[p].cmd)
    BY <2>1, PeerOf
  <2>4. Task(p, main[p].cmd) /\ main[p].cmd = Head(ctl.cmdq[p]) /\ p \in ctl.loaded
    BY <2>1, <2>2, OpTask
  <2>5. main[p].cmd \in Command
    BY <2>1, <2>2, OpFields
  <2>. QED BY <2>1, <2>2, <2>3, <2>4, <2>5
<1>. HIDE DEF S, type
<1>3. q \in S /\ q \in Replicas
  BY <1>2 DEF S
<1>4. CASE type = "DataFetch"
  <2>1. main[q].cmd = Fetch(ctl.step) /\ Runs(q) /\ ~Receives(q, main[q].cmd)
    BY <1>2, <1>3, <1>4, Kinds DEF Task
  <2>2. ctl.step \in 1 .. LastStep /\ main[q].cmd.type = "DataFetch" /\ main[q].cmd.step = ctl.step
    <3>1. main[q].cmd.type = "DataFetch" /\ main[q].cmd \in Command
      BY <1>2, <1>3, <1>4
    <3>2. main[q].cmd.step \in 1 .. LastStep
      BY <3>1 DEF Command
    <3>. QED BY <2>1, <3>1, <3>2, Kinds
  <2>3. ~Owed(q) /\ ~Reduced(q)
    BY <1>2, <1>3, <2>1 DEF Owed, Reduced
  <2>4. weights[q] \in {Spoiled, ctl.step - 1}
    BY <1>0, <1>2, <1>3, <2>1, <2>3 DEF Current, Version
  <2>5. trained(weights[q], ctl.step) \in {Spoiled, ctl.step}
    BY <2>2, <2>4 DEF trained, Unloaded, Spoiled
  <2>6. transferred(q, g, S) \in {Spoiled, trained(weights[q], ctl.step)}
    BY <2>2 DEF transferred
  <2>. QED BY <2>2, <2>5, <2>6 DEF S
<1>5. ASSUME NEW d \in Replicas, d # 1, NEW cmd \in {Spread, Send(d)}, 1 \in S, d \in S,
             main[1].cmd = cmd, main[d].cmd = cmd
      PROVE  weights[1] \in {Spoiled, Version(1)} /\ Version(d) = Version(1)
  <2>1. main[1].pc = "flight" /\ main[d].pc = "flight"
    BY <1>2, <1>5
  <2>. QED BY <1>5, <2>1, HandedOver
<1>6. CASE type = "P2PBroadcast"
  <2>1. 1 \in S
    BY <1>6, PeerOf DEF S, Partners, Collective, type
  <2>2. \A p \in S : main[p].cmd = Spread
    BY <1>2, <1>6, Kinds DEF Task
  <2>3. peer_of(q, main[q].cmd) = 1
    BY <1>3, <2>2, Kinds DEF peer_of
  <2>4. transferred(q, g, S) = weights[1] /\ main[q].cmd.type = "P2PBroadcast"
    <3>1. main[q].cmd.type = "P2PBroadcast"
      BY <1>2, <1>3, <1>6
    <3>. QED BY <1>2, <1>3, <2>3, <3>1 DEF transferred
  <2>5. weights[1] \in {Spoiled, Version(1)}
    <3>1. main[1].cmd = Spread /\ main[1].cmd = Head(ctl.cmdq[1]) /\ main[1].pc = "flight"
          /\ 1 \in ctl.loaded
      BY <1>2, <2>1, <2>2
    <3>2. ~Receives(1, Spread)
      BY Different DEF Receives
    <3>3. ~Owed(1)
      BY <3>1, <3>2 DEF Owed
    <3>. QED BY <1>0, <1>1, <3>1, <3>3 DEF Current
  <2>6. Version(q) = Version(1)
    <3>1. CASE q = 1
      BY <3>1
    <3>2. CASE q # 1
      BY <1>3, <1>5, <2>1, <2>2, <3>2
    <3>. QED BY <3>1, <3>2
  <2>. QED BY <2>4, <2>5, <2>6 DEF S
<1>7. CASE type = "P2PUnicast"
  <2>1. S = {r, peer_of(r, main[r].cmd)} /\ r \in S
    <3>1. S = {r, groups[g].mesh[main[r].peer]}
      BY <1>7 DEF S, Partners, Collective, type
    <3>2. groups[g].mesh[main[r].peer] = peer_of(r, main[r].cmd)
      BY PeerOf
    <3>. QED BY <3>1, <3>2
  <2>2. PICK d \in Replicas : d # 1 /\ S = {1, d} /\ main[1].cmd = Send(d) /\ main[d].cmd = Send(d)
    <3>1. ASSUME NEW p \in S, p # r PROVE peer_of(p, main[p].cmd) = r
      <4>1. Pairs(r, p, g)
        BY <3>1 DEF S
      <4>2. groups[g].mesh[main[p].peer] = r
        BY <1>7, <3>1, <4>1 DEF Pairs, Collective, type
      <4>. QED BY <1>2, <3>1, <4>2
    <3>2. ASSUME NEW p \in S, p # 1 PROVE main[p].cmd = Send(p) /\ peer_of(p, Send(p)) = 1
      <4>1. main[p].cmd = Send(p)
        BY <1>2, <1>7, <3>2, Kinds DEF Task
      <4>2. peer_of(p, Send(p)) = 1
        BY <3>2, Kinds DEF peer_of
      <4>. QED BY <4>1, <4>2
    <3>3. ASSUME 1 \in S
          PROVE  \E e \in Replicas : e # 1 /\ main[1].cmd = Send(e) /\ peer_of(1, Send(e)) = e
      <4>1. PICK e \in Replicas : 1 < e /\ main[1].cmd = Send(e)
        BY <1>2, <1>7, <3>3, Kinds DEF Task
      <4>2. e # 1
        BY <1>1, <4>1
      <4>3. peer_of(1, Send(e)) = e
        BY Kinds DEF peer_of
      <4>. QED BY <4>1, <4>2, <4>3
    <3>4. CASE r = 1
      <4>1. PICK e \in Replicas : e # 1 /\ main[1].cmd = Send(e) /\ peer_of(1, Send(e)) = e
        BY <2>1, <3>3, <3>4
      <4>2. S = {1, e} /\ e \in S
        BY <2>1, <3>4, <4>1
      <4>3. main[e].cmd = Send(e)
        BY <3>2, <4>1, <4>2
      <4>. QED BY <4>1, <4>2, <4>3
    <3>5. CASE r # 1
      <4>1. main[r].cmd = Send(r) /\ S = {r, 1}
        BY <2>1, <3>2, <3>5
      <4>2. PICK e \in Replicas : e # 1 /\ main[1].cmd = Send(e) /\ peer_of(1, Send(e)) = e
        BY <3>3, <4>1
      <4>3. e = r
        BY <3>1, <3>5, <4>1, <4>2
      <4>. QED BY <3>5, <4>1, <4>2, <4>3
    <3>. QED BY <3>4, <3>5
  <2>3. weights[1] \in {Spoiled, Version(1)} /\ Version(d) = Version(1)
    BY <1>5, <2>2
  <2>4. transferred(q, g, S) = weights[1] /\ main[q].cmd.type = "P2PUnicast"
    <3>1. main[q].cmd.type = "P2PUnicast" /\ main[q].cmd = Send(d) /\ main[q].cmd.src = 1
      BY <1>2, <1>3, <1>7, <2>2, Kinds
    <3>2. CASE q = 1
      BY <3>1, <3>2 DEF transferred
    <3>3. CASE q # 1
      <4>1. peer_of(q, main[q].cmd) = 1
        BY <3>1, <3>3 DEF peer_of
      <4>. QED BY <1>2, <1>3, <3>1, <3>3, <4>1 DEF transferred
    <3>. QED BY <3>2, <3>3
  <2>. QED BY <1>3, <2>2, <2>3, <2>4 DEF S
<1>8. type \in {"DataFetch", "P2PBroadcast", "P2PUnicast"}
  <2>1. main[r].pc # "idle"
    BY DEF InFlight
  <2>2. Task(r, main[r].cmd)
    BY <2>1, OpTask
  <2>. QED BY <2>2, Kinds DEF Task, type
<1>. QED BY <1>4, <1>6, <1>7, <1>8

(* The invariant: weights are transferred or gradients reduced.            *)
LEMMA TransferSteady ==
  ASSUME TypeInv, Steady, NEW r \in Replicas, Transfer(r)
  PROVE  Steady'
<1>. DEFINE g == ha[r].comm
            S == Partners(r, g)
<1>0. Arrivals /\ Prefixed /\ Peers /\ Streams /\ Ordered /\ Current
  BY DEF Steady
<1>1. /\ InFlight(r, g) /\ g # NoComm /\ \A q \in S : Pairs(r, q, g)
      /\ weights' = [q \in Replicas |-> IF q \in S THEN transferred(q, g, S) ELSE weights[q]]
      /\ main' = [q \in Replicas |-> IF q \in S THEN [main[q] EXCEPT !.pc = "done"] ELSE main[q]]
      /\ UNCHANGED <<ctl, kv, groups, proc, bt, ha, crashes>>
  BY DEF Transfer, InFlight
<1>2. S \subseteq Replicas
  BY <1>1, PartnersType
<1>3. ASSUME NEW q \in S
      PROVE  /\ weights'[q] \in {Spoiled, IF main[q].cmd.type = "DataFetch" THEN ctl.step
                                          ELSE Version(q)}
             /\ main[q].pc = "flight" /\ q \in Replicas
             /\ main'[q].pc = "done" /\ main'[q].cmd = main[q].cmd
  <2>1. transferred(q, g, S) \in {Spoiled, IF main[q].cmd.type = "DataFetch" THEN ctl.step
                                           ELSE Version(q)}
    BY <1>1, <1>3, TransferCurrent
  <2>2. q \in Replicas /\ main[q].pc = "flight" /\ main[q] \in Op
    BY <1>1, <1>2, <1>3 DEF Pairs, InFlight, TypeInv, Typed
  <2>. HIDE DEF S, g
  <2>3. weights'[q] = transferred(q, g, S) /\ main'[q] = [main[q] EXCEPT !.pc = "done"]
    BY <1>1, <1>3, <2>2
  <2>. QED BY <2>1, <2>2, <2>3 DEF Op
<1>4. \A q \in Replicas : q \notin S => main'[q] = main[q] /\ weights'[q] = weights[q]
  BY <1>1
<1>. HIDE DEF S, g
<1>5. Alike(ctl, ctl')
  BY <1>1 DEF Alike, Kept
<1>6. Arrivals' /\ Streams' /\ Ordered' /\ Prefixed'
  BY <1>0, <1>1, <1>5, StreamsFrame DEF Prefixed
<1>7. Peers'
  <2>. SUFFICES ASSUME NEW q \in Replicas
                PROVE  /\ main'[q].pc \in {"wait", "lock", "flight", "report"}
                            => main'[q].peer = peer_of(q, main'[q].cmd)
                       /\ main'[q].pc # "idle" => main'[q].cmd # Resume
    BY DEF Peers, peer_of
  <2>1. CASE q \in S
    BY <1>0, <1>3, <2>1 DEF Peers
  <2>2. CASE q \notin S
    BY <1>0, <1>4, <2>2 DEF Peers
  <2>. QED BY <2>1, <2>2
<1>8. Current'
  <2>. SUFFICES ASSUME NEW q \in Replicas, q \in ctl.loaded
                PROVE  Owed(q)' \/ weights'[q] \in {Spoiled, Version(q)'}
    BY <1>1 DEF Current
  <2>1. CASE q \in S
    <3>1. (Reduced(q)' <=> main[q].cmd.type = "DataFetch") /\ ~Reduced(q)
      BY <1>3, <2>1 DEF Reduced
    <3>2. Version(q)' = IF main[q].cmd.type = "DataFetch" THEN ctl.step ELSE Version(q)
      BY <1>1, <3>1 DEF Version, Runs
    <3>. QED BY <1>3, <2>1, <3>2
  <2>2. CASE q \notin S
    BY <1>0, <1>1, <1>4, <2>2 DEF Current, Owed, Reduced, Version, Runs
  <2>. QED BY <2>1, <2>2
<1>. QED BY <1>6, <1>7, <1>8 DEF Steady

-----------------------------------------------------------------------------
(* The weights of a training step: the argument *)

(* No replica has been lost after a step only if none had been before, and *)
(* then nobody dies, and the controller sweeps nobody.                     *)
LEMMA NobodyDies ==
  ASSUME TypeInv, Intact', NEW r \in Replicas
  PROVE  ~Dies(r)
<1>. SUFFICES ASSUME Dies(r) PROVE FALSE
  OBVIOUS
<1>1. proc'[r] = "dead"
  BY DEF Dies, TypeInv, Typed
<1>. QED BY <1>1 DEF Intact, Up

LEMMA MembersKept ==
  ASSUME TypeInv, NEW r \in Replicas, Background(r) \/ MainThread(r), ~Dies(r)
  PROVE  proc' = proc /\ ctl'.members = ctl.members
<1>1. CtlOK(ctl) /\ ctl \in Ctl
  BY OpFields
<1>2. set_replica_ncclerror(ctl, r).members = ctl.members
  BY <1>1, ReportOK DEF Plain, SameMesh
<1>3. CASE Background(r)
  <2>1. proc' = proc
    BY <1>3 DEF Background, TakeBuildMesh, PostUid, AcceptUid, CommCreated, AcceptFails,
                ClearStore, CreateFails, CreateReported
  <2>2. CASE TakeBuildMesh(r)
    <3>1. ctl' = [ctl EXCEPT !.buildq[r] = Tail(@)]
      BY <2>2 DEF TakeBuildMesh
    <3>. QED BY <1>1, <2>1, <3>1 DEF Ctl
  <2>3. CASE ~TakeBuildMesh(r)
    <3>1. ctl' \in {ctl, set_replica_ncclerror(ctl, r)}
      BY <1>3, <2>3 DEF Background, PostUid, AcceptUid, CommCreated, AcceptFails,
                        ClearStore, CreateFails, CreateReported
    <3>. QED BY <1>2, <2>1, <3>1
  <2>. QED BY <2>2, <2>3
<1>4. CASE WeightResume(r) \/ EndOp(r)
  <2>1. ctl.cmdq[r] # <<>>
    BY <1>4, OpFields DEF WeightResume, Idle, EndOp
  <2>2. CtlOK(done(ctl, r)) /\ done(ctl, r).members = ctl.members
    BY <1>1, <2>1, DoneOK DEF SameMesh
  <2>3. train_ack(done(ctl, r), r).members = ctl.members
    BY <2>2, AckOK DEF Plain, SameMesh
  <2>4. ctl' \in {done(ctl, r), train_ack(done(ctl, r), r)} /\ proc' = proc
    BY <1>4 DEF WeightResume, EndOp
  <2>. QED BY <2>2, <2>3, <2>4
<1>5. CASE \/ PolicyToPolicyBroadcast(r) \/ PolicyToPolicyUnicast(r) \/ DataFetch(r)
           \/ CommReady(r) \/ Transfer(r) \/ NextAttempt(r)
  BY <1>5 DEF PolicyToPolicyBroadcast, PolicyToPolicyUnicast, DataFetch, BeginOp, CommReady,
              Transfer, NextAttempt
<1>6. CASE Enqueue(r) \/ OpTimeout(r) \/ WaitTimeout(r)
  <2>1. ctl' \in {ctl, set_replica_ncclerror(ctl, r)} /\ proc' = proc
    BY <1>6 DEF Enqueue, OpTimeout, WaitTimeout
  <2>. QED BY <1>2, <2>1
<1>. QED BY <1>3, <1>4, <1>5, <1>6 DEF MainThread

(* The sweep after a report drops nobody, or somebody.                     *)
LEMMA WindowKept ==
  ASSUME TypeInv, NcclErrorWindow
  PROVE  /\ Members(ctl') \subseteq Members(ctl) /\ proc' = proc
         /\ Members(ctl') = Members(ctl) => Alike(ctl, ctl') /\ ctl'.buildq = ctl.buildq
<1>. DEFINE Within(d) == Members(d) \subseteq Members(ctl) /\ Members(d) # Members(ctl)
            X == {d \in Ctl : CtlOK(d) /\ (d = ctl \/ Within(d))}
<1>1. CtlOK(ctl) /\ ctl \in X
  <2>1. CtlOK(ctl) /\ ctl \in Ctl
    BY DEF TypeInv, Typed, CtlOK
  <2>. QED BY <2>1
<1>2. ctl' = post_ncclerror(ctl) /\ proc' = proc
  BY DEF NcclErrorWindow
<1>3. ASSUME NEW d \in X, NEW r \in Members(d) PROVE unregister(d, r) \in X
  <2>1. CtlOK(unregister(d, r)) /\ Members(unregister(d, r)) = Members(d) \ {r}
    BY UnregisterOK
  <2>2. unregister(d, r) \in Ctl
    BY <2>1 DEF CtlOK
  <2>3. Members(d) \subseteq Members(ctl)
    OBVIOUS
  <2>. QED BY <2>1, <2>2, <2>3
<1>4. PICK d \in X : ctl' = [d EXCEPT !.errors = {}, !.window = FALSE]
  <2>1. \A d \in X : CtlOK(d) /\ \A r \in Members(d) : unregister(d, r) \in X
    BY <1>3
  <2>. HIDE DEF X
  <2>. QED BY <1>1, <1>2, <2>1, Sweep
<1>5. Members(ctl') = Members(d)
  BY <1>4, FieldsOK DEF Plain, SameMesh, Members
<1>6. d = ctl => Alike(ctl, ctl') /\ ctl'.buildq = ctl.buildq
  BY <1>4 DEF Ctl, Alike, Kept
<1>. QED BY <1>2, <1>5, <1>6

LEMMA IntactBefore ==
  ASSUME TypeInv, [Next]_vars, Intact'
  PROVE  Intact
<1>1. ASSUME proc' = proc, Members(ctl') \subseteq Members(ctl) PROVE Intact
  BY <1>1 DEF Intact, Up
<1>2. CtlOK(ctl) /\ ctl \in Ctl
  BY DEF TypeInv, Typed, CtlOK
<1>3. CASE UNCHANGED vars
  BY <1>1, <1>3 DEF vars
<1>4. CASE NcclErrorWindow
  BY <1>1, <1>4, WindowKept
<1>5. CASE Dispatch
  <2>1. proc' = proc /\ ctl'.members = ctl.members
    BY <1>2, <1>5, DispatchFields DEF Dispatch
  <2>. QED BY <1>1, <2>1 DEF Members
<1>6. ASSUME NEW r \in Replicas, Register(r) PROVE Intact
  <2>1. proc[r] = "new" /\ ctl' = register(ctl, r) /\ \A q \in Replicas : q # r => proc'[q] = proc[q]
    BY <1>6 DEF Register, TypeInv, Typed
  <2>2. r \notin Members(ctl)
    BY <2>1 DEF TypeInv, Registered
  <2>3. Members(ctl') = Members(ctl) \cup {r}
    BY <1>2, <2>1, <2>2, RegisterOK
  <2>. QED BY <2>1, <2>3 DEF Intact, Up
<1>7. ASSUME NEW r \in Replicas, Unregister(r) PROVE FALSE
  BY <1>7 DEF Unregister, Intact, Up
<1>8. ASSUME NEW r \in Replicas, Crash(r) PROVE FALSE
  BY <1>8, NobodyDies DEF Crash
<1>9. ASSUME NEW r \in Replicas, Background(r) \/ MainThread(r) PROVE Intact
  <2>1. proc' = proc /\ ctl'.members = ctl.members
    BY <1>9, NobodyDies, MembersKept
  <2>. QED BY <1>1, <2>1 DEF Members
<1>. QED BY <1>3, <1>4, <1>5, <1>6, <1>7, <1>8, <1>9 DEF Next

(* As long as no replica is lost, every step keeps the invariant.          *)
LEMMA SteadyStep ==
  ASSUME TypeInv, Intact => Steady, [Next]_vars, Intact'
  PROVE  Steady'
<1>1. Intact /\ Steady
  BY IntactBefore
<1>2. CASE UNCHANGED vars
  BY <1>1, <1>2
     DEF vars, Steady, Arrivals, Prefixed, Peers, Streams, Stream, Ordered, Handover, Current,
         Owed, Reduced, Version, Runs, Size
<1>3. CASE NcclErrorWindow
  <2>1. Members(ctl') = Members(ctl)
    <3>1. \A r \in Members(ctl) : r \in Replicas /\ proc[r] # "new"
      BY MembersType DEF TypeInv, Typed, CtlOK, Registered
    <3>. QED BY <1>3, <3>1, WindowKept DEF Intact
  <2>2. /\ Alike(ctl, ctl') /\ ctl'.buildq = ctl.buildq
        /\ UNCHANGED <<kv, groups, proc, bt, ha, main, weights>>
    BY <1>3, <2>1, WindowKept DEF NcclErrorWindow, workerVars
  <2>3. Arrivals' /\ Streams' /\ Ordered'
    BY <1>1, <2>2, StreamsFrame DEF Steady
  <2>4. Current'
    BY <1>1, <2>2, CurrentFrame DEF Steady
  <2>5. Prefixed' /\ Peers'
    BY <1>1, <2>2 DEF Steady, Prefixed, Peers
  <2>. QED BY <2>3, <2>4, <2>5 DEF Steady
<1>4. CASE Dispatch
  BY <1>1, <1>4, DispatchSteady
<1>5. ASSUME NEW r \in Replicas, Register(r) PROVE Steady'
  BY <1>1, <1>5, RegisterSteady
<1>6. ASSUME NEW r \in Replicas, Unregister(r) PROVE FALSE
  BY <1>1, <1>6 DEF Unregister, Intact, Up
<1>7. ASSUME NEW r \in Replicas, Crash(r) PROVE FALSE
  BY <1>7, NobodyDies DEF Crash
<1>8. ASSUME NEW r \in Replicas, Background(r) PROVE Steady'
  BY <1>1, <1>8, TakeBuildMeshSteady, BuildSteady DEF Background
<1>9. ASSUME NEW r \in Replicas, MainThread(r) PROVE Steady'
  <2>1. ~Dies(r)
    BY NobodyDies
  <2>2. CASE PolicyToPolicyBroadcast(r) \/ PolicyToPolicyUnicast(r) \/ DataFetch(r)
    BY <1>1, <2>1, <2>2, BeginOpSteady
       DEF PolicyToPolicyBroadcast, PolicyToPolicyUnicast, DataFetch
  <2>3. CASE CommReady(r) \/ Enqueue(r) \/ OpTimeout(r) \/ WaitTimeout(r) \/ NextAttempt(r)
    <3>1. NextAttempt(r) => main[r].try < MaxRetry
      BY <2>1 DEF NextAttempt
    <3>. QED BY <1>1, <2>3, <3>1, AttemptSteady
  <2>4. CASE WeightResume(r) \/ Transfer(r) \/ EndOp(r)
    BY <1>1, <2>1, <2>4, WeightResumeSteady, TransferSteady, EndOpSteady
  <2>. QED BY <1>9, <2>2, <2>3, <2>4 DEF MainThread
<1>. QED BY <1>2, <1>3, <1>4, <1>5, <1>6, <1>7, <1>8, <1>9 DEF Next

(* Initially nobody has registered.                                        *)
LEMMA SteadyInit == Init => Steady
<1>. SUFFICES ASSUME Init PROVE Steady
  OBVIOUS
<1>1. /\ ctl.members = <<>> /\ Size = 0 /\ ctl.loaded = {} /\ ~ctl.init_done
      /\ ~ctl.first_arrived /\ ctl.step = 0
      /\ \A r \in Replicas : /\ ctl.cmdq[r] = <<>> /\ ctl.buildq[r] = <<>> /\ proc[r] = "new"
                             /\ bt[r].mesh = <<>> /\ ha[r].mesh = <<>> /\ ~ha[r].single
                             /\ main[r].pc = "idle" /\ r >= 1 /\ r \in Nat
      /\ Len(groups) = 0
  BY MeshAssumption DEF Init, Size, NoBuild, NoOp, Replicas
<1>2. Prefix(<<>>) /\ ToSet(<<>>) = {}
  BY DEF Prefix, ToSet
<1>3. Arrivals
  BY <1>1, <1>2 DEF Arrivals
<1>4. Prefixed /\ Peers
  BY <1>1, <1>2 DEF Prefixed, Peers
<1>5. Streams /\ Ordered /\ Current
  BY <1>1 DEF Streams, Ordered, Current
<1>. QED BY <1>3, <1>4, <1>5 DEF Steady

(* Who reduces is in the current step, with the weights from before it.    *)
LEMMA SteadyAgree == ASSUME TypeInv, Intact => Steady PROVE WeightsAgree
<1>. SUFFICES ASSUME Steady, NEW r \in Replicas, Reducing(r), weights[r] # Spoiled
              PROVE  /\ main[r].cmd = Fetch(ctl.step) /\ weights[r] = ctl.step - 1
                     /\ ctl.step - 1 # Unloaded
  BY DEF WeightsAgree
<1>1. main[r].pc = "flight" /\ main[r].cmd.type = "DataFetch"
  BY DEF Reducing
<1>2. Task(r, main[r].cmd) /\ main[r].cmd = Head(ctl.cmdq[r]) /\ r \in ctl.loaded
  BY <1>1, OpTask
<1>3. main[r].cmd = Fetch(ctl.step) /\ Runs(r) /\ ~Receives(r, main[r].cmd)
  BY <1>1, <1>2, Kinds DEF Task
<1>4. ~Owed(r) /\ ~Reduced(r)
  BY <1>1, <1>2, <1>3 DEF Owed, Reduced
<1>5. weights[r] = ctl.step - 1
  BY <1>2, <1>3, <1>4 DEF Steady, Current, Version
<1>6. ctl.step \in Nat /\ ctl.step >= 1
  <2>1. main[r].cmd \in Command
    BY <1>1, OpFields
  <2>2. main[r].cmd.step \in 1 .. LastStep
    BY <1>1, <2>1 DEF Command
  <2>. QED BY <1>3, <2>2, Kinds, MeshAssumption
<1>. QED BY <1>3, <1>5, <1>6 DEF Unloaded

(* Replicas that reduce gradients together are in the same step and start  *)
(* it from the same, loaded weights, whenever replicas joined: replica 1   *)
(* hands weights out before a step exactly to those who take part in it.   *)
(* For any number of replicas and steps, and of crashes; what they cost is *)
(* outside of the property, which is about the time before the first loss. *)
THEOREM MeshWeightsAgree == Spec => []WeightsAgree
<1>. DEFINE I == TypeInv /\ (Intact => Steady)
<1>1. Init => I
  BY TypeInvInit, SteadyInit
<1>2. I /\ [Next]_vars => I'
  BY TypeInvStep, SteadyStep
<1>3. I => WeightsAgree
  BY SteadyAgree
<1>. HIDE DEF I
<1>. QED BY <1>1, <1>2, <1>3, PTL DEF Spec
=============================================================================
