-------------------------- MODULE BatchGraphProofs --------------------------
(***************************************************************************)
(* Theorems about BatchGraph for any fleet, rollout settings and stored    *)
(* artifacts: how waves are cut, types, the approved plan, failed waves.   *)
(***************************************************************************)
EXTENDS BatchGraph, FiniteSetTheorems, TLAPS

-----------------------------------------------------------------------------
(* Waves *)

\* Products of naturals grow with their factors.
LEMMA Monotone ==
  ASSUME NEW a \in Nat, NEW b \in Nat, NEW c \in Nat, a <= b
  PROVE  a * c <= b * c
  BY SMT

\* UpTo rounds up: the last of UpTo(n, size) shares begins before n.
LEMMA SharesBegin ==
  ASSUME NEW n \in Nat, NEW size \in Nat \ {0}, NEW i \in 1..UpTo(n, size)
  PROVE  UpTo(n, size) \in Nat /\ (i - 1) * size \in Nat /\ (i - 1) * size < n
<1> DEFINE q == (n + size - 1) \div size
<1>1. q \in Nat /\ q * size <= n + size - 1
  BY SMT
<1>2. i \in Nat /\ i - 1 \in Nat /\ i <= q
  BY <1>1 DEF UpTo
<1>3. i * size <= q * size
  BY <1>1, <1>2, Monotone
<1>4. i * size = (i - 1) * size + size
  BY <1>2, SMT
<1>5. (i - 1) * size \in Nat /\ i * size \in Nat /\ q * size \in Nat
  BY <1>1, <1>2, SMT
<1> QED
  BY <1>1, <1>3, <1>4, <1>5 DEF UpTo

\* Where the first wave of a slice ends the next one begins.
LEMMA SharesApart ==
  ASSUME NEW size \in Nat \ {0}, NEW i \in Nat \ {0}, NEW j \in Nat \ {0}, i < j,
         NEW p \in 1..size, NEW q \in 1..size
  PROVE  (i - 1) * size + p < (j - 1) * size + q
<1>1. i - 1 \in Nat /\ j - 1 \in Nat /\ i <= j - 1
  OBVIOUS
<1>2. i * size <= (j - 1) * size
  BY <1>1, Monotone
<1>3. i * size = (i - 1) * size + size
  BY SMT
<1>4. (i - 1) * size \in Nat /\ (j - 1) * size \in Nat
  BY <1>1, SMT
<1> QED
  BY <1>2, <1>3, <1>4

\* A list that is not empty has a first share.
LEMMA CountOfShares ==
  ASSUME NEW n \in Nat \ {0}, NEW size \in Nat \ {0}
  PROVE  UpTo(n, size) \in Nat \ {0}
<1>1. n + size - 1 \in Nat /\ n + size - 1 >= size
  OBVIOUS
<1>2. (n + size - 1) \div size \in Nat \ {0}
  BY <1>1, SMT
<1> QED
  BY <1>2 DEF UpTo

\* A wave has room for a VM, and for no more than one or the share, rounded up.
LEMMA WaveSizePositive ==
  ASSUME settings \in Settings, NEW n \in Nat
  PROVE  /\ WaveSize(n) \in Nat \ {0}
         /\ WaveSize(n) = 1 \/ 100 * WaveSize(n) < n * settings.percentage + 100
<1> DEFINE m == n * settings.percentage
           share == (m + 100 - 1) \div 100
<1>1. settings.percentage \in Int
  BY BatchAssumption
<1>2. m \in Int
  BY <1>1, SMT
<1> HIDE DEF m
<1>3. share \in Int /\ share * 100 <= m + 99
  BY <1>2, SMT
<1>4. WaveSize(n) = IF share > 1 THEN share ELSE 1
  BY DEF WaveSize, UpTo, m
<1> HIDE DEF share
<1>5. /\ WaveSize(n) \in Nat \ {0}
      /\ WaveSize(n) = 1 \/ 100 * WaveSize(n) < m + 100
  BY <1>2, <1>3, <1>4
<1> QED
  BY <1>5 DEF m

\* Every element of a wave has its own place in the list that was cut.
LEMMA PartitionPlaces ==
  ASSUME settings \in Settings, NEW s \in Seq(Vms), s # <<>>,
         NEW i \in 1..UpTo(Len(s), WaveSize(Len(s)))
  PROVE  LET size == WaveSize(Len(s)) IN
         /\ i \in DOMAIN Partition(s)
         /\ Partition(s)[i] \in Seq(Vms)
         /\ \A p \in 1..Len(Partition(s)[i]) :
              /\ p \in 1..size
              /\ (i - 1) * size + p \in 1..Len(s)
              /\ Partition(s)[i][p] = s[(i - 1) * size + p]
<1> DEFINE size == WaveSize(Len(s))
           from == (i - 1) * size + 1
           to   == IF i * size < Len(s) THEN i * size ELSE Len(s)
<1>1. Len(s) \in Nat \ {0}
  OBVIOUS
<1>2. size \in Nat \ {0}
  BY <1>1, WaveSizePositive
<1> HIDE DEF size
<1>3. /\ UpTo(Len(s), size) \in Nat
      /\ (i - 1) * size \in Nat /\ (i - 1) * size < Len(s)
  BY <1>1, <1>2, SharesBegin DEF size
<1>4. i * size = (i - 1) * size + size
  <2>1. i \in Nat
    BY <1>3 DEF size
  <2> QED
    BY <2>1, <1>2, SMT
<1>5. /\ from \in 1..Len(s) /\ to \in 1..Len(s) /\ from <= to
      /\ to - from + 1 <= size
  BY <1>1, <1>2, <1>3, <1>4
<1>6. Partition(s) = [k \in 1..UpTo(Len(s), size) |->
                        SubSeq(s, (k - 1) * size + 1,
                               IF k * size < Len(s) THEN k * size ELSE Len(s))]
  BY DEF Partition, size
<1>7. i \in DOMAIN Partition(s) /\ Partition(s)[i] = SubSeq(s, from, to)
  BY <1>6 DEF size
<1> HIDE DEF from, to
<1>8. /\ SubSeq(s, from, to) \in Seq(Vms)
      /\ Len(SubSeq(s, from, to)) = to - from + 1
      /\ \A p \in 1..(to - from + 1) : SubSeq(s, from, to)[p] = s[from + p - 1]
  BY <1>5
<1>9. ASSUME NEW p \in 1..(to - from + 1)
      PROVE  /\ p \in 1..size /\ (i - 1) * size + p \in 1..Len(s)
             /\ from + p - 1 = (i - 1) * size + p
  BY <1>1, <1>2, <1>3, <1>5, <1>9 DEF from
<1> QED
  BY <1>7, <1>8, <1>9 DEF size

OneToOne(s) == \A i, j \in 1..Len(s) : s[i] = s[j] => i = j

\* w cuts targets into waves: a VM of them is in one wave at most.
Cuts(w, s) ==
  /\ w \in Seq(Seq(Vms))
  /\ s # <<>> => w # <<>>
  /\ \A i \in 1..Len(w) : Listed(w[i]) \subseteq Listed(s)
  /\ \A i, j \in 1..Len(w) : i # j => Listed(w[i]) \cap Listed(w[j]) = {}

\* A function on 1..n is a sequence of length n.
LEMMA OneSeq ==
  ASSUME NEW S, NEW n \in Nat, NEW f, f = [k \in 1..n |-> f[k]],
         \A k \in 1..n : f[k] \in S
  PROVE  f \in Seq(S) /\ Len(f) = n
<1>1. f \in [1..n -> S]
  OBVIOUS
<1> QED
  BY <1>1

\* _partition_into_waves cuts a list of distinct VMs.
LEMMA PartitionCuts ==
  ASSUME settings \in Settings, NEW s \in Seq(Vms), OneToOne(s)
  PROVE  Cuts(Partition(s), s)
<1> DEFINE size == WaveSize(Len(s))
           w    == Partition(s)
<1>1. CASE s = <<>>
  BY <1>1 DEF Partition, Cuts
<1>2. CASE s # <<>>
  <2>1. Len(s) \in Nat \ {0} /\ size \in Nat \ {0}
    BY <1>2, WaveSizePositive
  <2>2. \A i \in 1..UpTo(Len(s), size) : i \in DOMAIN w /\ w[i] \in Seq(Vms)
    BY <1>2, PartitionPlaces
  <2>3. w = [k \in 1..UpTo(Len(s), size) |-> w[k]]
    BY <1>2 DEF Partition
  <2>4. UpTo(Len(s), size) \in Nat \ {0}
    BY <2>1, CountOfShares
  <2> HIDE DEF w, size
  <2>5. w \in Seq(Seq(Vms)) /\ Len(w) = UpTo(Len(s), size)
    <3> DEFINE N == UpTo(Len(s), size)
    <3>1. N \in Nat /\ w = [k \in 1..N |-> w[k]] /\ \A k \in 1..N : w[k] \in Seq(Vms)
      BY <2>2, <2>3, <2>4
    <3> HIDE DEF N
    <3> QED
      BY <3>1, OneSeq DEF N
  <2>6. \A i \in 1..Len(w) : \A p \in 1..Len(w[i]) :
          /\ p \in 1..size
          /\ (i - 1) * size + p \in 1..Len(s)
          /\ w[i][p] = s[(i - 1) * size + p]
    BY <1>2, <2>5, PartitionPlaces DEF w, size
  <2>7. ASSUME NEW i \in 1..Len(w) PROVE Listed(w[i]) \subseteq Listed(s)
    BY <2>6 DEF Listed
  <2>8. ASSUME NEW i \in 1..Len(w), NEW j \in 1..Len(w), i < j
        PROVE  Listed(w[i]) \cap Listed(w[j]) = {}
    <3> SUFFICES ASSUME NEW p \in 1..Len(w[i]), NEW q \in 1..Len(w[j]), w[i][p] = w[j][q]
                 PROVE  FALSE
      BY DEF Listed
    <3> DEFINE a == (i - 1) * size + p
               b == (j - 1) * size + q
    <3>1. p \in 1..size /\ q \in 1..size /\ a \in 1..Len(s) /\ b \in 1..Len(s) /\ s[a] = s[b]
      BY <2>6
    <3>2. a = b
      BY <3>1 DEF OneToOne
    <3>3. i \in Nat \ {0} /\ j \in Nat \ {0}
      BY <2>5
    <3>4. a < b
      BY <2>1, <2>8, <3>1, <3>3, SharesApart
    <3> QED
      BY <3>1, <3>2, <3>4
  <2>9. ASSUME NEW i \in 1..Len(w), NEW j \in 1..Len(w), i # j
        PROVE  Listed(w[i]) \cap Listed(w[j]) = {}
    <3>1. i < j \/ j < i
      BY <2>9
    <3> QED
      BY <2>8, <3>1
  <2> QED
    BY <2>4, <2>5, <2>7, <2>9 DEF Cuts, w
<1> QED
  BY <1>1, <1>2

\* The canary in front of the waves of the others.
LEMMA CanaryCuts ==
  ASSUME settings \in Settings, NEW s \in Seq(Vms), OneToOne(s), Len(s) > 1
  PROVE  Cuts(<<<<Head(s)>>>> \o Partition(Tail(s)), s)
<1> DEFINE t == Tail(s)
           c == <<Head(s)>>
           w == Partition(t)
           x == <<c>> \o w
<1>1. /\ t \in Seq(Vms) /\ Len(t) = Len(s) - 1 /\ \A i \in 1..Len(t) : t[i] = s[i + 1]
      /\ c \in Seq(Vms) /\ Len(c) = 1 /\ c[1] = s[1] /\ Len(s) \in Nat
  OBVIOUS
<1>2. OneToOne(t)
  BY <1>1 DEF OneToOne
<1>3. Listed(t) \subseteq Listed(s) /\ Listed(c) = {s[1]} /\ s[1] \in Listed(s)
  BY <1>1 DEF Listed
<1>4. s[1] \notin Listed(t)
  BY <1>1 DEF Listed, OneToOne
<1>5. Cuts(w, t)
  BY <1>1, <1>2, PartitionCuts
<1> HIDE DEF t, c, w
<1>6. w \in Seq(Seq(Vms)) /\ Len(w) \in Nat
  BY <1>5 DEF Cuts
<1>7. /\ x \in Seq(Seq(Vms)) /\ Len(x) = Len(w) + 1 /\ x[1] = c
      /\ \A i \in 2..Len(x) : x[i] = w[i - 1] /\ i - 1 \in 1..Len(w)
  BY <1>1, <1>6
<1> HIDE DEF x
<1>8. \A i \in 2..Len(x) : Listed(x[i]) \subseteq Listed(t)
  BY <1>5, <1>7 DEF Cuts
<1>9. \A i \in 1..Len(x) : i = 1 \/ i \in 2..Len(x)
  BY <1>6, <1>7
<1>10. \A i \in 1..Len(x) : Listed(x[i]) \subseteq Listed(s)
  BY <1>3, <1>7, <1>8, <1>9
<1>11. ASSUME NEW i \in 1..Len(x), NEW j \in 1..Len(x), i # j
       PROVE  Listed(x[i]) \cap Listed(x[j]) = {}
  <2>1. \A k \in 2..Len(x) : Listed(x[1]) \cap Listed(x[k]) = {}
    BY <1>3, <1>4, <1>7, <1>8
  <2>2. CASE i \in 2..Len(x) /\ j \in 2..Len(x)
    <3>1. i - 1 # j - 1
      BY <1>11, <2>2, <1>6, <1>7
    <3> QED
      BY <1>5, <1>7, <2>2, <3>1 DEF Cuts
  <2> QED
    BY <1>9, <1>11, <2>1, <2>2
<1>12. x # <<>>
  BY <1>6, <1>7
<1>13. Cuts(x, s)
  BY <1>7, <1>10, <1>11, <1>12 DEF Cuts
<1> QED
  BY <1>13 DEF x, c, w, t
-----------------------------------------------------------------------------
(* Types *)

\* Two VMs of the healthy list differ, as two targets do.
FleetOnce == OneToOne(healthy)

Planned == {"plan_vms", "generate_plan_artifact", "load_deferred_artifact",
            "approval_gate", "verify_plan_hash", "prepare_waves"}
Opened  == {"dispatch_wave", "run_vm"}

\* Only a replay loads an artifact, there is something to cut into waves, and
\* while the rollout is open there is a current wave.
OnCourse ==
  /\ stage = "load_deferred_artifact" => Replay
  /\ stage \in Planned => healthy # <<>>
  /\ stage \in Opened => current + 1 \in 1..Len(waves)

TypeInv == TypeOK /\ FleetOnce /\ OnCourse

\* A selection that keeps the order has no VM twice.
LEMMA PickedOnce ==
  ASSUME NEW s \in Seq(Vms), OneToOne(s), NEW n \in 0..Len(s), NEW pick \in [1..n -> 1..Len(s)],
         \A i, j \in 1..n : i < j => pick[i] < pick[j]
  PROVE  LET h == [i \in 1..n |-> s[pick[i]]] IN h \in Seq(Vms) /\ OneToOne(h)
<1> DEFINE h == [i \in 1..n |-> s[pick[i]]]
<1>1. n \in Nat /\ Len(s) \in Nat /\ \A i \in 1..n : pick[i] \in 1..Len(s) /\ s[pick[i]] \in Vms
  OBVIOUS
<1>2. h \in Seq(Vms) /\ Len(h) = n
  <2>1. h = [i \in 1..n |-> h[i]] /\ \A i \in 1..n : h[i] \in Vms
    BY <1>1
  <2> HIDE DEF h
  <2> QED
    BY <1>1, <2>1, OneSeq
<1>3. ASSUME NEW i \in 1..n, NEW j \in 1..n, h[i] = h[j]
      PROVE  i = j
  <2>1. pick[i] = pick[j]
    BY <1>1, <1>3 DEF OneToOne
  <2>2. ~(pick[i] < pick[j]) /\ ~(pick[j] < pick[i])
    BY <1>1, <2>1
  <2> QED
    BY <1>1, <2>2
<1> QED
  BY <1>2, <1>3 DEF OneToOne

\* prepare_waves_node cuts the healthy VMs into waves.
LEMMA WavesAreCut ==
  ASSUME TypeInv, PrepareWaves
  PROVE  Cuts(waves', healthy)
<1>1. settings \in Settings /\ healthy \in Seq(Vms) /\ OneToOne(healthy)
  BY DEF TypeInv, TypeOK, FleetOnce
<1>2. CASE settings.canary /\ Len(healthy) > 1
  BY <1>1, <1>2, CanaryCuts DEF PrepareWaves
<1>3. CASE ~(settings.canary /\ Len(healthy) > 1)
  BY <1>1, <1>3, PartitionCuts DEF PrepareWaves
<1> QED
  BY <1>2, <1>3

\* The first state is well typed.
LEMMA TypeInit == ASSUME Init PROVE TypeInv
<1>1. /\ stage \in Nodes \cup Ended
      /\ healthy \in Seq(Vms) /\ plan \in SUBSET Vms /\ planHash \in SUBSET SUBSET Vms
      /\ waves \in Seq(Seq(Vms)) /\ checks \in Seq(SUBSET Vms) /\ current \in Nat
      /\ vm \in [Vms -> {"idle", "running"} \cup Finished] /\ worked \in SUBSET Vms
  BY DEF Init, Nodes, NoHash
<1>2. /\ settings \in Settings /\ dryRun \in BOOLEAN /\ targets \in Fleets
      /\ preloaded \in Artifacts \cup {NoArtifact}
      /\ approved \in {"unset", "yes", "no"} /\ error \in BOOLEAN /\ aborted \in BOOLEAN
      /\ status \in {"absent", "running", "completed", "completed_with_failures", "aborted"}
  BY DEF Init
<1>3. TypeOK
  BY <1>1, <1>2 DEF TypeOK
<1>4. FleetOnce
  BY DEF Init, FleetOnce, OneToOne
<1>5. OnCourse
  BY DEF Init, OnCourse, Planned, Opened
<1> QED
  BY <1>3, <1>4, <1>5 DEF TypeInv

\* A node that leaves the healthy VMs alone keeps them distinct.
LEMMA FleetFrame == FleetOnce /\ UNCHANGED healthy => FleetOnce'
  BY DEF FleetOnce, OneToOne

\* Appending keeps the type of a sequence.
LEMMA Longer ==
  ASSUME NEW S, NEW s \in Seq(S), NEW x \in S
  PROVE  Append(s, x) \in Seq(S)
  OBVIOUS

\* Waves are finite, so that their shares can be compared.
LEMMA FailedIsAnswer ==
  ASSUME TypeOK, NEW i \in 1..Len(waves), NEW sick \in SUBSET Wave(i)
  PROVE  Failed(i, sick) \in BOOLEAN
<1>1. waves[i] \in Seq(Vms)
  BY DEF TypeOK
<1>2. IsFiniteSet(1..Len(waves[i]))
  BY <1>1, FS_Interval
<1>3. IsFiniteSet(Wave(i))
  <2>1. waves[i] \in [1..Len(waves[i]) -> Wave(i)] /\ \A v \in Wave(i) : \E k \in 1..Len(waves[i]) : waves[i][k] = v
    BY <1>1 DEF Wave, Listed
  <2>2. waves[i] \in Surjection(1..Len(waves[i]), Wave(i))
    BY <2>1 DEF Surjection
  <2> QED
    BY <1>2, <2>2, FS_Surjection
<1>4. Cardinality(Wave(i)) \in Nat /\ Cardinality(sick) \in Nat
  BY <1>3, FS_Subset, FS_CardinalityType
<1>5. settings.tolerance \in 0..100
  BY BatchAssumption DEF TypeOK
<1>6. CASE settings.canary /\ i = 1
  BY <1>6 DEF Failed
<1>7. CASE ~(settings.canary /\ i = 1)
  <2> DEFINE a == Cardinality(Wave(i))
             b == Cardinality(sick)
  <2>1. Failed(i, sick) = (100 * b > settings.tolerance * a)
    BY <1>7 DEF Failed
  <2> QED
    BY <1>4, <1>5, <2>1
<1> QED
  BY <1>6, <1>7

\* Every node keeps the types.
LEMMA TypeStep == ASSUME TypeInv, [Next]_vars PROVE TypeInv'
<1> USE DEF TypeInv, TypeOK, OnCourse, Planned, Opened, Replay, Nodes, Ended, Finished, Goes,
            inputVars, planVars, waveVars, vmVars
<1>1. CASE InitBatch
  BY <1>1, FleetFrame DEF InitBatch
<1>2. CASE ValidateWindow
  <2>1. /\ stage' \in {"generate_report", "validate_targets"} /\ error' \in BOOLEAN
        /\ UNCHANGED <<inputVars, planVars, approved, waveVars, vmVars, status>>
    BY <1>2 DEF ValidateWindow
  <2> QED
    BY <2>1, FleetFrame
<1>3. CASE ValidateTargets
  <2>1. targets \in Seq(Vms) /\ OneToOne(targets)
    BY BatchAssumption DEF OneToOne
  <2>2. PICK n \in 0..Len(targets) : \E pick \in [1..n -> 1..Len(targets)] :
          /\ \A i, j \in 1..n : i < j => pick[i] < pick[j]
          /\ healthy' = [i \in 1..n |-> targets[pick[i]]]
    BY <1>3 DEF ValidateTargets
  <2>3. PICK pick \in [1..n -> 1..Len(targets)] :
          /\ \A i, j \in 1..n : i < j => pick[i] < pick[j]
          /\ healthy' = [i \in 1..n |-> targets[pick[i]]]
    BY <2>2
  <2>4. LET h == [i \in 1..n |-> targets[pick[i]]] IN h \in Seq(Vms) /\ OneToOne(h)
    BY <2>1, <2>3, PickedOnce
  <2>5. healthy' \in Seq(Vms) /\ OneToOne(healthy')
    BY <2>3, <2>4
  <2>6. FleetOnce'
    BY <2>5 DEF FleetOnce, OneToOne
  <2>7. /\ stage' = "check_fleet_health"
        /\ UNCHANGED <<inputVars, plan, planHash, approved, error, waveVars, vmVars, status>>
    BY <1>3 DEF ValidateTargets
  <2> QED
    BY <2>5, <2>6, <2>7, FleetFrame
<1>4. CASE CheckFleet
  BY <1>4, FleetFrame DEF CheckFleet, FleetIsSick
<1>5. CASE PlanVms
  <2>1. plan' \in SUBSET Vms
    BY <1>5 DEF PlanVms, Listed
  <2>2. /\ stage = "plan_vms" /\ stage' = "generate_plan_artifact"
        /\ UNCHANGED <<inputVars, healthy, planHash, approved, error, waveVars, vmVars, status>>
    BY <1>5 DEF PlanVms
  <2> QED
    BY <2>1, <2>2, FleetFrame
<1>6. CASE GeneratePlanArtifact
  BY <1>6, FleetFrame DEF GeneratePlanArtifact, Hash
<1>7. CASE LoadDeferredArtifact
  <2>1. plan' \in SUBSET Vms /\ planHash' \in SUBSET SUBSET Vms /\ error' \in BOOLEAN
    <3>1. CASE preloaded.dated /\ Hash(preloaded.plan) = preloaded.hash
      <4>1. preloaded.plan \in SUBSET Vms
        BY <1>7, BatchAssumption DEF LoadDeferredArtifact
      <4> QED
        BY <1>7, <3>1, <4>1 DEF LoadDeferredArtifact, Hash
    <3>2. CASE ~(preloaded.dated /\ Hash(preloaded.plan) = preloaded.hash)
      BY <1>7, <3>2 DEF LoadDeferredArtifact
    <3> QED
      BY <3>1, <3>2
  <2> QED
    BY <1>7, <2>1, FleetFrame DEF LoadDeferredArtifact
<1>8. CASE GatePasses
  BY <1>8, FleetFrame DEF GatePasses
<1>9. CASE GateAnswers
  BY <1>9, FleetFrame DEF GateAnswers
<1>10. CASE VerifyPlanHash
  BY <1>10, FleetFrame DEF VerifyPlanHash
<1>11. CASE PrepareWaves
  <2>1. waves' \in Seq(Seq(Vms)) /\ waves' # <<>>
    BY <1>11, WavesAreCut DEF Cuts, PrepareWaves
  <2>2. /\ stage' = "dispatch_wave" /\ current' = 0 /\ aborted' = FALSE
        /\ UNCHANGED <<inputVars, planVars, approved, error, checks, vmVars, status>>
    BY <1>11 DEF PrepareWaves
  <2>3. current' + 1 \in 1..Len(waves')
    BY <2>1, <2>2
  <2> QED
    BY <2>1, <2>2, <2>3, FleetFrame
<1>12. CASE DispatchWave
  BY <1>12, FleetFrame DEF DispatchWave
<1>13. CASE \E v \in Vms : RunVm(v)
  <2>1. PICK v \in Vms : RunVm(v)
    BY <1>13
  <2>2. vm' \in [Vms -> {"idle", "running"} \cup Finished] /\ worked' \in SUBSET Vms
    BY <2>1 DEF RunVm
  <2>3. UNCHANGED <<stage, inputVars, planVars, approved, error, waveVars, status>>
    BY <2>1 DEF RunVm
  <2> QED
    BY <2>2, <2>3, FleetFrame
<1>14. CASE CheckWaveHealth
  <2>1. PICK sick \in SUBSET Wave(current + 1) :
          /\ checks' = Append(checks, sick)
          /\ aborted' = Failed(current + 1, sick)
          /\ stage' \in {"dispatch_wave", "generate_report"}
          /\ stage' = "dispatch_wave" => current + 1 < Len(waves)
    BY <1>14 DEF CheckWaveHealth, GoesOn
  <2>2. sick \in SUBSET Vms
    <3>1. current + 1 \in 1..Len(waves) /\ waves[current + 1] \in Seq(Vms)
      BY <1>14 DEF CheckWaveHealth
    <3>2. Wave(current + 1) \subseteq Vms
      BY <3>1 DEF Wave, Listed
    <3> QED
      BY <2>1, <3>2
  <2>3. checks' \in Seq(SUBSET Vms)
    <3>1. checks \in Seq(SUBSET Vms) /\ checks' = Append(checks, sick)
      BY <2>1
    <3> QED
      BY <2>2, <3>1, Longer
  <2>4. aborted' \in BOOLEAN
    <3>1. current + 1 \in 1..Len(waves)
      BY <1>14 DEF CheckWaveHealth
    <3> QED
      BY <2>1, <3>1, FailedIsAnswer
  <2>5. current' = current + 1
    BY <1>14 DEF CheckWaveHealth, Counted
  <2>6. UNCHANGED <<inputVars, planVars, approved, error, waves, vmVars, status>>
    BY <1>14 DEF CheckWaveHealth
  <2>7. current' \in Nat /\ (stage' \in Opened => current' + 1 \in 1..Len(waves))
    BY <2>1, <2>5
  <2> QED
    BY <2>1, <2>3, <2>4, <2>6, <2>7, FleetFrame
<1>15. CASE GenerateReport
  BY <1>15, FleetFrame DEF GenerateReport, Verdict
<1>16. CASE Crash
  BY <1>16, FleetFrame DEF Crash
<1>17. CASE UNCHANGED vars
  BY <1>17, FleetFrame DEF vars
<1> QED
  BY <1>1, <1>2, <1>3, <1>4, <1>5, <1>6, <1>7, <1>8, <1>9, <1>10, <1>11, <1>12, <1>13, <1>14,
     <1>15, <1>16, <1>17 DEF Next, Step

\* Every variable keeps its type, whatever fleet, settings and artifact the
\* batch starts with: in particular prepare_waves_node makes lists of VMs.
THEOREM TypeCorrect == Spec => []TypeOK
<1>1. Init => TypeInv
  BY TypeInit
<1>2. TypeInv /\ [Next]_vars => TypeInv'
  BY TypeStep
<1>3. TypeInv => TypeOK
  BY DEF TypeInv
<1> QED
  BY <1>1, <1>2, <1>3, PTL DEF Spec

-----------------------------------------------------------------------------
(* Waves in their order *)

Early == {"init_batch", "validate_window", "validate_targets", "check_fleet_health"} \cup Planned

Sick(k) == Failed(k, checks[k])

\* v was sent out with a wave all of whose predecessors had passed their check.
Entered(v) ==
  \E i \in 1..Len(waves) :
    /\ v \in Wave(i)
    /\ i <= Len(checks) + 1
    /\ stage = "dispatch_wave" => i <= Len(checks)
    /\ \A k \in 1..(i - 1) : ~Sick(k)

Untouched  == waves = <<>> /\ checks = <<>> /\ \A v \in Vms : vm[v] = "idle"
NothingYet == stage \in Early => Untouched
FleetIsCut == waves # <<>> => Cuts(waves, healthy)
AllPassed  == stage \in Opened => current = Len(checks) /\ \A k \in 1..Len(checks) : ~Sick(k)
InOrder    == \A v \in Vms : vm[v] # "idle" => Entered(v)

WaveInv == NothingYet /\ FleetIsCut /\ AllPassed /\ InOrder

\* Nothing has been dispatched at first.
LEMMA WaveInit == ASSUME Init PROVE WaveInv
  BY DEF Init, WaveInv, NothingYet, Untouched, FleetIsCut, AllPassed, InOrder, Opened

\* A verdict stands as long as waves and settings do.
LEMMA SickStays ==
  ASSUME UNCHANGED <<settings, waves, checks>>, NEW k
  PROVE  Sick(k)' = Sick(k)
  BY DEF Sick, Failed, Wave, Listed

\* So does the cut.
LEMMA CutsStay == FleetIsCut /\ UNCHANGED <<waves, healthy>> => FleetIsCut'
  BY DEF FleetIsCut

\* Before the rollout there is nothing to preserve.
LEMMA EarlyStep ==
  ASSUME WaveInv, stage \in Early, stage' \notin Opened, UNCHANGED <<waves, checks, vm>>
  PROVE  WaveInv'
<1>1. Untouched /\ Untouched'
  BY DEF WaveInv, NothingYet, Untouched
<1> QED
  BY <1>1 DEF WaveInv, NothingYet, Untouched, FleetIsCut, AllPassed, InOrder

\* After it there is nothing to disturb it.
LEMMA LateStep ==
  ASSUME WaveInv, stage \notin Early, stage' \notin Early \cup Opened,
         UNCHANGED <<settings, healthy, waves, checks, vm>>
  PROVE  WaveInv'
<1>1. ASSUME NEW v \in Vms, vm[v] # "idle" PROVE Entered(v)'
  <2>1. PICK i \in 1..Len(waves) :
          v \in Wave(i) /\ i <= Len(checks) + 1 /\ \A k \in 1..(i - 1) : ~Sick(k)
    BY <1>1 DEF WaveInv, InOrder, Entered
  <2>2. stage' # "dispatch_wave"
    BY DEF Opened
  <2>3. (v \in Wave(i))'
    BY <2>1 DEF Wave, Listed
  <2>4. \A k \in 1..(i - 1) : ~Sick(k)'
    BY <2>1, SickStays
  <2> QED
    BY <2>1, <2>2, <2>3, <2>4 DEF Entered
<1>2. InOrder'
  BY <1>1 DEF InOrder
<1>3. NothingYet' /\ AllPassed'
  BY DEF NothingYet, AllPassed
<1> QED
  BY <1>2, <1>3, CutsStay DEF WaveInv

\* The waves are cut before a VM is dispatched.
LEMMA PrepareStep == ASSUME TypeInv, WaveInv, PrepareWaves PROVE WaveInv'
<1>1. checks = <<>> /\ \A v \in Vms : vm[v] = "idle"
  BY DEF WaveInv, NothingYet, Untouched, PrepareWaves, Goes, Early, Planned
<1>2. Cuts(waves', healthy)
  BY WavesAreCut
<1>3. /\ stage' = "dispatch_wave" /\ current' = 0
      /\ UNCHANGED <<healthy, checks, vm>>
  BY DEF PrepareWaves, Goes, planVars, vmVars
<1>4. FleetIsCut'
  BY <1>2, <1>3 DEF FleetIsCut
<1> QED
  BY <1>1, <1>3, <1>4 DEF WaveInv, NothingYet, AllPassed, InOrder, Early, Planned

\* Who is dispatched enters with the first wave that is not checked.
LEMMA DispatchStep == ASSUME TypeInv, WaveInv, DispatchWave PROVE WaveInv'
<1>1. /\ stage = "dispatch_wave" /\ stage' = "run_vm"
      /\ vm' = [v \in Vms |-> IF v \in Wave(current + 1) THEN "running" ELSE vm[v]]
      /\ UNCHANGED <<settings, healthy, waves, current, checks>>
  BY DEF DispatchWave, Goes, inputVars, planVars, waveVars
<1>2. /\ current = Len(checks) /\ \A k \in 1..Len(checks) : ~Sick(k)
      /\ current + 1 \in 1..Len(waves)
  BY <1>1 DEF WaveInv, AllPassed, TypeInv, OnCourse, Opened
<1>3. ASSUME NEW v \in Vms, vm'[v] # "idle" PROVE Entered(v)'
  <2>1. PICK i \in 1..Len(waves) :
          v \in Wave(i) /\ i <= Len(checks) + 1 /\ \A k \in 1..(i - 1) : ~Sick(k)
    <3>1. CASE v \in Wave(current + 1)
      BY <1>2, <3>1 DEF TypeInv, TypeOK
    <3>2. CASE v \notin Wave(current + 1)
      BY <1>1, <1>3, <3>2 DEF WaveInv, InOrder, Entered
    <3> QED
      BY <3>1, <3>2
  <2>2. (v \in Wave(i))'
    BY <1>1, <2>1 DEF Wave, Listed
  <2>3. \A k \in 1..(i - 1) : ~Sick(k)'
    BY <1>1, <2>1, SickStays
  <2> QED
    BY <1>1, <2>1, <2>2, <2>3 DEF Entered
<1>4. AllPassed'
  BY <1>1, <1>2, SickStays DEF AllPassed
<1>5. InOrder' /\ NothingYet'
  BY <1>1, <1>3 DEF InOrder, NothingYet, Early, Planned
<1> QED
  BY <1>1, <1>4, <1>5, CutsStay DEF WaveInv

\* A VM run dispatches nobody.
LEMMA RunStep == ASSUME TypeInv, WaveInv, NEW w \in Vms, RunVm(w) PROVE WaveInv'
<1>1. /\ stage = "run_vm" /\ stage' = "run_vm"
      /\ UNCHANGED <<settings, healthy, waves, current, checks>>
  BY DEF RunVm, inputVars, planVars, waveVars
<1>2. \A v \in Vms : vm'[v] # "idle" => vm[v] # "idle"
  BY DEF RunVm, TypeInv, TypeOK
<1>3. ASSUME NEW v \in Vms, vm[v] # "idle" PROVE Entered(v)'
  <2>1. PICK i \in 1..Len(waves) :
          v \in Wave(i) /\ i <= Len(checks) + 1 /\ \A k \in 1..(i - 1) : ~Sick(k)
    BY <1>3 DEF WaveInv, InOrder, Entered
  <2>2. (v \in Wave(i))'
    BY <1>1, <2>1 DEF Wave, Listed
  <2>3. \A k \in 1..(i - 1) : ~Sick(k)'
    BY <1>1, <2>1, SickStays
  <2> QED
    BY <1>1, <2>1, <2>2, <2>3 DEF Entered
<1>4. AllPassed'
  BY <1>1, SickStays DEF AllPassed, WaveInv, Opened
<1>5. InOrder' /\ NothingYet'
  BY <1>1, <1>2, <1>3 DEF InOrder, NothingYet, Early, Planned
<1> QED
  BY <1>1, <1>4, <1>5, CutsStay DEF WaveInv

\* A check adds its verdict behind those that were there.
LEMMA CheckStep == ASSUME TypeInv, WaveInv, CheckWaveHealth PROVE WaveInv'
<1>1. /\ stage = "run_vm"
      /\ UNCHANGED <<settings, healthy, waves, vm>> /\ current' = current + 1
  BY DEF CheckWaveHealth, Counted, inputVars, planVars, vmVars
<1>2. PICK sick :
        /\ checks' = Append(checks, sick)
        /\ stage' \in {"dispatch_wave", "generate_report"}
        /\ stage' = "dispatch_wave" => ~Failed(current + 1, sick)
  BY DEF CheckWaveHealth, GoesOn
<1>3. current = Len(checks) /\ \A k \in 1..Len(checks) : ~Sick(k)
  BY <1>1 DEF WaveInv, AllPassed, Opened
<1>4. /\ Len(checks) \in Nat /\ Len(checks') = Len(checks) + 1 /\ checks'[Len(checks) + 1] = sick
      /\ \A k \in 1..Len(checks) : checks'[k] = checks[k]
  BY <1>2 DEF TypeInv, TypeOK
<1>5. \A k : Sick(k)' = Failed(k, checks'[k])
  BY <1>1 DEF Sick, Failed, Wave, Listed
<1>6. \A k \in 1..Len(checks) : ~Sick(k)'
  BY <1>3, <1>4, <1>5 DEF Sick
<1>7. ASSUME NEW v \in Vms, vm[v] # "idle" PROVE Entered(v)'
  <2>1. PICK i \in 1..Len(waves) : v \in Wave(i) /\ i <= Len(checks) + 1
    BY <1>7 DEF WaveInv, InOrder, Entered
  <2>2. (v \in Wave(i))'
    BY <1>1, <2>1 DEF Wave, Listed
  <2>3. \A k \in 1..(i - 1) : k \in 1..Len(checks)
    BY <1>4, <2>1
  <2> QED
    BY <1>1, <1>4, <1>6, <2>1, <2>2, <2>3 DEF Entered
<1>8. AllPassed'
  <2>1. stage' \in Opened => \A k : k = Len(checks) + 1 => ~Sick(k)'
    BY <1>2, <1>3, <1>4, <1>5 DEF Opened
  <2> QED
    BY <1>1, <1>3, <1>4, <1>6, <2>1 DEF AllPassed
<1>9. InOrder' /\ NothingYet'
  BY <1>1, <1>2, <1>7 DEF InOrder, NothingYet, Early, Planned
<1> QED
  BY <1>1, <1>8, <1>9, CutsStay DEF WaveInv

\* Every node keeps the order of the waves.
LEMMA WaveStep == ASSUME TypeInv, WaveInv, [Next]_vars PROVE WaveInv'
<1> USE DEF Goes, inputVars, planVars, waveVars, vmVars
<1>1. CASE \/ InitBatch \/ ValidateWindow \/ ValidateTargets \/ CheckFleet \/ PlanVms
           \/ GeneratePlanArtifact \/ LoadDeferredArtifact \/ GatePasses \/ GateAnswers
           \/ VerifyPlanHash
  <2>1. /\ stage \in Early /\ stage' \notin Opened
        /\ UNCHANGED <<waves, checks, vm>>
    BY <1>1 DEF InitBatch, ValidateWindow, ValidateTargets, CheckFleet, PlanVms,
         GeneratePlanArtifact, LoadDeferredArtifact, GatePasses, GateAnswers, VerifyPlanHash,
         Early, Planned, Opened
  <2> QED
    BY <2>1, EarlyStep
<1>2. CASE PrepareWaves
  BY <1>2, PrepareStep
<1>3. CASE DispatchWave
  BY <1>3, DispatchStep
<1>4. CASE \E v \in Vms : RunVm(v)
  BY <1>4, RunStep
<1>5. CASE CheckWaveHealth
  BY <1>5, CheckStep
<1>6. CASE GenerateReport
  <2>1. /\ stage \notin Early /\ stage' \notin Early \cup Opened
        /\ UNCHANGED <<settings, healthy, waves, checks, vm>>
    BY <1>6 DEF GenerateReport, Early, Planned, Opened
  <2> QED
    BY <2>1, LateStep
<1>7. CASE Crash
  <2>1. /\ stage' \notin Early \cup Opened
        /\ UNCHANGED <<settings, healthy, waves, checks, vm>>
    BY <1>7 DEF Crash, Early, Planned, Opened
  <2> QED
    BY <2>1, EarlyStep, LateStep
<1>8. CASE UNCHANGED vars
  <2>1. UNCHANGED <<stage, settings, healthy, waves, current, checks, vm>>
    BY <1>8 DEF vars
  <2>2. NothingYet' /\ AllPassed'
    BY <2>1, SickStays DEF WaveInv, NothingYet, Untouched, AllPassed
  <2>3. \A v \in Vms : Entered(v) => Entered(v)'
    BY <2>1, SickStays DEF Entered, Wave, Listed
  <2> QED
    BY <2>1, <2>2, <2>3, CutsStay DEF WaveInv, InOrder
<1> QED
  BY <1>1, <1>2, <1>3, <1>4, <1>5, <1>6, <1>7, <1>8 DEF Next, Step

\* The order of the waves holds in every reachable state.
LEMMA WavesInOrder == Spec => [](TypeInv /\ WaveInv)
<1>1. Init => TypeInv /\ WaveInv
  BY TypeInit, WaveInit
<1>2. TypeInv /\ WaveInv /\ [Next]_vars => (TypeInv /\ WaveInv)'
  BY TypeStep, WaveStep
<1> QED
  BY <1>1, <1>2, PTL DEF Spec

\* No VM is in two waves.
LEMMA OneWave ==
  ASSUME TypeInv, WaveInv, NEW i \in 1..Len(waves), NEW j \in 1..Len(waves), NEW v,
         v \in Wave(i), v \in Wave(j)
  PROVE  i = j
<1>1. Cuts(waves, healthy)
  BY DEF WaveInv, FleetIsCut
<1> QED
  BY <1>1 DEF Cuts, Wave

\* After a wave has failed its check no VM of a later wave is dispatched,
\* whatever the fleet, the wave size and the tolerances: when a VM is sent
\* out, every wave before its own has passed, and it has only one.
THEOREM FailedWaveStops == Spec => []FailedWaveIsLast
<1>1. TypeInv /\ WaveInv => FailedWaveIsLast
  <2> SUFFICES ASSUME TypeInv, WaveInv, NEW i \in 1..Len(checks), Sick(i),
                      NEW j \in (i + 1)..Len(waves), NEW v \in Wave(j), vm[v] # "idle"
               PROVE  FALSE
    BY DEF FailedWaveIsLast, Sick
  <2>1. j \in 1..Len(waves) /\ i \in 1..(j - 1)
    BY DEF TypeInv, TypeOK
  <2>2. v \in Vms
    BY <2>1 DEF TypeInv, TypeOK, Wave, Listed
  <2>3. PICK k \in 1..Len(waves) : v \in Wave(k) /\ \A n \in 1..(k - 1) : ~Sick(n)
    BY <2>2 DEF WaveInv, InOrder, Entered
  <2>4. k = j
    BY <2>1, <2>3, OneWave
  <2> QED
    BY <2>1, <2>3, <2>4
<1> QED
  BY <1>1, WavesInOrder, PTL

\* A VM that has come back is not sent out again by a later wave of the batch.
THEOREM DispatchedOnce == Spec => VisitedOnce
<1> DEFINE Kept == \A v \in Vms : vm[v] \in Finished => vm'[v] = vm[v]
<1>1. TypeInv /\ WaveInv /\ [Next]_vars => [Kept]_vars
  <2> SUFFICES ASSUME TypeInv, WaveInv, [Next]_vars
               PROVE  Kept
    OBVIOUS
  <2>1. CASE DispatchWave
    <3>1. /\ stage = "dispatch_wave" /\ current = Len(checks) /\ current + 1 \in 1..Len(waves)
          /\ vm' = [v \in Vms |-> IF v \in Wave(current + 1) THEN "running" ELSE vm[v]]
      BY <2>1 DEF DispatchWave, Goes, WaveInv, AllPassed, TypeInv, OnCourse, Opened
    <3>2. ASSUME NEW v \in Vms, vm[v] \in Finished PROVE v \notin Wave(current + 1)
      <4>1. PICK i \in 1..Len(waves) : v \in Wave(i) /\ i <= Len(checks)
        BY <3>1, <3>2 DEF WaveInv, InOrder, Entered, Finished
      <4> QED
        BY <3>1, <4>1, OneWave DEF TypeInv, TypeOK
    <3> QED
      BY <3>1, <3>2
  <2>2. CASE \E w \in Vms : RunVm(w)
    <3>1. PICK w \in Vms : RunVm(w)
      BY <2>2
    <3>2. vm[w] = "running" /\ \A v \in Vms \ {w} : vm'[v] = vm[v]
      BY <3>1 DEF RunVm, TypeInv, TypeOK
    <3> QED
      BY <3>2 DEF Finished
  <2>3. CASE UNCHANGED vm
    BY <2>3
  <2>4. DispatchWave \/ (\E w \in Vms : RunVm(w)) \/ UNCHANGED vm
    BY DEF Next, Step, InitBatch, ValidateWindow, ValidateTargets, CheckFleet, PlanVms,
       GeneratePlanArtifact, LoadDeferredArtifact, GatePasses, GateAnswers, VerifyPlanHash,
       PrepareWaves, CheckWaveHealth, GenerateReport, Crash, vars, vmVars
  <2> QED
    BY <2>1, <2>2, <2>3, <2>4
<1> QED
  BY <1>1, WavesInOrder, PTL DEF VisitedOnce, Spec

-----------------------------------------------------------------------------
(* The approved plan *)

Cleared ==
  stage \in {"prepare_waves"} \cup Opened \/ (\E v \in Vms : vm[v] # "idle") =>
    approved = "yes" /\ (dryRun \/ planHash = Hash(plan))

\* The hash of a replay is the stored one.
Sealed == Replay /\ planHash # NoHash => preloaded.dated /\ planHash = preloaded.hash

\* A replay is not planned, and only what is approved is verified.
Routed ==
  /\ stage \in {"plan_vms", "generate_plan_artifact"} => ~Replay
  /\ stage = "verify_plan_hash" => approved = "yes"

InPlan == \A v \in worked : vm[v] # "idle" /\ (dryRun \/ v \in plan)

PlanInv == Cleared /\ Sealed /\ Routed /\ InPlan

\* Nothing has worked at first.
LEMMA PlanInit == ASSUME Init PROVE PlanInv
  BY DEF Init, PlanInv, Cleared, Sealed, Routed, InPlan, Opened

\* Every node keeps to the approved plan.
LEMMA PlanStep == ASSUME TypeInv, WaveInv, PlanInv, [Next]_vars PROVE PlanInv'
<1> USE DEF Goes, inputVars, planVars, waveVars, vmVars, PlanInv, Cleared, Sealed, Routed,
            InPlan, Replay, Opened
<1>1. stage \in Early => worked = {} /\ \A v \in Vms : vm[v] = "idle"
  BY DEF WaveInv, NothingYet, Untouched, TypeInv, TypeOK
<1>2. CASE InitBatch \/ ValidateWindow \/ ValidateTargets \/ CheckFleet
  BY <1>1, <1>2 DEF InitBatch, ValidateWindow, ValidateTargets, CheckFleet, Early
<1>3. CASE PlanVms \/ GeneratePlanArtifact
  BY <1>1, <1>3 DEF PlanVms, GeneratePlanArtifact, Early, Planned
<1>4. CASE LoadDeferredArtifact
  BY <1>1, <1>4 DEF LoadDeferredArtifact, Early, Planned
<1>5. CASE GatePasses \/ GateAnswers
  BY <1>1, <1>5 DEF GatePasses, GateAnswers, Early, Planned
<1>6. CASE VerifyPlanHash
  <2>1. worked = {} /\ \A v \in Vms : vm[v] = "idle"
    BY <1>1, <1>6 DEF VerifyPlanHash, Early, Planned
  <2>2. /\ stage' = "prepare_waves" => approved' = approved /\ (dryRun \/ planHash = Hash(plan))
        /\ stage' \in {"prepare_waves", "generate_report"}
        /\ UNCHANGED <<inputVars, planVars, vmVars>>
    BY <1>6 DEF VerifyPlanHash
  <2>3. approved = "yes"
    BY <1>6 DEF VerifyPlanHash
  <2> QED
    BY <2>1, <2>2, <2>3
<1>7. CASE PrepareWaves \/ DispatchWave
  <2>1. /\ stage \in {"prepare_waves", "dispatch_wave"} /\ stage' \in Opened
        /\ UNCHANGED <<inputVars, planVars, approved, worked>>
        /\ \A v \in worked : vm[v] # "idle" => vm'[v] # "idle"
    BY <1>7 DEF PrepareWaves, DispatchWave, TypeInv, TypeOK
  <2> QED
    BY <2>1
<1>8. CASE \E v \in Vms : RunVm(v)
  BY <1>8 DEF RunVm, MayWork, TypeInv, TypeOK
<1>9. CASE CheckWaveHealth \/ GenerateReport \/ Crash
  BY <1>9 DEF CheckWaveHealth, GenerateReport, Crash
<1>10. CASE UNCHANGED vars
  BY <1>10 DEF vars
<1> QED
  BY <1>2, <1>3, <1>4, <1>5, <1>6, <1>7, <1>8, <1>9, <1>10 DEF Next, Step

\* Live actions touch healthy VMs of the approved plan only, for every plan and
\* stored artifact: from verify_plan_hash_node on the hash that was approved is
\* that of the plan, and a replay has no other hash than the stored one.
THEOREM WorksApprovedPlan == Spec => []ApprovedPlanOnly
<1>1. Init => PlanInv
  BY PlanInit
<1>2. TypeInv /\ WaveInv /\ PlanInv /\ [Next]_vars => PlanInv'
  BY PlanStep
<1>3. TypeInv /\ WaveInv /\ PlanInv => ApprovedPlanOnly
  <2> SUFFICES ASSUME TypeInv, WaveInv, PlanInv, worked # {}, ~dryRun
               PROVE  /\ approved = "yes"
                      /\ worked \subseteq (UNION planHash) \cap Listed(healthy)
                      /\ Replay => preloaded.dated /\ planHash = preloaded.hash
    BY DEF ApprovedPlanOnly
  <2>1. \A v \in worked : v \in Vms /\ vm[v] # "idle" /\ v \in plan
    BY DEF PlanInv, InPlan, TypeInv, TypeOK
  <2>2. approved = "yes" /\ planHash = {plan}
    BY <2>1 DEF PlanInv, Cleared, Hash
  <2>3. worked \subseteq UNION planHash
    BY <2>1, <2>2
  <2>4. ASSUME NEW v \in worked PROVE v \in Listed(healthy)
    <3>1. PICK i \in 1..Len(waves) : v \in Wave(i)
      BY <2>1 DEF WaveInv, InOrder, Entered
    <3>2. Cuts(waves, healthy)
      BY <3>1 DEF WaveInv, FleetIsCut, TypeInv, TypeOK
    <3> QED
      BY <3>1, <3>2 DEF Cuts, Wave
  <2>5. Replay => preloaded.dated /\ planHash = preloaded.hash
    <3>1. planHash # NoHash
      BY <2>2 DEF NoHash
    <3> QED
      BY <3>1 DEF PlanInv, Sealed
  <2> QED
    BY <2>2, <2>3, <2>4, <2>5
<1> QED
  BY <1>1, <1>2, <1>3, WavesInOrder, PTL DEF Spec
-----------------------------------------------------------------------------
(* The shape of the waves *)

\* The last share ends at n or behind it.
LEMMA SharesReach ==
  ASSUME NEW n \in Nat, NEW size \in Nat \ {0}
  PROVE  UpTo(n, size) \in Nat /\ n <= UpTo(n, size) * size
<1> DEFINE q == (n + size - 1) \div size
<1>1. q \in Nat /\ n + size - 1 < q * size + size
  BY SMT
<1>2. q * size \in Nat
  BY <1>1, SMT
<1> QED
  BY <1>1, <1>2 DEF UpTo

\* A longer list has no fewer shares.
LEMMA SharesGrow ==
  ASSUME NEW n \in Nat, NEW j \in 1..n, NEW size \in Nat \ {0}
  PROVE  UpTo(j, size) \in 1..UpTo(n, size)
<1> DEFINE a == UpTo(j, size)
           b == UpTo(n, size)
<1>1. a \in Nat \ {0} /\ b \in Nat /\ n <= b * size
  BY CountOfShares, SharesReach
<1>2. (a - 1) * size \in Nat /\ (a - 1) * size < j
  <2>1. j \in Nat /\ a \in 1..UpTo(j, size)
    BY <1>1
  <2> HIDE DEF a
  <2> QED
    BY <2>1, SharesBegin
<1> HIDE DEF a, b
<1>3. ASSUME b <= a - 1 PROVE FALSE
  <2>1. a - 1 \in Nat
    BY <1>1
  <2>2. b * size <= (a - 1) * size
    BY <1>1, <1>3, <2>1, Monotone
  <2>3. b * size \in Nat
    BY <1>1, SMT
  <2> QED
    BY <1>1, <1>2, <2>2, <2>3
<1>4. a \in 1..b
  BY <1>1, <1>3
<1> QED
  BY <1>4 DEF a, b

\* Every place of the list is in one of its shares.
LEMMA PartitionCovers ==
  ASSUME settings \in Settings, NEW s \in Seq(Vms), NEW j \in 1..Len(s)
  PROVE  \E i \in 1..Len(Partition(s)) : s[j] \in Listed(Partition(s)[i])
<1> DEFINE size == WaveSize(Len(s))
           i    == UpTo(j, size)
           from == (i - 1) * size + 1
           to   == IF i * size < Len(s) THEN i * size ELSE Len(s)
           p    == j - (i - 1) * size
<1>1. Len(s) \in Nat \ {0} /\ s # <<>> /\ size \in Nat \ {0}
  <2>1. Len(s) \in Nat \ {0} /\ s # <<>>
    OBVIOUS
  <2> QED
    BY <2>1, WaveSizePositive
<1> HIDE DEF size
<1>2. i \in 1..UpTo(Len(s), size) /\ i \in Nat \ {0} /\ j <= i * size
  <2>1. j \in Nat \ {0} /\ Len(s) \in Nat
    BY <1>1
  <2>2. i \in 1..UpTo(Len(s), size)
    BY <1>1, <2>1, SharesGrow
  <2>3. i \in Nat \ {0}
    BY <1>1, <2>1, CountOfShares
  <2>4. j <= i * size
    BY <1>1, <2>1, SharesReach
  <2> QED
    BY <2>2, <2>3, <2>4
<1>3. (i - 1) * size \in Nat /\ (i - 1) * size < j
  <2>1. j \in Nat /\ i \in 1..UpTo(j, size)
    BY <1>2
  <2> QED
    BY <1>1, <2>1, SharesBegin
<1> HIDE DEF i
<1>4. i * size = (i - 1) * size + size
  BY <1>1, <1>2, SMT
<1>5. /\ from \in 1..Len(s) /\ to \in 1..Len(s) /\ from <= to
      /\ p \in 1..(to - from + 1) /\ from + p - 1 = j
  BY <1>1, <1>2, <1>3, <1>4
<1>6. Partition(s) = [k \in 1..UpTo(Len(s), size) |->
                        SubSeq(s, (k - 1) * size + 1,
                               IF k * size < Len(s) THEN k * size ELSE Len(s))]
  BY <1>1 DEF Partition, size
<1>7. Partition(s)[i] = SubSeq(s, from, to)
  BY <1>2, <1>6
<1>8. UpTo(Len(s), size) \in Nat /\ Len(Partition(s)) = UpTo(Len(s), size)
  <2>1. UpTo(Len(s), size) \in Nat
    BY <1>1, SharesReach
  <2> QED
    BY <1>6, <2>1
<1> HIDE DEF from, to, p
<1>9. /\ Len(SubSeq(s, from, to)) = to - from + 1
      /\ SubSeq(s, from, to)[p] = s[j]
  BY <1>5
<1>10. s[j] \in Listed(Partition(s)[i])
  BY <1>5, <1>7, <1>9 DEF Listed
<1> QED
  BY <1>2, <1>8, <1>10

\* What the percentage allows of a fleet of n VMs.
Narrows(k, n) == k <= 1 \/ 100 * k < settings.percentage * n + 100

\* A larger fleet is allowed no less, and with a share less is always allowed.
LEMMA NarrowsGrows ==
  ASSUME settings \in Settings, NEW n \in Nat, NEW m \in Nat, n <= m,
         NEW k \in Nat, Narrows(k, n), NEW j \in Nat, j <= k
  PROVE  Narrows(j, m)
<1> DEFINE c == settings.percentage
<1>1. c \in Int
  BY BatchAssumption
<1> HIDE DEF c
<1>2. c * n \in Int /\ c * m \in Int
  BY <1>1, SMT
<1>3. CASE c \in Nat
  <2>1. n * c <= m * c
    BY <1>3, Monotone
  <2>2. n * c = c * n /\ m * c = c * m
    BY <1>1, SMT
  <2>3. j <= 1 \/ 100 * j < c * m + 100
    <3> HIDE DEF c
    <3>1. k <= 1 \/ 100 * k < c * n + 100
      BY DEF Narrows, c
    <3>2. c * n <= c * m
      BY <2>1, <2>2
    <3> QED
      BY <1>2, <3>1, <3>2
  <2> QED
    BY <2>3 DEF Narrows, c
<1>4. CASE c \notin Nat
  <2>1. c * n <= 0
    BY <1>1, <1>4, SMT
  <2>2. k <= 1 \/ 100 * k < c * n + 100
    BY DEF Narrows, c
  <2>3. k <= 1
    BY <1>2, <2>1, <2>2
  <2> QED
    BY <2>3 DEF Narrows
<1> QED
  BY <1>3, <1>4

\* No wave is larger than the percentage asks for, rounded up.
LEMMA PartitionNarrow ==
  ASSUME settings \in Settings, NEW s \in Seq(Vms), NEW i \in 1..Len(Partition(s))
  PROVE  Narrows(Len(Partition(s)[i]), Len(s))
<1> DEFINE size == WaveSize(Len(s))
           n    == Len(s)
<1>1. s # <<>> /\ n \in Nat \ {0}
  BY DEF Partition
<1>2. /\ size \in Nat \ {0}
      /\ size = 1 \/ 100 * size < n * settings.percentage + 100
  BY <1>1, WaveSizePositive
<1>3. n * settings.percentage = settings.percentage * n
  <2>1. settings.percentage \in Int
    BY BatchAssumption
  <2> QED
    BY <1>1, <2>1, SMT
<1>4. Narrows(size, n)
  BY <1>2, <1>3 DEF Narrows
<1>5. i \in 1..UpTo(n, size)
  <2>1. UpTo(n, size) \in Nat
    BY <1>1, <1>2, SharesReach
  <2>2. Partition(s) = [k \in 1..UpTo(n, size) |-> Partition(s)[k]]
    BY <1>1 DEF Partition
  <2>3. Len(Partition(s)) = UpTo(n, size)
    BY <2>1, <2>2
  <2> QED
    BY <2>3
<1>6. /\ Partition(s)[i] \in Seq(Vms)
      /\ \A k \in 1..Len(Partition(s)[i]) : k \in 1..size
  BY <1>1, <1>5, PartitionPlaces
<1> HIDE DEF size
<1>7. Len(Partition(s)[i]) \in Nat /\ Len(Partition(s)[i]) <= size
  BY <1>2, <1>6
<1> QED
  BY <1>1, <1>2, <1>4, <1>7, NarrowsGrows

\* A canary is a wave of its own, waves are narrow, and come to every healthy VM.
CanaryAlone == waves # <<>> /\ settings.canary /\ Len(healthy) > 1 => waves[1] = <<Head(healthy)>>
Narrow      == \A k \in 1..Len(waves) : Narrows(Len(waves[k]), Len(healthy))
Covered     == waves # <<>> => \A v \in Listed(healthy) : \E k \in 1..Len(waves) : v \in Wave(k)

ShapeInv == CanaryAlone /\ Narrow /\ Covered

\* The waves behind a canary.
LEMMA CanaryShape ==
  ASSUME TypeInv, PrepareWaves, settings.canary, Len(healthy) > 1
  PROVE  ShapeInv'
<1> DEFINE t == Tail(healthy)
           c == <<Head(healthy)>>
           w == Partition(t)
<1>1. /\ healthy \in Seq(Vms) /\ OneToOne(healthy) /\ settings \in Settings
      /\ waves' = <<c>> \o w
      /\ UNCHANGED <<healthy, settings>>
  BY DEF TypeInv, TypeOK, FleetOnce, PrepareWaves, planVars, inputVars
<1>2. /\ t \in Seq(Vms) /\ Len(t) = Len(healthy) - 1
      /\ \A i \in 1..Len(t) : t[i] = healthy[i + 1]
      /\ c \in Seq(Vms) /\ Len(c) = 1 /\ c[1] = healthy[1]
      /\ Len(healthy) \in Nat /\ Len(t) \in Nat
  BY <1>1
<1>3. OneToOne(t)
  BY <1>1, <1>2 DEF OneToOne
<1>4. w \in Seq(Seq(Vms)) /\ Len(w) \in Nat
  <2>1. Cuts(w, t)
    BY <1>1, <1>2, <1>3, PartitionCuts
  <2> HIDE DEF w, t
  <2> QED
    BY <2>1 DEF Cuts
<1>5. \A i \in 1..Len(w) : Narrows(Len(w[i]), Len(t))
  BY <1>1, <1>2, PartitionNarrow
<1>6. \A j \in 1..Len(t) : \E i \in 1..Len(w) : t[j] \in Listed(w[i])
  BY <1>1, <1>2, PartitionCovers
<1> HIDE DEF w, t, c
<1>7. /\ Len(waves') = Len(w) + 1 /\ waves'[1] = c
      /\ \A i \in 2..Len(waves') : waves'[i] = w[i - 1] /\ i - 1 \in 1..Len(w)
      /\ \A i \in 1..Len(w) : waves'[i + 1] = w[i] /\ i + 1 \in 1..Len(waves')
  BY <1>1, <1>2, <1>4
<1>8. CanaryAlone'
  BY <1>1, <1>7 DEF CanaryAlone, c
<1>10. Narrow'
  <2> SUFFICES ASSUME NEW k \in 1..Len(waves') PROVE Narrows(Len(waves'[k]), Len(healthy))
    BY <1>1 DEF Narrow, Narrows
  <2>1. CASE k = 1
    <3>1. Len(waves'[k]) = 1
      BY <1>2, <1>7, <2>1
    <3> QED
      BY <3>1 DEF Narrows
  <2>2. CASE k # 1
    <3>1. k - 1 \in 1..Len(w) /\ waves'[k] = w[k - 1]
      BY <1>4, <1>7, <2>2
    <3>2. Narrows(Len(waves'[k]), Len(t)) /\ Len(waves'[k]) \in Nat
      BY <1>4, <1>5, <3>1
    <3>3. Len(t) <= Len(healthy)
      BY <1>2
    <3> QED
      BY <1>1, <1>2, <3>2, <3>3, NarrowsGrows
  <2> QED
    BY <2>1, <2>2
<1>11. Covered'
  <2> SUFFICES ASSUME NEW j \in 1..Len(healthy)
               PROVE  \E k \in 1..Len(waves') : healthy[j] \in Listed(waves'[k])
    <3>1. healthy' = healthy
      BY <1>1
    <3> QED
      BY <3>1 DEF Covered, Listed, Wave
  <2>1. CASE j = 1
    <3>1. 1 \in 1..Len(waves')
      BY <1>4, <1>7
    <3>2. waves'[1] = c /\ Len(c) = 1 /\ c[1] = healthy[1]
      BY <1>2, <1>7
    <3>3. 1 \in 1..Len(c)
      BY <3>2
    <3>4. healthy[1] \in Listed(waves'[1])
      BY <3>2, <3>3, Zenon DEF Listed
    <3> QED
      BY <2>1, <3>1, <3>4
  <2>2. CASE j # 1
    <3>1. j - 1 \in 1..Len(t) /\ t[j - 1] = healthy[j]
      BY <1>2, <2>2
    <3>2. PICK i \in 1..Len(w) : healthy[j] \in Listed(w[i])
      BY <1>6, <3>1
    <3>3. i + 1 \in 1..Len(waves') /\ waves'[i + 1] = w[i]
      BY <1>7
    <3> QED
      BY <3>2, <3>3
  <2> QED
    BY <2>1, <2>2
<1> QED
  BY <1>8, <1>10, <1>11 DEF ShapeInv

\* The waves without one.
LEMMA PlainShape ==
  ASSUME TypeInv, PrepareWaves, ~(settings.canary /\ Len(healthy) > 1)
  PROVE  ShapeInv'
<1>1. /\ healthy \in Seq(Vms) /\ settings \in Settings
      /\ waves' = Partition(healthy) /\ UNCHANGED <<healthy, settings>>
  BY DEF TypeInv, TypeOK, PrepareWaves, planVars, inputVars
<1>2. CanaryAlone'
  BY <1>1 DEF CanaryAlone
<1>3. Narrow'
  BY <1>1, PartitionNarrow DEF Narrow, Narrows
<1>4. Covered'
  BY <1>1, PartitionCovers DEF Covered, Wave, Listed
<1> QED
  BY <1>2, <1>3, <1>4 DEF ShapeInv

\* Once cut, the waves keep their shape.
LEMMA ShapeStep == ASSUME TypeInv, WaveInv, ShapeInv, [Next]_vars PROVE ShapeInv'
<1>1. CASE PrepareWaves
  BY <1>1, CanaryShape, PlainShape
<1>2. CASE ValidateTargets
  <2>1. waves' = <<>>
    BY <1>2 DEF ValidateTargets, Goes, WaveInv, NothingYet, Untouched, Early, waveVars
  <2> QED
    BY <2>1 DEF ShapeInv, CanaryAlone, Narrow, Covered
<1>3. CASE UNCHANGED <<waves, healthy, settings>>
  BY <1>3 DEF ShapeInv, CanaryAlone, Narrow, Narrows, Covered, Wave, Listed
<1>4. PrepareWaves \/ ValidateTargets \/ UNCHANGED <<waves, healthy, settings>>
  BY DEF Next, Step, InitBatch, ValidateWindow, CheckFleet, PlanVms, GeneratePlanArtifact,
     LoadDeferredArtifact, GatePasses, GateAnswers, VerifyPlanHash, DispatchWave, RunVm,
     CheckWaveHealth, GenerateReport, Crash, vars, inputVars, planVars, waveVars
<1> QED
  BY <1>1, <1>2, <1>3, <1>4

-----------------------------------------------------------------------------
(* Who has come back *)

\* Every wave that was checked is back.
Returned == \A k \in 1..Len(checks) : k \in 1..Len(waves) /\ \A v \in Wave(k) : vm[v] \in Finished

\* A check waits for its wave, and who is back is not sent out again.
LEMMA ReturnedStep == ASSUME TypeInv, WaveInv, Returned, [Next]_vars PROVE Returned'
<1>1. CASE DispatchWave
  <2>1. /\ stage = "dispatch_wave" /\ current = Len(checks) /\ current + 1 \in 1..Len(waves)
        /\ vm' = [v \in Vms |-> IF v \in Wave(current + 1) THEN "running" ELSE vm[v]]
        /\ UNCHANGED <<waves, checks>>
    BY <1>1 DEF DispatchWave, Goes, WaveInv, AllPassed, TypeInv, OnCourse, Opened, waveVars
  <2>2. ASSUME NEW k \in 1..Len(checks), NEW v \in Wave(k)
        PROVE  vm'[v] \in Finished
    <3>1. k \in 1..Len(waves) /\ vm[v] \in Finished /\ k # current + 1
      BY <2>1 DEF Returned, TypeInv, TypeOK
    <3>2. v \in Vms
      BY <3>1 DEF TypeInv, TypeOK, Wave, Listed
    <3>3. v \notin Wave(current + 1)
      BY <2>1, <3>1, OneWave
    <3> QED
      BY <2>1, <3>1, <3>2, <3>3
  <2> QED
    BY <2>1, <2>2 DEF Returned, Wave, Listed
<1>2. CASE \E w \in Vms : RunVm(w)
  <2>1. PICK w \in Vms : RunVm(w)
    BY <1>2
  <2>2. /\ vm[w] = "running" /\ \A v \in Vms \ {w} : vm'[v] = vm[v]
        /\ UNCHANGED <<waves, checks>>
    BY <2>1 DEF RunVm, TypeInv, TypeOK, waveVars
  <2>3. \A k \in 1..Len(checks) : k \in 1..Len(waves) /\ Wave(k) \subseteq Vms
    BY DEF Returned, TypeInv, TypeOK, Wave, Listed
  <2>4. \A k \in 1..Len(checks) : \A v \in Wave(k) : v # w
    BY <2>2 DEF Returned, Finished
  <2> QED
    BY <2>2, <2>3, <2>4 DEF Returned, Wave, Listed
<1>3. CASE CheckWaveHealth
  <2>1. /\ current = Len(checks) /\ current + 1 \in 1..Len(waves) /\ Joined
        /\ UNCHANGED <<waves, vm>>
    BY <1>3 DEF CheckWaveHealth, WaveInv, AllPassed, TypeInv, OnCourse, Opened, vmVars
  <2>2. PICK sick : checks' = Append(checks, sick)
    BY <1>3 DEF CheckWaveHealth
  <2>3. \A k \in 1..Len(checks') : k \in 1..Len(checks) \/ k = current + 1
    BY <2>1, <2>2 DEF TypeInv, TypeOK
  <2> QED
    BY <2>1, <2>3 DEF Returned, Joined, Wave, Listed
<1>4. CASE PrepareWaves
  <2>1. checks' = <<>>
    BY <1>4 DEF PrepareWaves, Goes, WaveInv, NothingYet, Untouched, Early, Planned
  <2> QED
    BY <2>1 DEF Returned
<1>5. CASE UNCHANGED <<waves, checks, vm>>
  BY <1>5 DEF Returned, Wave, Listed
<1>6. DispatchWave \/ (\E w \in Vms : RunVm(w)) \/ CheckWaveHealth \/ PrepareWaves
        \/ UNCHANGED <<waves, checks, vm>>
  BY DEF Next, Step, InitBatch, ValidateWindow, ValidateTargets, CheckFleet, PlanVms,
     GeneratePlanArtifact, LoadDeferredArtifact, GatePasses, GateAnswers, VerifyPlanHash,
     GenerateReport, Crash, vars, waveVars, vmVars
<1> QED
  BY <1>1, <1>2, <1>3, <1>4, <1>5, <1>6

RolloutInv == TypeInv /\ WaveInv /\ ShapeInv /\ Returned

\* Waves have their shape and come back in every reachable state.
LEMMA RolloutInOrder == Spec => []RolloutInv
<1>1. Init => RolloutInv
  <2> SUFFICES ASSUME Init PROVE RolloutInv
    OBVIOUS
  <2>1. waves = <<>> /\ checks = <<>>
    BY DEF Init
  <2>2. ShapeInv /\ Returned
    BY <2>1 DEF ShapeInv, CanaryAlone, Narrow, Covered, Returned
  <2> QED
    BY <2>2, TypeInit, WaveInit DEF RolloutInv
<1>2. RolloutInv /\ [Next]_vars => RolloutInv'
  BY TypeStep, WaveStep, ShapeStep, ReturnedStep DEF RolloutInv
<1> QED
  BY <1>1, <1>2, PTL DEF Spec

\* A canary is back and healthy before any other VM is sent out, for any fleet and
\* settings: whoever is not in the first wave entered after its check had passed.
THEOREM CanaryFirst == Spec => []CanaryGoesFirst
<1>1. RolloutInv => CanaryGoesFirst
  <2> SUFFICES ASSUME RolloutInv, settings.canary, healthy # <<>>,
                      NEW v \in Vms \ {healthy[1]}, vm[v] # "idle"
               PROVE  vm[healthy[1]] \in Finished /\ checks # <<>> /\ checks[1] = {}
    BY DEF CanaryGoesFirst
  <2> USE DEF RolloutInv
  <2>1. PICK i \in 1..Len(waves) :
          v \in Wave(i) /\ i <= Len(checks) + 1 /\ \A k \in 1..(i - 1) : ~Sick(k)
    BY DEF WaveInv, InOrder, Entered
  <2>2. /\ healthy \in Seq(Vms) /\ waves # <<>> /\ Len(waves) \in Nat /\ Len(checks) \in Nat
        /\ Cuts(waves, healthy) /\ Len(healthy) \in Nat \ {0} /\ checks \in Seq(SUBSET Vms)
    BY <2>1 DEF TypeInv, TypeOK, WaveInv, FleetIsCut
  <2>3. v \in Listed(healthy)
    BY <2>1, <2>2 DEF Cuts, Wave
  <2>4. Len(healthy) > 1
    BY <2>2, <2>3 DEF Listed
  <2>5. waves[1] = <<healthy[1]>>
    BY <2>2, <2>4 DEF ShapeInv, CanaryAlone
  <2>6. i # 1 /\ healthy[1] \in Wave(1)
    BY <2>1, <2>5 DEF Wave, Listed
  <2>7. 1 \in 1..(i - 1) /\ 1 \in 1..Len(checks)
    BY <2>1, <2>2, <2>6
  <2>8. checks[1] = {}
    BY <2>1, <2>7 DEF Sick, Failed
  <2>9. vm[healthy[1]] \in Finished
    BY <2>6, <2>7 DEF Returned
  <2> QED
    BY <2>2, <2>7, <2>8, <2>9
<1> QED
  BY <1>1, RolloutInOrder, PTL

\* A list has no more elements than places.
LEMMA ListedCount ==
  ASSUME NEW s \in Seq(Vms)
  PROVE  IsFiniteSet(Listed(s)) /\ Cardinality(Listed(s)) <= Len(s)
<1>1. /\ IsFiniteSet(1..Len(s)) /\ Cardinality(1..Len(s)) = Len(s)
  <2>1. Len(s) \in Nat
    OBVIOUS
  <2> QED
    BY <2>1, FS_Interval
<1>2. s \in [1..Len(s) -> Listed(s)] /\ \A v \in Listed(s) : \E k \in 1..Len(s) : s[k] = v
  BY DEF Listed
<1>3. s \in Surjection(1..Len(s), Listed(s))
  BY <1>2 DEF Surjection
<1> QED
  BY <1>1, <1>3, FS_Surjection

\* For any fleet and any percentage no more VMs are worked on at once than the
\* percentage of the fleet, rounded up: who is at work is in the one wave that is
\* not checked yet.
THEOREM RollingShareKept == Spec => []RollingShare
<1>1. RolloutInv => RollingShare
  <2> SUFFICES ASSUME RolloutInv PROVE RollingShare
    OBVIOUS
  <2> USE DEF RolloutInv
  <2> DEFINE busy == {v \in Vms : vm[v] = "running"}
             n    == Len(checks) + 1
  <2>1. settings \in Settings /\ Len(healthy) \in Nat
    BY DEF TypeInv, TypeOK
  <2>2. ASSUME NEW v \in busy PROVE n \in 1..Len(waves) /\ v \in Wave(n)
    <3>1. PICK i \in 1..Len(waves) : v \in Wave(i) /\ i <= Len(checks) + 1
      BY DEF WaveInv, InOrder, Entered
    <3>2. i \notin 1..Len(checks)
      BY <3>1 DEF Returned, Finished
    <3>3. Len(checks) \in Nat
      BY DEF TypeInv, TypeOK
    <3> QED
      BY <3>1, <3>2, <3>3
  <2>3. CASE busy = {}
    <3>1. Cardinality(busy) = 0
      BY <2>3, FS_EmptySet
    <3> QED
      BY <3>1 DEF RollingShare
  <2>4. CASE busy # {}
    <3>1. n \in 1..Len(waves) /\ busy \subseteq Wave(n)
      BY <2>2, <2>4
    <3>2. waves[n] \in Seq(Vms) /\ Len(waves[n]) \in Nat
      BY <3>1 DEF TypeInv, TypeOK
    <3>3. Narrows(Len(waves[n]), Len(healthy))
      BY <3>1 DEF ShapeInv, Narrow
    <3>4. IsFiniteSet(Wave(n)) /\ Cardinality(Wave(n)) <= Len(waves[n])
      BY <3>2, ListedCount DEF Wave
    <3>5. Cardinality(busy) <= Cardinality(Wave(n)) /\ Cardinality(busy) \in Nat
          /\ Cardinality(Wave(n)) \in Nat
      BY <3>1, <3>4, FS_Subset, FS_CardinalityType
    <3> HIDE DEF busy, n
    <3>6. Cardinality(busy) <= Len(waves[n])
      BY <3>2, <3>4, <3>5
    <3>7. Narrows(Cardinality(busy), Len(healthy))
      BY <2>1, <3>2, <3>3, <3>5, <3>6, NarrowsGrows
    <3> QED
      BY <3>7 DEF RollingShare, Narrows, busy
  <2> QED
    BY <2>3, <2>4
<1> QED
  BY <1>1, RolloutInOrder, PTL

-----------------------------------------------------------------------------
(* How a batch ends *)

Dispatched == \E v \in Vms : vm[v] # "idle"

\* The row of the batch is written when it ends.
Unreported == stage \notin Ended => status \in {"absent", "running"}

\* The fleet passed its check before it was planned, and waves are not prepared
\* after an error.
FleetPassed == stage \in Planned \cup Opened \/ Dispatched => ~FleetIsSick
NoError     == stage \in {"prepare_waves"} \cup Opened \/ Dispatched => ~error /\ status # "aborted"

\* A rollout that nothing cut short has checked every wave.
AllChecked ==
  /\ stage = "generate_report" /\ ~error /\ approved # "no" /\ ~aborted =>
       /\ Len(checks) = Len(waves)
       /\ waves = <<>> => healthy = <<>>
  /\ stage \in {"init_batch", "validate_window", "validate_targets", "check_fleet_health"} \cup Planned
       => ~aborted

EndInv == Unreported /\ FleetPassed /\ NoError /\ AllChecked

\* No node before the rollout sends a VM out.
LEMMA EarlyIdle == ASSUME WaveInv, stage \in Early PROVE ~Dispatched
  BY DEF WaveInv, NothingYet, Untouched, Dispatched

\* The nodes before the plan.
LEMMA EndBefore ==
  ASSUME TypeInv, WaveInv, EndInv, InitBatch \/ ValidateWindow \/ ValidateTargets \/ CheckFleet
  PROVE  EndInv'
<1> USE DEF Goes, inputVars, planVars, waveVars, vmVars, EndInv
<1>1. /\ stage \in {"init_batch", "validate_window", "validate_targets", "check_fleet_health"}
      /\ stage' \notin {"prepare_waves"} \cup Opened \cup Ended
      /\ status' \in {"absent", "running"}
      /\ UNCHANGED <<waves, checks, aborted, vm, approved, settings, targets>>
  BY DEF InitBatch, ValidateWindow, ValidateTargets, CheckFleet, Ended, Opened, Unreported
<1>2. waves = <<>> /\ checks = <<>> /\ ~Dispatched /\ ~aborted
  BY <1>1, EarlyIdle DEF WaveInv, NothingYet, Untouched, Early, AllChecked
<1>3. ~Dispatched'
  BY <1>1, <1>2 DEF Dispatched
<1>4. stage' \in Planned => CheckFleet /\ ~FleetIsSick
  BY DEF InitBatch, ValidateWindow, ValidateTargets, CheckFleet, Planned
<1>5. CheckFleet => UNCHANGED <<targets, healthy, settings>>
  BY DEF CheckFleet
<1>6. FleetPassed'
  BY <1>1, <1>3, <1>4, <1>5 DEF FleetPassed, FleetIsSick
<1>7. stage' = "generate_report" /\ ~error' => healthy' = <<>>
  <2>1. CASE InitBatch \/ ValidateTargets
    BY <2>1 DEF InitBatch, ValidateTargets
  <2>2. CASE ValidateWindow
    BY <2>2 DEF ValidateWindow
  <2>3. CASE CheckFleet
    <3>1. stage' = "generate_report" => FleetIsSick \/ healthy = <<>>
      BY <2>3 DEF CheckFleet
    <3>2. error' = FleetIsSick /\ healthy' = healthy
      BY <2>3 DEF CheckFleet
    <3> QED
      BY <3>1, <3>2
  <2> QED
    BY <2>1, <2>2, <2>3
<1>8. Unreported' /\ NoError' /\ AllChecked'
  BY <1>1, <1>2, <1>3, <1>7 DEF Unreported, NoError, AllChecked
<1> QED
  BY <1>6, <1>8

\* The nodes from the plan to its approval.
LEMMA EndPlanning ==
  ASSUME TypeInv, WaveInv, EndInv,
         \/ PlanVms \/ GeneratePlanArtifact \/ LoadDeferredArtifact
         \/ GatePasses \/ GateAnswers \/ VerifyPlanHash
  PROVE  EndInv'
<1> USE DEF Goes, inputVars, planVars, waveVars, vmVars, EndInv
<1>1. /\ stage \in Planned /\ stage \notin {"prepare_waves"} \cup Ended
      /\ stage' \notin Opened
      /\ UNCHANGED <<waves, checks, aborted, vm, settings, targets, healthy, status>>
      /\ stage' = "prepare_waves" => ~error'
      /\ stage' = "generate_report" => error' \/ approved' = "no"
  BY DEF PlanVms, GeneratePlanArtifact, LoadDeferredArtifact, GatePasses, GateAnswers,
     VerifyPlanHash, Planned, Opened, Ended
<1>2. ~Dispatched /\ ~aborted /\ ~FleetIsSick /\ status \in {"absent", "running"}
  BY <1>1, EarlyIdle DEF Early, AllChecked, FleetPassed, Unreported
<1>3. ~Dispatched' /\ ~FleetIsSick'
  BY <1>1, <1>2 DEF Dispatched, FleetIsSick
<1> QED
  BY <1>1, <1>2, <1>3 DEF Unreported, FleetPassed, NoError, AllChecked

\* The nodes of the rollout.
LEMMA EndRollout ==
  ASSUME TypeInv, WaveInv, EndInv,
         PrepareWaves \/ DispatchWave \/ (\E v \in Vms : RunVm(v)) \/ CheckWaveHealth
  PROVE  EndInv'
<1> USE DEF Goes, inputVars, planVars, waveVars, vmVars, EndInv
<1>1. /\ stage \in {"prepare_waves"} \cup Opened
      /\ stage' \in Opened \cup {"generate_report"}
      /\ UNCHANGED <<settings, targets, healthy, status, error>>
  BY DEF PrepareWaves, DispatchWave, RunVm, CheckWaveHealth, Opened
<1>2. ~error /\ status # "aborted" /\ ~FleetIsSick /\ status \in {"absent", "running"}
  BY <1>1 DEF NoError, FleetPassed, Unreported, Planned, Opened, Ended
<1>3. ~FleetIsSick'
  BY <1>1, <1>2 DEF FleetIsSick
<1>4. stage' = "generate_report" /\ ~aborted' => Len(checks') = Len(waves') /\ waves' # <<>>
  <2> SUFFICES ASSUME stage' = "generate_report", ~aborted'
               PROVE  Len(checks') = Len(waves') /\ waves' # <<>>
    OBVIOUS
  <2>1. CheckWaveHealth
    BY DEF PrepareWaves, DispatchWave, RunVm
  <2>2. /\ current = Len(checks) /\ current + 1 \in 1..Len(waves) /\ waves' = waves
    BY <2>1 DEF CheckWaveHealth, WaveInv, AllPassed, TypeInv, OnCourse, Opened
  <2>3. PICK sick : checks' = Append(checks, sick) /\ ~(current + 1 < Len(waves))
    BY <2>1 DEF CheckWaveHealth, GoesOn
  <2> QED
    BY <2>2, <2>3 DEF TypeInv, TypeOK
<1>5. stage' \notin {"init_batch", "validate_window", "validate_targets", "check_fleet_health"} \cup Planned
  BY <1>1 DEF Opened, Planned
<1>6. Unreported' /\ FleetPassed' /\ NoError'
  BY <1>1, <1>2, <1>3 DEF Unreported, FleetPassed, NoError
<1>7. AllChecked'
  BY <1>4, <1>5 DEF AllChecked
<1> QED
  BY <1>6, <1>7

\* Report and crash send nobody out.
LEMMA EndReport ==
  ASSUME TypeInv, PlanInv, EndInv, GenerateReport \/ Crash
  PROVE  EndInv'
<1> USE DEF Goes, inputVars, planVars, waveVars, vmVars, EndInv
<1>1. /\ stage \notin Ended /\ stage' \in Ended
      /\ UNCHANGED <<settings, targets, healthy, vm, error>>
  BY DEF GenerateReport, Crash, Ended
<1>2. Dispatched' => Dispatched /\ ~error /\ ~FleetIsSick /\ approved = "yes"
  BY <1>1 DEF Dispatched, NoError, FleetPassed, PlanInv, Cleared
<1>3. Dispatched' => ~FleetIsSick' /\ ~error'
  BY <1>1, <1>2 DEF FleetIsSick
<1>4. Dispatched' => status' # "aborted"
  BY <1>2 DEF GenerateReport, Crash, Verdict, NoError
<1> QED
  BY <1>1, <1>3, <1>4 DEF Unreported, FleetPassed, NoError, AllChecked, Planned, Opened, Ended

\* Every step keeps to the course of the batch.
LEMMA EndStep == ASSUME TypeInv, WaveInv, PlanInv, EndInv, [Next]_vars PROVE EndInv'
<1>1. CASE UNCHANGED vars
  BY <1>1 DEF vars, inputVars, planVars, waveVars, vmVars, EndInv, Unreported, FleetPassed,
     NoError, AllChecked, Dispatched, FleetIsSick
<1> QED
  BY <1>1, EndBefore, EndPlanning, EndRollout, EndReport DEF Next, Step

\* What a report says of a batch that ran to its end.
Closing ==
  /\ status = "completed" => \A v \in Vms : vm[v] # "failed"
  /\ status \in {"completed", "completed_with_failures"} /\ ~aborted =>
       \A v \in Listed(healthy) : vm[v] \in Finished

BatchInv == RolloutInv /\ PlanInv /\ EndInv /\ Closing

\* The report looks at waves that are all back.
LEMMA ClosingStep == ASSUME BatchInv, [Next]_vars PROVE Closing'
<1> USE DEF BatchInv, RolloutInv
<1>1. CASE stage \in Ended
  <2>1. UNCHANGED vars
    BY <1>1 DEF Ended, Next, Step, InitBatch, ValidateWindow, ValidateTargets, CheckFleet, PlanVms,
       GeneratePlanArtifact, LoadDeferredArtifact, GatePasses, GateAnswers, VerifyPlanHash,
       PrepareWaves, DispatchWave, RunVm, CheckWaveHealth, GenerateReport, Crash, Goes
  <2> QED
    BY <2>1 DEF vars, planVars, waveVars, vmVars, Closing, Listed
<1>2. CASE GenerateReport
  <2>1. /\ stage = "generate_report" /\ status' = Verdict
        /\ UNCHANGED <<healthy, aborted, vm>>
    BY <1>2 DEF GenerateReport, Goes, planVars, waveVars, vmVars
  <2>2. status' \in {"completed", "completed_with_failures"} => ~error /\ approved # "no"
    BY <2>1 DEF Verdict
  <2>3. status' = "completed" => \A v \in Vms : vm[v] # "failed"
    BY <2>1 DEF Verdict
  <2>4. ASSUME ~error, approved # "no", ~aborted, NEW v \in Listed(healthy)
        PROVE  vm[v] \in Finished
    <3>1. Len(checks) = Len(waves) /\ (waves = <<>> => healthy = <<>>)
      BY <2>1, <2>4 DEF EndInv, AllChecked
    <3>2. healthy # <<>>
      BY <2>4 DEF Listed
    <3>3. PICK k \in 1..Len(waves) : v \in Wave(k)
      BY <2>4, <3>1, <3>2 DEF ShapeInv, Covered
    <3> QED
      BY <3>1, <3>3 DEF Returned
  <2> QED
    BY <2>1, <2>2, <2>3, <2>4 DEF Closing, Listed
<1>3. CASE stage \notin Ended /\ ~GenerateReport
  <2>1. status' \in {"absent", "running"}
    BY <1>3 DEF EndInv, Unreported, Next, Step, InitBatch, ValidateWindow, ValidateTargets,
       CheckFleet, PlanVms, GeneratePlanArtifact, LoadDeferredArtifact, GatePasses, GateAnswers,
       VerifyPlanHash, PrepareWaves, DispatchWave, RunVm, CheckWaveHealth, Crash, vars
  <2> QED
    BY <2>1 DEF Closing
<1> QED
  BY <1>1, <1>2, <1>3

\* The course of a batch in every reachable state.
LEMMA BatchInOrder == Spec => []BatchInv
<1>1. Init => PlanInv /\ EndInv /\ Closing
  <2> SUFFICES ASSUME Init PROVE PlanInv /\ EndInv /\ Closing
    OBVIOUS
  <2>1. ~Dispatched /\ stage = "init_batch" /\ status \in {"absent", "running"} /\ ~aborted
    BY DEF Init, Dispatched
  <2> QED
    BY <2>1, PlanInit DEF EndInv, Unreported, FleetPassed, NoError, AllChecked, Planned, Opened, Closing
<1>2. RolloutInv /\ RolloutInv' /\ PlanInv /\ EndInv /\ Closing /\ [Next]_vars
        => PlanInv' /\ EndInv' /\ Closing'
  BY PlanStep, EndStep, ClosingStep DEF RolloutInv, BatchInv
<1> QED
  BY <1>1, <1>2, RolloutInOrder, PTL DEF Spec, BatchInv

\* A batch that is reported aborted has dispatched no VM, nor has one whose fleet
\* failed its check, whatever fleet, settings and artifact it began with: the graph
\* opens the rollout only without an error, with an approval and a fleet that passed.
THEOREM AbortedIsUntouched == Spec => []AbortMeansUntouched
<1>1. BatchInv => AbortMeansUntouched
  <2> SUFFICES ASSUME BatchInv, Dispatched
               PROVE  /\ status # "aborted"
                      /\ 100 * (Len(targets) - Len(healthy)) <= settings.fleetTolerance * Len(targets)
    BY DEF AbortMeansUntouched, Dispatched
  <2>1. status # "aborted" /\ ~FleetIsSick
    BY DEF BatchInv, EndInv, NoError, FleetPassed
  <2>2. /\ settings.fleetTolerance \in 0..100
        /\ Len(targets) \in Nat /\ Len(healthy) \in Nat
    <3>1. settings \in Settings /\ targets \in Fleets /\ healthy \in Seq(Vms)
      BY DEF BatchInv, RolloutInv, TypeInv, TypeOK
    <3>2. targets \in Seq(Vms)
      BY <3>1, BatchAssumption
    <3> QED
      BY <3>1, <3>2, BatchAssumption
  <2> DEFINE c == settings.fleetTolerance
             n == Len(targets)
  <2>3. c * n \in Int
    <3>1. c \in 0..100 /\ n \in Nat
      BY <2>2
    <3> HIDE DEF c, n
    <3> QED
      BY <3>1, SMT
  <2> QED
    BY <2>1, <2>2, <2>3 DEF FleetIsSick
<1> QED
  BY <1>1, BatchInOrder, PTL

\* A batch that is reported completed had no failed result, and unless a failed wave
\* cut it short it came to every healthy VM: the waves cover the fleet, whatever the
\* percentage, and the report is written when all of them are checked.
THEOREM CompletedIsVisited == Spec => []CompletedMeansVisited
<1>1. BatchInv => CompletedMeansVisited
  BY DEF BatchInv, Closing, CompletedMeansVisited
<1> QED
  BY <1>1, BatchInOrder, PTL

=============================================================================
