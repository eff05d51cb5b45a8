----------------------------- MODULE CpuLoadProofs -----------------------------
(***************************************************************************)
(* CpuLoad for all loads the counters can show, above the quota too, and   *)
(* any number of failing reads in a row: readings and average never exceed *)
(* the highest load, and after readings of at most SteepReading the health *)
(* check fails before joins are turned away.                               *)
(*                                                                         *)
(* A reading is the quotient of what two counters have gained, so that it  *)
(* stays within the range of the loads needs more than the types: what the *)
(* counters have gained since the last good reading is within that range,  *)
(* interval for interval.                                                  *)
(***************************************************************************)
EXTENDS CpuLoad, TLAPS

\* The counters gain no more than the highest load in each interval.
SinceBounded ==
    /\ since.busy \in Nat
    /\ since.intervals \in 0..MaxErrors
    /\ since.busy <= MaxLoad * since.intervals

\* The inductive invariant.
IInv ==
    /\ load \in Loads \cup {0}
    /\ since \in [busy : Nat, intervals : Nat]
    /\ SinceBounded
    /\ usage \in Scale
    /\ G_CPU \in Scale

\* Integer division undone by a multiple of the divisor (Usage).
LEMMA QuotientBounded ==
    ASSUME NEW b \in Nat, NEW n \in Nat \ {0}, NEW m \in Nat, b <= m * n
    PROVE  b \div n \in 0..m
<1> DEFINE q == b \div n
<1>1. q \in Int /\ n * q <= b
  OBVIOUS
<1>2. q >= 0
  OBVIOUS
<1>3. q <= m
  <2>1. SUFFICES ASSUME q >= m + 1 PROVE FALSE
    BY <1>1
  <2> HIDE DEF q
  <2>2. n * q >= n * (m + 1)
    BY <2>1, <1>1
  <2>3. n * (m + 1) = m * n + n
    OBVIOUS
  <2> QED BY <2>2, <2>3, <1>1
<1> QED BY <1>1, <1>2, <1>3

\* The moving average of two values in the range is in the range (cpuproc).
LEMMA AverageBounded ==
    ASSUME NEW prev \in Scale, NEW u \in Scale, NEW g \in Average(prev, u)
    PROVE  g \in Scale /\ 10 * g <= 7 * prev + 3 * u
BY LoadsAssumption DEF Average, Scale

\* After a reading of at most SteepReading one tick takes the average over the limit
\* for joins only from 600 or more.
LEMMA SteepestRise ==
    ASSUME NEW g \in Int, NEW h \in Int, NEW u \in Int,
           h > 720, 10 * h <= 7 * g + 3 * u, u <= SteepReading
    PROVE  g >= 600
BY DEF SteepReading

\* The start satisfies the invariant (Init).
LEMMA InvInit ==
    Init => IInv
BY LoadsAssumption, ErrorsAssumption
DEF Scale, Init, IInv, SinceBounded

\* Every tick, reading and error keeps the invariant (Next).
LEMMA InvNext ==
    IInv /\ [Next]_vars => IInv'
<1> SUFFICES ASSUME IInv, [Next]_vars PROVE IInv'
  OBVIOUS
<1> USE LoadsAssumption, ErrorsAssumption
<1>1. ASSUME NEW l \in Loads, Sample(l) PROVE IInv'
  <2> DEFINE now == [busy |-> since.busy + l, intervals |-> since.intervals + 1]
  <2>1. /\ now.busy \in Nat /\ now.intervals \in Nat \ {0}
        /\ now.busy <= MaxLoad * now.intervals
    <3>1. /\ since.busy \in Nat /\ since.intervals \in Nat
          /\ since.busy <= MaxLoad * since.intervals
      BY DEF IInv, SinceBounded
    <3>2. l \in Nat /\ l <= MaxLoad
      BY DEF Scale
    <3>3. now.busy = since.busy + l /\ now.intervals = since.intervals + 1
      OBVIOUS
    <3>4. MaxLoad * (since.intervals + 1) = MaxLoad * since.intervals + MaxLoad
      BY <3>1
    <3> HIDE DEF now
    <3> QED BY <3>1, <3>2, <3>3, <3>4
  <2>2. Reading(now) \in Scale
    <3> HIDE DEF now
    <3>1. now.busy \div now.intervals \in Scale
      BY <2>1, QuotientBounded, Zenon DEF Scale
    <3> QED BY <3>1 DEF Reading
  <2>3. load' \in Loads \cup {0} /\ G_CPU' \in Scale
    BY <1>1 DEF Sample, IInv
  <2>4. CASE /\ now.intervals <= MaxErrors
             /\ since' = now
             /\ UNCHANGED usage
    BY <2>1, <2>3, <2>4 DEF IInv, SinceBounded
  <2>5. CASE /\ usage' = IF Reading(now) /= 0 THEN Reading(now) ELSE usage
             /\ since' = [busy |-> 0, intervals |-> 0]
    BY <2>2, <2>3, <2>5 DEF IInv, SinceBounded
  <2> QED BY <1>1, <2>4, <2>5 DEF Sample
<1>2. ASSUME cpuproc PROVE IInv'
  <2>1. G_CPU' \in Scale
    <3>1. G_CPU' \in Average(G_CPU, usage) /\ G_CPU \in Scale /\ usage \in Scale
      BY <1>2 DEF cpuproc, IInv
    <3> QED BY <3>1, AverageBounded
  <2> QED BY <1>2, <2>1 DEF cpuproc, IInv, SinceBounded
<1>3. ASSUME UNCHANGED vars PROVE IInv'
  BY <1>3 DEF vars, IInv, SinceBounded
<1> QED BY <1>1, <1>2, <1>3 DEF Next

\* The invariant holds always.
LEMMA InvariantHolds ==
    Spec => []IInv
BY InvInit, InvNext, PTL DEF Spec

\* The average and every reading stay within the range of the loads, whatever its
\* end, whatever the load does and however many reads of the counters fail: neither
\* the quotient over several intervals nor the average overshoots (Usage, cpuproc).
THEOREM LoadInRange ==
    Spec => []TypeOK
<1>1. IInv => TypeOK
  BY LoadsAssumption, ErrorsAssumption
  DEF Scale, IInv, SinceBounded, TypeOK
<1> QED BY <1>1, InvariantHolds, PTL

\* However the load behaves and whatever the counters show, the health check has
\* failed before the step after which commonCheck turns joins away, unless the
\* last reading was over SteepReading (HealthCheck, commonCheck).
THEOREM HealthFirst ==
    Spec => HealthFailsFirst
<1>1. IInv /\ [Next]_vars => [RejectsJoins' => Unhealthy \/ usage > SteepReading]_vars
  <2> SUFFICES ASSUME IInv, Next, RejectsJoins', ~(usage > SteepReading) PROVE Unhealthy
    OBVIOUS
  <2> USE LoadsAssumption DEF REJECT_JOIN_CPU_Threshold, HEALTH_CHECK_CPU_LIMIT, IInv
  <2>1. ASSUME NEW l \in Loads, Sample(l) PROVE Unhealthy
    BY <2>1 DEF Sample, RejectsJoins, Unhealthy, Scale
  <2>2. ASSUME cpuproc PROVE Unhealthy
    <3>1. G_CPU' > 720 /\ 10 * G_CPU' <= 7 * G_CPU + 3 * usage
      <4>1. G_CPU' \in Average(G_CPU, usage) /\ G_CPU' > 720
        BY <2>2 DEF cpuproc, RejectsJoins
      <4>2. G_CPU \in Scale /\ usage \in Scale
        OBVIOUS
      <4> QED BY <4>1, <4>2, AverageBounded
    <3>2. G_CPU >= 600
      <4>1. G_CPU' \in Average(G_CPU, usage) /\ G_CPU \in Scale /\ usage \in Scale
        BY <2>2 DEF cpuproc
      <4>2. G_CPU' \in Scale
        BY <4>1, AverageBounded
      <4>3. G_CPU \in Int /\ G_CPU' \in Int /\ usage \in Int /\ usage <= SteepReading
        BY <4>1, <4>2 DEF Scale, SteepReading
      <4> HIDE DEF IInv
      <4> QED BY <3>1, <4>3, SteepestRise, ZenonT(60)
    <3> QED BY <3>2 DEF Unhealthy, Scale
  <2> QED BY <2>1, <2>2 DEF Next
<1> QED BY <1>1, InvariantHolds, PTL DEF Spec, HealthFailsFirst
===============================================================================
