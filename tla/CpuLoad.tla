------------------------------- MODULE CpuLoad --------------------------------
(***************************************************************************)
(* How a node measures its own load and what it does about it: the sampler *)
(* of util/cpu reads the counters of the cgroup twice a second, cpuproc of *)
(* handler/stats.go keeps a moving average of its readings in G_CPU, and   *)
(* the health check, the checks of joins and of messages compare G_CPU     *)
(* with their limits.  Loads are in thousandths of the CPU quota.          *)
(***************************************************************************)
EXTENDS Integers

CONSTANTS
    Loads,      \* the loads the counters can show for an interval
    MaxLoad,    \* the highest of them
    MaxErrors   \* bound on failing reads of the counters in a row

\* Thousandths of the quota.  They may exceed 1000: the counter of the cgroup and
\* that of the system are read one after the other and advance in steps of
\* different size, and Usage does not cut off their quotient.
Scale == 0..MaxLoad

ASSUME LoadsAssumption == MaxLoad \in Nat /\ Loads \subseteq Scale
ASSUME ErrorsAssumption == MaxErrors \in Nat

HEALTH_CHECK_CPU_LIMIT == 60
REJECT_JOIN_CPU_Threshold == 720
REJECT_MSG_CPU_Threshold == 770

VARIABLES
    load,       \* the load of the last interval, as the counters show it
    since,      \* what the counters have gained since preTotal and preSystem:
                \* the loads of the intervals added up, and how many there were
    usage,      \* the last reading the sampler has kept
    G_CPU       \* the moving average

vars == <<load, since, usage, G_CPU>>

-------------------------------------------------------------------------------
Init ==
    /\ load = 0
    /\ since = [busy |-> 0, intervals |-> 0]
    /\ usage = 0
    /\ G_CPU = 0

\* Usage: what the counters gained since the last reading that succeeded, as a
\* share of what the quota allows; integer division.
Reading(s) == s.busy \div s.intervals

\* A tick of the sampler after half a second under load l.  When a counter cannot
\* be read, neither preTotal nor preSystem moves; a reading of 0 is dropped.
Sample(l) ==
    LET now == [busy |-> since.busy + l, intervals |-> since.intervals + 1] IN
    /\ load' = l
    /\ \/ /\ now.intervals <= MaxErrors
          /\ since' = now
          /\ UNCHANGED usage
       \/ /\ usage' = IF Reading(now) /= 0 THEN Reading(now) ELSE usage
          /\ since' = [busy |-> 0, intervals |-> 0]
    /\ UNCHANGED G_CPU

\* Mutant: the new reading weighs 0.7 and the old average 0.3.
AverageSwapped(prev, u) == {(3 * prev + 7 * u) \div 10}

\* Mutant: the average is rounded up.
AverageUp(prev, u) == {(7 * prev + 3 * u + 9) \div 10}

\* int64(float64(prev)*0.7 + float64(u)*(1.0-0.7)): the sum is cut off, and where
\* it is a whole number the rounding of the floats can put it just below.
Average(prev, u) ==
    LET sum == 7 * prev + 3 * u IN
    {sum \div 10} \cup (IF sum > 0 /\ sum % 10 = 0 THEN {sum \div 10 - 1} ELSE {})

\* A tick of cpuproc.
cpuproc ==
    /\ G_CPU' \in Average(G_CPU, usage)
    /\ UNCHANGED <<load, since, usage>>

Next == (\E l \in Loads : Sample(l)) \/ cpuproc

\* Both tickers tick for ever.
Spec == Init /\ [][Next]_vars /\ WF_vars(\E l \in Loads : Sample(l)) /\ WF_vars(cpuproc)

-------------------------------------------------------------------------------
(* What the node does about its load.                                       *)

\* HealthCheck answers 503.
Unhealthy == G_CPU \div 10 >= HEALTH_CHECK_CPU_LIMIT

\* commonCheck turns joins and polls away.
RejectsJoins == G_CPU > REJECT_JOIN_CPU_Threshold

\* The read loop of a websocket drops messages.
RejectsMessages == G_CPU > REJECT_MSG_CPU_Threshold

-------------------------------------------------------------------------------
(* Properties.                                                              *)

\* Type correctness; readings over several intervals and the average never exceed
\* the highest load of an interval.
TypeOK ==
    /\ load \in Loads \cup {0}
    /\ since \in [busy : 0..MaxLoad * MaxErrors, intervals : 0..MaxErrors]
    /\ usage \in Scale
    /\ G_CPU \in Scale

\* The highest reading that one tick cannot turn from a healthy average into one
\* that refuses joins.
SteepReading == 1005

\* However steep the load rises, the health check fails at least one tick before
\* the node turns joins away, so that a balancer that asks often enough never sends
\* a peer to a node that refuses it for its load; except after a reading of more
\* than SteepReading, which the quota forbids and the code does not.
HealthFailsFirst ==
    [][RejectsJoins' => Unhealthy \/ usage > SteepReading]_vars

\* The load decides in the end.  A node that stays under a load within the limit
\* takes joins again, and one that stays over it turns them away; the limit it
\* acts on is up to 3 above the constant because the average is cut off.  A load
\* that reads as 0 is no load within the limit: the sampler drops it.
VerdictFollowsLoad ==
    /\ <>[](load \in 1..REJECT_JOIN_CPU_Threshold) => <>[]~RejectsJoins
    /\ <>[](load > REJECT_JOIN_CPU_Threshold + 3) => <>[]RejectsJoins
===============================================================================
