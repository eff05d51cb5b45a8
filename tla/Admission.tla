------------------------------- MODULE Admission -------------------------------
(***************************************************************************)
(* commonCheck of main.go, which every join, poll and post passes: the CPU *)
(* average, the state of Redis, and the token bucket when the limit is on. *)
(* The limit can be switched by editing the configuration file while the   *)
(* node runs; the bucket is made once, at the start.  The bucket is        *)
(* TokenBucket with all of its interface; the average is CpuLoad's, here   *)
(* only whether it is over the limit.                                      *)
(***************************************************************************)
EXTENDS TokenBucket

CONSTANT MaxJoins   \* bound on the requests admitted under the limit

ASSUME JoinsAssumption == MaxJoins \in Nat

VARIABLES
    overloaded,     \* G_CPU > REJECT_JOIN_CPU_Threshold
    IsAlive,        \* what the Redis breaker says
    limitEnabled,   \* ratelimit.enable as last read
    limiter,        \* the bucket has been made; nil otherwise
    reloaded,       \* history: the configuration was read again
    panicked,       \* history: a request has met a nil limiter
    joins           \* history: requests admitted under the limit since mark

nodeVars == <<overloaded, IsAlive>>
configVars == <<limitEnabled, limiter, reloaded>>
historyVars == <<panicked, joins>>
admissionVars == <<vars, nodeVars, configVars, historyVars>>

-------------------------------------------------------------------------------
\* Mutant: the limit is on and main makes no bucket.
AdmissionInitNoBucket ==
    /\ Init
    /\ overloaded = FALSE /\ IsAlive = TRUE
    /\ limitEnabled \in BOOLEAN
    /\ limiter = FALSE
    /\ reloaded = FALSE
    /\ panicked = FALSE /\ joins = 0

\* The start of main: init has read the configuration, and the bucket is made if
\* the limit is on.
AdmissionInit ==
    /\ Init
    /\ overloaded = FALSE /\ IsAlive = TRUE
    /\ limitEnabled \in BOOLEAN
    /\ limiter = limitEnabled
    /\ reloaded = FALSE
    /\ panicked = FALSE /\ joins = 0

\* setupConfigFromViper after a change of the file.  Max_rate may change too, but
\* the bucket stays what it is.  The observer counts only while the limit is on.
Reload(enable) ==
    /\ limitEnabled' = enable
    /\ reloaded' = TRUE
    /\ \/ limitEnabled /\ enable /\ UNCHANGED <<mark, joins>>
       \/ /\ ~(limitEnabled /\ enable)
          /\ mark' = [time |-> now, granted |-> granted]
          /\ joins' = 0
    /\ UNCHANGED <<now, bucketVars, granted, waits, nodeVars, limiter, panicked>>

\* Mutant: only a negative answer of the bucket refuses.
CheckLimitNegative ==
    /\ ~overloaded /\ IsAlive
    /\ limitEnabled /\ limiter
    /\ joins < MaxJoins
    /\ TakeAvailable(1)
    /\ joins' = IF Adjusted >= 0 THEN joins + 1 ELSE joins
    /\ UNCHANGED <<nodeVars, configVars, panicked>>

\* commonCheck.  A request it refuses for the CPU or Redis, or admits with the
\* limit off, changes nothing; with the limit on it admits when the bucket gave a token.
CheckLimit ==
    /\ ~overloaded /\ IsAlive
    /\ limitEnabled /\ limiter
    /\ joins < MaxJoins
    /\ TakeAvailable(1)
    /\ joins' = IF Adjusted > 0 THEN joins + 1 ELSE joins
    /\ UNCHANGED <<nodeVars, configVars, panicked>>

\* TakeAvailable on a nil *Bucket locks a mutex at address 0.  net/http recovers
\* the panic and drops the request.
CheckNil ==
    /\ ~overloaded /\ IsAlive
    /\ limitEnabled /\ ~limiter
    /\ panicked' = TRUE
    /\ UNCHANGED <<vars, nodeVars, configVars, joins>>

\* The CPU average crosses the limit, or the Redis breaker opens or closes.
NodeChanges ==
    /\ overloaded' \in BOOLEAN
    /\ IsAlive' \in BOOLEAN
    /\ UNCHANGED <<vars, configVars, historyVars>>

\* Other callers of the bucket, if there is one, and time.  The observer's mark
\* starts joins anew.
BucketStep ==
    /\ Next
    /\ limiter \/ UNCHANGED <<bucketVars, granted>>
    /\ joins' = IF mark' = mark THEN joins ELSE 0
    /\ UNCHANGED <<nodeVars, configVars, panicked>>

AdmissionNext ==
    \/ \E enable \in BOOLEAN : Reload(enable)
    \/ CheckLimit
    \/ CheckNil
    \/ NodeChanges
    \/ BucketStep

AdmissionSpec == AdmissionInit /\ [][AdmissionNext]_admissionVars

-------------------------------------------------------------------------------
(* Properties.                                                               *)

\* While the limit is on, the requests admitted from any moment on are at most
\* one full bucket and a quantum for every tick since, however often the limit
\* was switched before and whatever else the checks refused.
JoinsWithinRate ==
    joins <= capacity + quantum * (currentTick - mark.time \div fillInterval)

\* A request meets a nil limiter only on a node that was started with the limit
\* off and whose configuration was changed while it ran.
NilNeedsReload ==
    panicked => reloaded /\ ~limiter
===============================================================================
