------------------------------ MODULE SignalPipe ------------------------------
(***************************************************************************)
(* What a node's aggregator promises to its users: a first-in first-out    *)
(* pipe.  Signals accepted from the callers leave in the order they were   *)
(* accepted, each exactly once, in batches of at most BatchSize, and as    *)
(* long as the pipe is open whatever is pending eventually leaves.         *)
(***************************************************************************)
EXTENDS Naturals, Sequences, Functions

CONSTANTS
    Items,      \* the signals
    BatchSize   \* upper bound on one batch

VARIABLES
    pending,    \* accepted and not yet handed on, oldest first
    handed,     \* handed on, in order
    closed      \* TRUE once the pipe was told to stop

pipeVars == <<pending, handed, closed>>

Init ==
    /\ pending = <<>>
    /\ handed = <<>>
    /\ closed = FALSE

Accept(i) ==
    /\ i \notin Range(pending) \cup Range(handed)
    /\ pending' = Append(pending, i)
    /\ UNCHANGED <<handed, closed>>

Hand(n) ==
    /\ n \in 1..BatchSize
    /\ n <= Len(pending)
    /\ handed' = handed \o SubSeq(pending, 1, n)
    /\ pending' = SubSeq(pending, n + 1, Len(pending))
    /\ UNCHANGED closed

Close ==
    /\ closed' = TRUE
    /\ UNCHANGED <<pending, handed>>

Next ==
    \/ \E i \in Items : Accept(i)
    \/ \E n \in 1..BatchSize : Hand(n)
    \/ Close

Deliver == ~closed /\ \E n \in 1..BatchSize : Hand(n)

SafeSpec == Init /\ [][Next]_pipeVars

Spec == SafeSpec /\ WF_pipeVars(Deliver)
===============================================================================
