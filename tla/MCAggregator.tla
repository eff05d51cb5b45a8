----------------------------- MODULE MCAggregator -----------------------------
(***************************************************************************)
(* Aggregator for TLC.  Signals are interchangeable, and so are those who  *)
(* stop: every behaviour is one in which they come in the order of their   *)
(* numbers, up to renaming.  TLC's own symmetry does not go with liveness. *)
(***************************************************************************)
EXTENDS Aggregator

InOrder ==
    /\ \A i, j \in Items : i < j /\ item[j] /= "new" => item[i] /= "new"
    /\ \A s, t \in Stoppers : s < t /\ stopper[t] /= "idle" => stopper[s] /= "idle"

OrderedSpec == Init /\ [][Next /\ InOrder']_vars /\ Fairness
===============================================================================
