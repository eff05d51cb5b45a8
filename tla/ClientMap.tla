------------------------------- MODULE ClientMap -------------------------------
(***************************************************************************)
(* What the hub's concurrent map promises to its callers: every operation  *)
(* on one key takes effect at one moment between its call and its return,  *)
(* on a single map from peer ids to clients, whatever runs beside it.      *)
(***************************************************************************)
CONSTANTS
    Keys, Clients,  \* peer ids, and the clients stored under them
    Callers,        \* each makes one call
    Kinds,          \* the operations
    Nil             \* no client

VARIABLES
    map,            \* the client under each key
    call            \* the call of each caller

mapVars == <<map, call>>

\* What an operation leaves under its key where it finds v.  Upsert stands for a
\* callback that keeps a client that exists, RemoveCb for one that agrees to the
\* removal, and Look for one that does not.
Effect(kind, v, new) ==
    CASE kind = "Set" -> new
      [] kind \in {"SetIfAbsent", "Upsert"} -> IF v = Nil THEN new ELSE v
      [] kind \in {"Remove", "RemoveCb", "Pop"} -> Nil
      [] kind \in {"Look", "Get"} -> v

\* What it answers.
Answer(kind, v, new) ==
    CASE kind \in {"Get", "Pop"} -> v
      [] kind = "SetIfAbsent" -> v = Nil
      [] kind = "Upsert" -> Effect(kind, v, new)
      [] kind \in {"RemoveCb", "Look"} -> kind = "RemoveCb"
      [] kind \in {"Set", "Remove"} -> Nil

NoCall == [state |-> "idle", kind |-> Nil, key |-> Nil, new |-> Nil, answer |-> Nil]

Begin(c) ==
    /\ call[c].state = "idle"
    /\ UNCHANGED map
    /\ \E kind \in Kinds, k \in Keys, v \in Clients :
          call' = [call EXCEPT ![c] = [NoCall EXCEPT !.state = "called", !.kind = kind,
                                                     !.key = k, !.new = v]]

Perform(c) ==
    /\ call[c].state = "called"
    /\ LET k == call[c].key IN
       /\ map' = [map EXCEPT ![k] = Effect(call[c].kind, @, call[c].new)]
       /\ call' = [call EXCEPT ![c] = [NoCall EXCEPT
                      !.state = "done", !.answer = Answer(call[c].kind, map[k], call[c].new)]]

\* Somebody who empties the map removes one key at a time.
Drop(k) ==
    /\ map' = [map EXCEPT ![k] = Nil]
    /\ UNCHANGED call

Init ==
    /\ map \in [Keys -> Clients \cup {Nil}]
    /\ call = [c \in Callers |-> NoCall]

Next ==
    \/ \E c \in Callers : Begin(c) \/ Perform(c)
    \/ \E k \in Keys : Drop(k)

Spec == Init /\ [][Next]_mapVars
===============================================================================
