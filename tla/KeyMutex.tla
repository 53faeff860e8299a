------------------------------- MODULE KeyMutex -------------------------------
(* What a lock by key promises: one goroutine at a time is inside for a key. *)
EXTENDS Naturals

CONSTANTS Threads, LockKeys

VARIABLES at, key   \* of each goroutine: out, queued or in, and the key it asked for

Init ==
  /\ at = [t \in Threads |-> "out"]
  /\ key \in [Threads -> LockKeys]

Ask(t, k) ==
  /\ at[t] = "out"
  /\ at' = [at EXCEPT ![t] = "queued"] /\ key' = [key EXCEPT ![t] = k]

Enter(t) ==
  /\ at[t] = "queued" /\ \A u \in Threads : key[u] = key[t] => at[u] # "in"
  /\ at' = [at EXCEPT ![t] = "in"]
  /\ UNCHANGED key

Leave(t) ==
  /\ at[t] = "in"
  /\ at' = [at EXCEPT ![t] = "out"]
  /\ UNCHANGED key

\* Every step moves a goroutine.
Next ==
  \E t \in Threads :
    /\ at'[t] # at[t]
    /\ (\E k \in LockKeys : Ask(t, k)) \/ Enter(t) \/ Leave(t)

Spec == Init /\ [][Next]_<< at, key >>
=============================================================================
