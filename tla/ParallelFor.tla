---------------------------- MODULE ParallelFor ----------------------------
(***************************************************************************)
(* What Run(count, task) of a task arena promises its caller: task(0) to   *)
(* task(count - 1) are each called exactly once, between the call of Run   *)
(* and its return ("Run() is synchronous and preserves ownership of task   *)
(* state in the caller").                                                  *)
(***************************************************************************)
EXTENDS Naturals

CONSTANTS Calls,      \* the calls of Run
          ItemCount   \* ItemCount[k]: the count that call k passes

VARIABLES status,     \* "new", "running" or "returned", per call
          started,    \* the indices whose task has been entered, per call
          finished,   \* the indices whose task has returned, per call
          entries,    \* how often a task was entered, per call
          returns     \* how often a task returned, per call

items == <<started, finished, entries, returns>>
vars  == <<status, items>>

Items(k) == 0 .. ItemCount[k] - 1

Init == /\ status = [k \in Calls |-> "new"]
        /\ started = [k \in Calls |-> {}]
        /\ finished = [k \in Calls |-> {}]
        /\ entries = [k \in Calls |-> 0]
        /\ returns = [k \in Calls |-> 0]

Begin(k) == /\ status[k] = "new"
            /\ status' = [status EXCEPT ![k] = "running"]
            /\ UNCHANGED items

\* A call without items may return at once.
Skip(k) == /\ status[k] = "new"
           /\ Items(k) = {}
           /\ status' = [status EXCEPT ![k] = "returned"]
           /\ UNCHANGED items

\* An index is entered for the first time; entering it again would raise
\* `entries` and is no step of this specification.
Start(k, n) == /\ status[k] = "running"
               /\ n \in Items(k) \ started[k]
               /\ started' = [started EXCEPT ![k] = @ \cup {n}]
               /\ entries' = [entries EXCEPT ![k] = @ + 1]
               /\ UNCHANGED <<status, finished, returns>>

Finish(k, n) == /\ status[k] = "running"
                /\ n \in started[k] \ finished[k]
                /\ finished' = [finished EXCEPT ![k] = @ \cup {n}]
                /\ returns' = [returns EXCEPT ![k] = @ + 1]
                /\ UNCHANGED <<status, started, entries>>

End(k) == /\ status[k] = "running"
          /\ finished[k] = Items(k)
          /\ status' = [status EXCEPT ![k] = "returned"]
          /\ UNCHANGED items

Next == \E k \in Calls : \/ Begin(k) \/ Skip(k) \/ End(k)
                         \/ \E n \in Items(k) : Start(k, n) \/ Finish(k, n)

Spec == Init /\ [][Next]_vars
=============================================================================
