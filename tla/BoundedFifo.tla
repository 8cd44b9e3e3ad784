---------------------------- MODULE BoundedFifo ----------------------------
(***************************************************************************)
(* What src/task-queue.hh promises its callers: a bounded queue that hands *)
(* each pushed item to exactly one popping thread, in the order in which   *)
(* the items entered.  Push and Pop are single steps here; a call that     *)
(* fails is a step that changes nothing.                                   *)
(***************************************************************************)
EXTENDS Integers, Sequences

CONSTANTS Threads, Tasks, NoTask, Capacity

VARIABLES queue,   \* the items in the queue, oldest first
          held     \* the item that each thread's last successful Pop returned

Init == /\ queue = << >>
        /\ held = [t \in Threads |-> NoTask]

Push(item) == /\ Len(queue) < Capacity
              /\ queue' = Append(queue, item)
              /\ UNCHANGED held

Pop(t) == /\ queue # << >>
          /\ held' = [held EXCEPT ![t] = Head(queue)]
          /\ queue' = Tail(queue)

Next == \/ \E item \in Tasks : Push(item)
        \/ \E t \in Threads : Pop(t)

Spec == Init /\ [][Next]_<<queue, held>>
=============================================================================
