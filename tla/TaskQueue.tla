----------------------------- MODULE TaskQueue -----------------------------
(***************************************************************************)
(* The bounded multi-producer / multi-consumer ring of src/task-queue.hh   *)
(* (class TaskQueue; TaskQueueFunc is the same code over std::function).   *)
(*                                                                         *)
(* One action is one access to shared memory: a load of a position, a load *)
(* of a cell's sequence number, a compare-exchange, a payload access or a  *)
(* sequence store.  A thread may be preempted between any two of them, so  *)
(* the value it tests may be stale when it is used.  Positions are natural *)
(* numbers here: the code's size_t would need 2^64 claims to wrap.          *)
(***************************************************************************)
EXTENDS Integers, Sequences

CONSTANTS Threads,    \* threads that call Push, Pop and Size
          Tasks,      \* task items (function pointer and user data)
          NoTask,     \* the null item: an empty cell, a null function pointer
          Capacity,   \* number of cells, a power of two in the code
          MaxPush     \* bound: no Push starts once this many were claimed

ASSUME CapacityAssumption == Capacity \in Nat \ {0}
ASSUME MaxPushAssumption  == MaxPush \in Nat
ASSUME TasksAssumption    == NoTask \notin Tasks

VARIABLES seq,        \* Cell::sequence of every cell
          data,       \* Cell::data of every cell
          writePos,   \* _write_pos
          readPos,    \* _read_pos
          pc,         \* where each thread is in its call
          pos,        \* the local `pos` (and `w` in Size) of each thread
          arg,        \* the item a thread's Push was called with
          got,        \* the item a thread's last Pop stored in its out parameter
          log         \* history: items in the order Push claimed positions

cellVars == <<seq, data>>
vars == <<seq, data, writePos, readPos, pc, pos, arg, got, log>>

Cells   == 0 .. Capacity - 1
Cell(p) == p % Capacity
Items   == Tasks \cup {NoTask}

PushLabels == {"push_check", "push_reload", "push_cas", "push_write", "push_publish"}
PopLabels  == {"pop_check", "pop_reload", "pop_cas", "pop_read", "pop_recycle"}
Labels     == {"idle", "size_read"} \cup PushLabels \cup PopLabels

TypeOK ==
  /\ seq \in [Cells -> Nat]
  /\ data \in [Cells -> Items]
  /\ writePos \in Nat
  /\ readPos \in Nat
  /\ pc \in [Threads -> Labels]
  /\ pos \in [Threads -> Nat]
  /\ arg \in [Threads -> Items]
  /\ got \in [Threads -> Items]
  /\ log \in Seq(Tasks)

Init ==
  /\ seq = [i \in Cells |-> i]
  /\ data = [i \in Cells |-> NoTask]
  /\ writePos = 0
  /\ readPos = 0
  /\ pc = [t \in Threads |-> "idle"]
  /\ pos = [t \in Threads |-> 0]
  /\ arg = [t \in Threads |-> NoTask]
  /\ got = [t \in Threads |-> NoTask]
  /\ log = << >>

Goto(t, label) == pc' = [pc EXCEPT ![t] = label]

\* The call of thread t ends: its locals are gone.
Return(t) ==
  /\ Goto(t, "idle")
  /\ pos' = [pos EXCEPT ![t] = 0]
  /\ arg' = [arg EXCEPT ![t] = NoTask]

-----------------------------------------------------------------------------
(* Push.  A null function pointer makes Push return false before it touches *)
(* the queue, so only items of Tasks enter here.                            *)

PushStart(t, item) ==
  /\ pc[t] = "idle"
  /\ writePos < MaxPush
  /\ pos' = [pos EXCEPT ![t] = writePos]
  /\ arg' = [arg EXCEPT ![t] = item]
  /\ Goto(t, "push_check")
  /\ UNCHANGED <<seq, data, writePos, readPos, got, log>>

\* Mutant: an occupied cell is taken for a free one.
PushSeesFreeUnchecked(t) ==
  /\ pc[t] = "push_check"
  /\ seq[Cell(pos[t])] <= pos[t]
  /\ Goto(t, "push_cas")
  /\ UNCHANGED <<seq, data, writePos, readPos, pos, arg, got, log>>

\* diff == 0: the cell is free for this position.
PushSeesFree(t) ==
  /\ pc[t] = "push_check"
  /\ seq[Cell(pos[t])] = pos[t]
  /\ Goto(t, "push_cas")
  /\ UNCHANGED <<seq, data, writePos, readPos, pos, arg, got, log>>

\* diff < 0: Push returns false.
PushSeesFull(t) ==
  /\ pc[t] = "push_check"
  /\ seq[Cell(pos[t])] < pos[t]
  /\ Return(t)
  /\ UNCHANGED <<seq, data, writePos, readPos, got, log>>

\* diff > 0: another producer claimed the position.
PushSeesTaken(t) ==
  /\ pc[t] = "push_check"
  /\ seq[Cell(pos[t])] > pos[t]
  /\ Goto(t, "push_reload")
  /\ UNCHANGED <<seq, data, writePos, readPos, pos, arg, got, log>>

PushReload(t) ==
  /\ pc[t] = "push_reload"
  /\ pos' = [pos EXCEPT ![t] = writePos]
  /\ Goto(t, "push_check")
  /\ UNCHANGED <<seq, data, writePos, readPos, arg, got, log>>

\* Mutant: a plain store instead of the compare-exchange.
PushClaimStore(t) ==
  /\ pc[t] = "push_cas"
  /\ writePos' = pos[t] + 1
  /\ log' = Append(log, arg[t])
  /\ Goto(t, "push_write")
  /\ UNCHANGED <<seq, data, readPos, pos, arg, got>>

PushClaim(t) ==
  /\ pc[t] = "push_cas"
  /\ writePos = pos[t]
  /\ writePos' = pos[t] + 1
  /\ log' = Append(log, arg[t])
  /\ Goto(t, "push_write")
  /\ UNCHANGED <<seq, data, readPos, pos, arg, got>>

\* compare_exchange_weak fails, spuriously or not, and reloads `pos`.
PushClaimFails(t) ==
  /\ pc[t] = "push_cas"
  /\ pos' = [pos EXCEPT ![t] = writePos]
  /\ Goto(t, "push_check")
  /\ UNCHANGED <<seq, data, writePos, readPos, arg, got, log>>

PushWrite(t) ==
  /\ pc[t] = "push_write"
  /\ data' = [data EXCEPT ![Cell(pos[t])] = arg[t]]
  /\ Goto(t, "push_publish")
  /\ UNCHANGED <<seq, writePos, readPos, pos, arg, got, log>>

\* Mutant: the sequence is stored without the + 1 that publishes the cell.
PushPublishNothing(t) ==
  /\ pc[t] = "push_publish"
  /\ seq' = [seq EXCEPT ![Cell(pos[t])] = pos[t]]
  /\ Return(t)
  /\ UNCHANGED <<data, writePos, readPos, got, log>>

PushPublish(t) ==
  /\ pc[t] = "push_publish"
  /\ seq' = [seq EXCEPT ![Cell(pos[t])] = pos[t] + 1]
  /\ Return(t)
  /\ UNCHANGED <<data, writePos, readPos, got, log>>

-----------------------------------------------------------------------------
(* Pop. *)

PopStart(t) ==
  /\ pc[t] = "idle"
  /\ pos' = [pos EXCEPT ![t] = readPos]
  /\ Goto(t, "pop_check")
  /\ UNCHANGED <<seq, data, writePos, readPos, arg, got, log>>

PopSeesPublished(t) ==
  /\ pc[t] = "pop_check"
  /\ seq[Cell(pos[t])] = pos[t] + 1
  /\ Goto(t, "pop_cas")
  /\ UNCHANGED <<seq, data, writePos, readPos, pos, arg, got, log>>

\* diff < 0: Pop returns false.
PopSeesEmpty(t) ==
  /\ pc[t] = "pop_check"
  /\ seq[Cell(pos[t])] < pos[t] + 1
  /\ Return(t)
  /\ UNCHANGED <<seq, data, writePos, readPos, got, log>>

PopSeesTaken(t) ==
  /\ pc[t] = "pop_check"
  /\ seq[Cell(pos[t])] > pos[t] + 1
  /\ Goto(t, "pop_reload")
  /\ UNCHANGED <<seq, data, writePos, readPos, pos, arg, got, log>>

PopReload(t) ==
  /\ pc[t] = "pop_reload"
  /\ pos' = [pos EXCEPT ![t] = readPos]
  /\ Goto(t, "pop_check")
  /\ UNCHANGED <<seq, data, writePos, readPos, arg, got, log>>

\* Mutant: a plain store instead of the compare-exchange.
PopClaimStore(t) ==
  /\ pc[t] = "pop_cas"
  /\ readPos' = pos[t] + 1
  /\ Goto(t, "pop_read")
  /\ UNCHANGED <<seq, data, writePos, pos, arg, got, log>>

PopClaim(t) ==
  /\ pc[t] = "pop_cas"
  /\ readPos = pos[t]
  /\ readPos' = pos[t] + 1
  /\ Goto(t, "pop_read")
  /\ UNCHANGED <<seq, data, writePos, pos, arg, got, log>>

PopClaimFails(t) ==
  /\ pc[t] = "pop_cas"
  /\ pos' = [pos EXCEPT ![t] = readPos]
  /\ Goto(t, "pop_check")
  /\ UNCHANGED <<seq, data, writePos, readPos, arg, got, log>>

PopRead(t) ==
  /\ pc[t] = "pop_read"
  /\ got' = [got EXCEPT ![t] = data[Cell(pos[t])]]
  /\ Goto(t, "pop_recycle")
  /\ UNCHANGED <<seq, data, writePos, readPos, pos, arg, log>>

PopRecycle(t) ==
  /\ pc[t] = "pop_recycle"
  /\ seq' = [seq EXCEPT ![Cell(pos[t])] = pos[t] + Capacity]
  /\ Return(t)
  /\ UNCHANGED <<data, writePos, readPos, got, log>>

-----------------------------------------------------------------------------
(* Size: the write position is loaded first, the read position second. *)

SizeStart(t) ==
  /\ pc[t] = "idle"
  /\ pos' = [pos EXCEPT ![t] = writePos]
  /\ Goto(t, "size_read")
  /\ UNCHANGED <<seq, data, writePos, readPos, arg, got, log>>

\* Mutant: without the comparison, the unsigned difference wraps.
SizeResultUnguarded(t) == pos[t] - readPos

\* What Size returns if its second load happens now.
SizeResult(t) == IF pos[t] >= readPos THEN pos[t] - readPos ELSE 0

SizeReturn(t) ==
  /\ pc[t] = "size_read"
  /\ Return(t)
  /\ UNCHANGED <<seq, data, writePos, readPos, got, log>>

-----------------------------------------------------------------------------

PushStep(t) ==
  \/ PushSeesFree(t) \/ PushSeesFull(t) \/ PushSeesTaken(t) \/ PushReload(t)
  \/ PushClaim(t) \/ PushClaimFails(t) \/ PushWrite(t) \/ PushPublish(t)

PopStep(t) ==
  \/ PopSeesPublished(t) \/ PopSeesEmpty(t) \/ PopSeesTaken(t) \/ PopReload(t)
  \/ PopClaim(t) \/ PopClaimFails(t) \/ PopRead(t) \/ PopRecycle(t)

Next ==
  \E t \in Threads :
    \/ \E item \in Tasks : PushStart(t, item)
    \/ PushStep(t)
    \/ PopStart(t)
    \/ PopStep(t)
    \/ SizeStart(t)
    \/ SizeReturn(t)

Spec == Init /\ [][Next]_vars

-----------------------------------------------------------------------------
(* A producer owns a position from its claim to its publication; a consumer *)
(* from its claim to the recycling of the cell.                             *)

Producing(t) == pc[t] \in {"push_write", "push_publish"}
Consuming(t) == pc[t] \in {"pop_read", "pop_recycle"}

\* The number of claimed and not yet popped positions never exceeds the ring,
\* and never goes negative: Push on a full queue fails ("false if queue is
\* full") and Pop never gets ahead of Push, whatever the interleaving.
NeverOverfull == readPos <= writePos /\ writePos <= readPos + Capacity

\* No two threads are at their payload accesses of one cell, unless both read:
\* "the payload itself is never accessed concurrently" (header comment).
NoPayloadRace ==
  \A t, u \in Threads :
    t # u /\ pc[t] = "push_write" /\ pc[u] \in {"push_write", "pop_read"}
      => Cell(pos[t]) # Cell(pos[u])

\* A Pop that claimed position p returns the item that the Push which claimed
\* p was given: no item is lost, duplicated, torn or delivered out of order.
DeliversClaimedItem ==
  \A t \in Threads : pc[t] = "pop_recycle" => got[t] = log[pos[t] + 1]

\* No position is handed to two producers or to two consumers.
OneOwnerPerPosition ==
  \A t, u \in Threads :
    t # u /\ (\/ Producing(t) /\ Producing(u)
              \/ Consuming(t) /\ Consuming(u)) => pos[t] # pos[u]

\* Push gives up only when the cell it needs, the one of position
\* writePos - Capacity, is still occupied: not popped yet, or popped by a
\* consumer that has not recycled it yet; Pop only when nothing is queued or
\* the oldest item is claimed by a producer that has not published it ("empty,
\* or producer mid-publish").
FailsOnlyWhenBlocked ==
  [][\A t \in Threads :
       /\ PushSeesFull(t) =>
            \/ writePos - readPos = Capacity
            \/ \E u \in Threads : Consuming(u) /\ pos[u] = writePos - Capacity
       /\ PopSeesEmpty(t) =>
            \/ writePos = readPos
            \/ \E u \in Threads : Producing(u) /\ pos[u] = readPos]_vars

\* Size, though its two loads are not atomic, never underflows and never
\* exceeds Capacity().
SizeIsPlausible ==
  \A t \in Threads : pc[t] = "size_read" => SizeResult(t) \in 0 .. Capacity

-----------------------------------------------------------------------------
(* The abstract queue: its content is the claimed and not yet popped part of *)
(* the log; a Pop takes effect at its claim, before it has read the payload. *)

Fifo == INSTANCE BoundedFifo WITH
          queue <- SubSeq(log, readPos + 1, writePos),
          held  <- [t \in Threads |->
                      IF pc[t] = "pop_read" THEN log[pos[t] + 1] ELSE got[t]]

\* The ring is a bounded FIFO queue: Push takes effect when it claims a
\* position, Pop when it claims one, and every other step is invisible.
ImplementsFifo == Fifo!Spec
=============================================================================
