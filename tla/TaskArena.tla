----------------------------- MODULE TaskArena -----------------------------
(***************************************************************************)
(* next::TaskArena of src/next/execution.{hh,cc}: a persistent pool whose  *)
(* Run(count, task) shares the indices 0 .. count-1 among the calling      *)
(* thread and all workers through one atomic counter.                      *)
(*                                                                         *)
(* An action is a critical section of `mu`, or one access outside of it to *)
(* a variable that other threads write.  Every call of Run is a thread of  *)
(* its own here; calls that one thread makes in sequence are among the     *)
(* interleavings.                                                          *)
(***************************************************************************)
EXTENDS Integers, FiniteSets

CONSTANTS Calls,       \* calls of Run
          Workers,     \* the max_threads - 1 worker threads
          ItemCount,   \* ItemCount[k]: the item_count of call k
          NoCall

ASSUME ItemCountAssumption == ItemCount \in [Calls -> Nat]
ASSUME WorkersAssumption   == IsFiniteSet(Workers) /\ Workers \cap Calls = {}
ASSUME NoCallAssumption    == NoCall \notin Calls

Threads  == Calls \cup Workers
Items(k) == 0 .. ItemCount[k] - 1

VARIABLES runMu,       \* the call that holds run_mu, or NoCall
          generation, count, task, next, active, stopping,   \* Impl's members
          pc,          \* where each thread is
          index,       \* the local `index` (and `i`) of each thread
          observed,    \* observed_generation of each worker
          started,     \* history: indices whose task was entered, per call
          finished,    \* history: indices whose task returned, per call
          entries,     \* history: how often a task was entered, per call
          returns      \* history: how often a task returned, per call

arenaVars == <<generation, count, task, active, stopping>>
history   == <<started, finished, entries, returns>>
vars == <<runMu, arenaVars, next, pc, index, observed, history>>

CallLabels   == {"new", "acquire", "publish", "notify", "wait", "asleep_done",
                 "inline", "inline_run", "returned"}
WorkerLabels == {"lock", "asleep_work", "leave", "exited"}
LoopLabels   == {"fetch", "compare", "call", "run"}

TypeOK ==
  /\ runMu \in Calls \cup {NoCall}
  /\ generation \in Nat /\ count \in Nat /\ next \in Nat /\ active \in Nat
  /\ task \in Calls \cup {NoCall}
  /\ stopping \in BOOLEAN
  /\ pc \in [Threads -> CallLabels \cup WorkerLabels \cup LoopLabels]
  /\ index \in [Threads -> Nat]
  /\ observed \in [Workers -> Nat]
  /\ started \in [Calls -> SUBSET Nat]
  /\ finished \in [Calls -> SUBSET Nat]
  /\ entries \in [Calls -> Nat]
  /\ returns \in [Calls -> Nat]

Init ==
  /\ runMu = NoCall
  /\ generation = 0 /\ count = 0 /\ next = 0 /\ active = 0
  /\ task = NoCall
  /\ stopping = FALSE
  /\ pc = [t \in Threads |-> IF t \in Calls THEN "new" ELSE "lock"]
  /\ index = [t \in Threads |-> 0]
  /\ observed = [w \in Workers |-> 0]
  /\ started = [k \in Calls |-> {}]
  /\ finished = [k \in Calls |-> {}]
  /\ entries = [k \in Calls |-> 0]
  /\ returns = [k \in Calls |-> 0]

Entered(k, n) == /\ started' = [started EXCEPT ![k] = @ \cup {n}]
                 /\ entries' = [entries EXCEPT ![k] = @ + 1]
                 /\ UNCHANGED <<finished, returns>>

Returned(k, n) == /\ finished' = [finished EXCEPT ![k] = @ \cup {n}]
                  /\ returns' = [returns EXCEPT ![k] = @ + 1]
                  /\ UNCHANGED <<started, entries>>

Goto(t, label) == pc' = [pc EXCEPT ![t] = label]

-----------------------------------------------------------------------------
(* RunItems, by the thread of the call and by every worker. *)

\* Mutant: a load and a store in place of fetch_add; an increment may be lost.
FetchNotAtomic(t) ==
  /\ pc[t] = "fetch"
  /\ index' = [index EXCEPT ![t] = next]
  /\ next' \in {next, next + 1}
  /\ Goto(t, "compare")
  /\ UNCHANGED <<runMu, arenaVars, observed, history>>

Fetch(t) ==
  /\ pc[t] = "fetch"
  /\ index' = [index EXCEPT ![t] = next]
  /\ next' = next + 1
  /\ Goto(t, "compare")
  /\ UNCHANGED <<runMu, arenaVars, observed, history>>

\* `if (index >= count) return`, back into Run or into WorkerLoop.
Compare(t) ==
  /\ pc[t] = "compare"
  /\ Goto(t, IF index[t] < count THEN "call" ELSE IF t \in Calls THEN "wait" ELSE "leave")
  /\ UNCHANGED <<runMu, arenaVars, next, index, observed, history>>

\* task(index) is entered: the member `task` is read only now.
CallTask(t) ==
  /\ pc[t] = "call"
  /\ task # NoCall
  /\ Entered(task, index[t])
  /\ Goto(t, "run")
  /\ UNCHANGED <<runMu, arenaVars, next, index, observed>>

TaskReturns(t) ==
  /\ pc[t] = "run"
  /\ Returned(task, index[t])
  /\ Goto(t, "fetch")
  /\ UNCHANGED <<runMu, arenaVars, next, index, observed>>

-----------------------------------------------------------------------------
(* Run *)

\* An empty call returns at once; one item, or an arena without workers, is
\* run inline and takes no lock.
RunBegin(k) ==
  /\ pc[k] = "new"
  /\ ~stopping
  /\ Goto(k, CASE ItemCount[k] = 0 -> "returned"
               [] ItemCount[k] > 1 /\ Workers # {} -> "acquire"
               [] OTHER -> "inline")
  /\ UNCHANGED <<runMu, arenaVars, next, index, observed, history>>

AcquireRunMu(k) ==
  /\ pc[k] = "acquire"
  /\ runMu = NoCall
  /\ runMu' = k
  /\ Goto(k, "publish")
  /\ UNCHANGED <<arenaVars, next, index, observed, history>>

\* Mutant: one worker is not counted.
PublishOneShort(k) ==
  /\ pc[k] = "publish"
  /\ count' = ItemCount[k]
  /\ task' = k
  /\ next' = 0
  /\ active' = Cardinality(Workers) - 1
  /\ generation' = generation + 1
  /\ Goto(k, "notify")
  /\ UNCHANGED <<runMu, stopping, index, observed, history>>

Publish(k) ==
  /\ pc[k] = "publish"
  /\ count' = ItemCount[k]
  /\ task' = k
  /\ next' = 0
  /\ active' = Cardinality(Workers)
  /\ generation' = generation + 1
  /\ Goto(k, "notify")
  /\ UNCHANGED <<runMu, stopping, index, observed, history>>

\* work_cv.notify_all() after mu is released.
NotifyAll(k) ==
  /\ pc[k] = "notify"
  /\ pc' = [t \in Threads |-> CASE t = k -> "fetch"
                                [] pc[t] = "asleep_work" -> "lock"
                                [] OTHER -> pc[t]]
  /\ UNCHANGED <<runMu, arenaVars, next, index, observed, history>>

\* done_cv.wait under mu: the predicate fails, so the call sleeps.
WaitForWorkers(k) ==
  /\ pc[k] = "wait"
  /\ active # 0
  /\ Goto(k, "asleep_done")
  /\ UNCHANGED <<runMu, arenaVars, next, index, observed, history>>

\* The predicate holds: task is cleared, both locks are released.
RunReturn(k) ==
  /\ pc[k] = "wait"
  /\ active = 0
  /\ task' = NoCall
  /\ runMu' = NoCall
  /\ Goto(k, "returned")
  /\ UNCHANGED <<generation, count, active, stopping, next, index, observed, history>>

InlineCall(k) ==
  /\ pc[k] = "inline"
  /\ IF index[k] < ItemCount[k]
       THEN Entered(k, index[k]) /\ Goto(k, "inline_run")
       ELSE Goto(k, "returned") /\ UNCHANGED history
  /\ UNCHANGED <<runMu, arenaVars, next, index, observed>>

InlineReturns(k) ==
  /\ pc[k] = "inline_run"
  /\ Returned(k, index[k])
  /\ index' = [index EXCEPT ![k] = @ + 1]
  /\ Goto(k, "inline")
  /\ UNCHANGED <<runMu, arenaVars, next, observed>>

-----------------------------------------------------------------------------
(* WorkerLoop *)

\* work_cv.wait under mu: nothing to do, so the worker sleeps.
WorkerSleep(w) ==
  /\ pc[w] = "lock"
  /\ ~stopping /\ generation = observed[w]
  /\ Goto(w, "asleep_work")
  /\ UNCHANGED <<runMu, arenaVars, next, index, observed, history>>

WorkerJoinsRun(w) ==
  /\ pc[w] = "lock"
  /\ ~stopping /\ generation # observed[w]
  /\ observed' = [observed EXCEPT ![w] = generation]
  /\ Goto(w, "fetch")
  /\ UNCHANGED <<runMu, arenaVars, next, index, history>>

WorkerExit(w) ==
  /\ pc[w] = "lock"
  /\ stopping
  /\ Goto(w, "exited")
  /\ UNCHANGED <<runMu, arenaVars, next, index, observed, history>>

\* Mutant: the last worker does not notify done_cv.
WorkerLeaveSilently(w) ==
  /\ pc[w] = "leave"
  /\ active' = active - 1
  /\ Goto(w, "lock")
  /\ UNCHANGED <<runMu, generation, count, task, stopping, next, index, observed, history>>

\* --active_workers; the last worker notifies done_cv while it holds mu, and
\* goes round to wait for work.
WorkerLeave(w) ==
  /\ pc[w] = "leave"
  /\ active' = active - 1
  /\ pc' = [t \in Threads |->
              CASE t = w -> "lock"
                [] active' = 0 /\ pc[t] = "asleep_done" -> "wait"
                [] OTHER -> pc[t]]
  /\ UNCHANGED <<runMu, generation, count, task, stopping, next, index, observed, history>>

\* A wait on either condition variable may end without a notification.
SpuriousWakeup(t) ==
  /\ pc[t] \in {"asleep_work", "asleep_done"}
  /\ Goto(t, IF t \in Workers THEN "lock" ELSE "wait")
  /\ UNCHANGED <<runMu, arenaVars, next, index, observed, history>>

\* Mutant: the destructor does not notify work_cv.
DestroySilently ==
  /\ ~stopping
  /\ \A k \in Calls : pc[k] \in {"new", "returned"}
  /\ stopping' = TRUE
  /\ generation' = generation + 1
  /\ UNCHANGED <<runMu, count, task, active, next, pc, index, observed, history>>

\* ~Impl: no call of Run is in progress when the arena is destroyed.  The flag
\* is set and work_cv notified in one step (nothing else runs in between but
\* workers on their way to sleep, whose predicate is then true).
Destroy ==
  /\ ~stopping
  /\ \A k \in Calls : pc[k] \in {"new", "returned"}
  /\ stopping' = TRUE
  /\ generation' = generation + 1
  /\ pc' = [t \in Threads |-> IF pc[t] = "asleep_work" THEN "lock" ELSE pc[t]]
  /\ UNCHANGED <<runMu, count, task, active, next, index, observed, history>>

-----------------------------------------------------------------------------

Loop(t) == Fetch(t) \/ Compare(t) \/ CallTask(t) \/ TaskReturns(t)

Run(k) ==
  \/ RunBegin(k) \/ AcquireRunMu(k) \/ Publish(k) \/ NotifyAll(k)
  \/ WaitForWorkers(k) \/ RunReturn(k) \/ InlineCall(k) \/ InlineReturns(k)

WorkerLoop(w) == WorkerSleep(w) \/ WorkerJoinsRun(w) \/ WorkerExit(w) \/ WorkerLeave(w)

\* The arena is gone; what remains is to stutter.
Destroyed == stopping /\ (\A w \in Workers : pc[w] = "exited") /\ UNCHANGED vars

Next ==
  \/ \E t \in Threads : Loop(t) \/ SpuriousWakeup(t)
  \/ \E k \in Calls : Run(k)
  \/ \E w \in Workers : WorkerLoop(w)
  \/ Destroy
  \/ Destroyed

Safety == Init /\ [][Next]_vars

\* Every thread that can run is scheduled, tasks return, and run_mu is taken by
\* some waiting call; a spurious wakeup is never relied upon.
Fairness ==
  /\ \A t \in Threads : WF_vars(Loop(t))
  /\ \A k \in Calls : WF_vars(Run(k))
  /\ \A w \in Workers : WF_vars(WorkerLoop(w))

Spec == Safety /\ Fairness

-----------------------------------------------------------------------------

\* When a call republishes the members count, task and next, no worker is in
\* RunItems, where they are read without the lock.
PublishIsExclusive ==
  \A k \in Calls : pc[k] = "publish" =>
    \A w \in Workers : pc[w] \notin LoopLabels \cup {"leave"}

Status(k) == CASE pc[k] = "new" -> "new"
               [] pc[k] = "returned" -> "returned"
               [] OTHER -> "running"

For == INSTANCE ParallelFor WITH
         status <- [k \in Calls |-> Status(k)]

\* The arena is a parallel for: no item of a call is entered or left a second
\* time (`entries` and `returns` would rise without a first entry or return),
\* all of that happens while its call is running, and Run returns when every
\* item has finished.
ImplementsParallelFor == For!Spec

\* Every Run that was begun returns, also when several threads share an arena.
RunsReturn == \A k \in Calls : pc[k] # "new" ~> pc[k] = "returned"

\* The destructor's join returns: no worker sleeps through the stop flag.
WorkersExit == stopping ~> \A w \in Workers : pc[w] = "exited"
=============================================================================
