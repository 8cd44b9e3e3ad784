--------------------------- MODULE ParallelPrint ---------------------------
(***************************************************************************)
(* print_prims_parallel and its three siblings in                          *)
(* src/prim-pprint-parallel.cc: the calling thread pushes one task per     *)
(* prim into a TaskQueue, worker threads pop and run them, and the caller  *)
(* joins the workers and concatenates the output buffers.  The queue's own *)
(* steps are those of TaskQueue; this module adds the control around them. *)
(***************************************************************************)
EXTENDS TaskQueue

CONSTANTS Main,       \* the calling thread
          Workers     \* config.num_threads worker threads

ASSUME ThreadsAssumption == Main \notin Workers /\ Threads = Workers \cup {Main}
ASSUME PrimsAssumption   == Tasks = 1 .. MaxPush

NumPrims == MaxPush

VARIABLES i,             \* the producer loop's index, from 1
          producerDone,  \* producer_done
          wpc,           \* where each thread is in the code around the queue
          printed,       \* how often outputs[n] was written
          entries,       \* history: how often print_prim_worker was entered
          returns        \* history: how often it returned

history   == <<entries, returns>>
printVars == <<i, producerDone, wpc, printed, history>>
allVars == <<vars, printVars>>

PrintInit ==
  /\ Init
  /\ i = 1
  /\ producerDone = FALSE
  /\ wpc = [t \in Threads |-> IF t = Main THEN "push" ELSE "test"]
  /\ printed = [n \in Tasks |-> 0]
  /\ entries = 0 /\ returns = 0

WGoto(t, label) == wpc' = [wpc EXCEPT ![t] = label]

-----------------------------------------------------------------------------
(* The producer: while (!queue.Push(...)) yield(), for every task. *)

ProducerPush ==
  /\ wpc[Main] = "push"
  /\ i <= NumPrims
  /\ PushStart(Main, i)
  /\ UNCHANGED printVars

\* Mutant: the first task is pushed a second time after a Push that succeeded.
ProducerPushedTwice ==
  /\ PushPublish(Main)
  /\ i' = IF writePos > i THEN i + 1 ELSE i
  /\ UNCHANGED <<producerDone, wpc, printed, history>>

ProducerPushed ==
  /\ PushPublish(Main)
  /\ i' = i + 1
  /\ UNCHANGED <<producerDone, wpc, printed, history>>

\* Every other step of Push; when it returns false the loop calls it again.
ProducerInPush ==
  /\ PushStep(Main)
  /\ pc[Main] # "push_publish"
  /\ UNCHANGED printVars

\* Mutant: producer_done is never stored.
ProducerDoneUnset ==
  /\ wpc[Main] = "push"
  /\ i > NumPrims
  /\ WGoto(Main, "join")
  /\ UNCHANGED <<vars, i, producerDone, printed, history>>

ProducerDone ==
  /\ wpc[Main] = "push"
  /\ i > NumPrims
  /\ producerDone' = TRUE
  /\ WGoto(Main, "join")
  /\ UNCHANGED <<vars, i, printed, history>>

\* All workers joined: the outputs are concatenated in order and returned.
Join ==
  /\ wpc[Main] = "join"
  /\ \A w \in Workers : wpc[w] = "exited"
  /\ WGoto(Main, "returned")
  /\ UNCHANGED <<vars, i, producerDone, printed, history>>

-----------------------------------------------------------------------------
(* A worker: while (!producer_done || !queue.Empty()) { if (Pop) run }. *)

\* Mutant: the loop condition is !producer_done alone.
WorkerTestIgnoresQueue(w) ==
  /\ wpc[w] = "test"
  /\ WGoto(w, IF producerDone THEN "exited" ELSE "pop")
  /\ UNCHANGED <<vars, i, producerDone, printed, history>>

WorkerTest(w) ==
  /\ wpc[w] = "test"
  /\ WGoto(w, IF producerDone THEN "empty" ELSE "pop")
  /\ UNCHANGED <<vars, i, producerDone, printed, history>>

WorkerSize(w) ==
  /\ wpc[w] = "empty"
  /\ SizeStart(w)
  /\ UNCHANGED printVars

WorkerEmpty(w) ==
  /\ wpc[w] = "empty"
  /\ SizeReturn(w)
  /\ WGoto(w, IF SizeResult(w) = 0 THEN "exited" ELSE "pop")
  /\ UNCHANGED <<i, producerDone, printed, history>>

WorkerPop(w) ==
  /\ wpc[w] = "pop"
  /\ PopStart(w)
  /\ UNCHANGED printVars

WorkerInPop(w) ==
  /\ PopStep(w)
  /\ pc'[w] # "idle"
  /\ UNCHANGED printVars

\* Pop returned false: yield and test the loop condition again.
WorkerPopFailed(w) ==
  /\ PopSeesEmpty(w)
  /\ WGoto(w, "test")
  /\ UNCHANGED <<i, producerDone, printed, history>>

WorkerPopped(w) ==
  /\ PopRecycle(w)
  /\ WGoto(w, "run")
  /\ entries' = entries + 1
  /\ UNCHANGED <<i, producerDone, printed, returns>>

WorkerRun(w) ==
  /\ wpc[w] = "run"
  /\ printed' = [printed EXCEPT ![got[w]] = @ + 1]
  /\ returns' = returns + 1
  /\ WGoto(w, "test")
  /\ UNCHANGED <<vars, i, producerDone, entries>>

-----------------------------------------------------------------------------

Producer == ProducerPush \/ ProducerPushed \/ ProducerInPush \/ ProducerDone \/ Join

Worker(w) ==
  \/ WorkerTest(w) \/ WorkerSize(w) \/ WorkerEmpty(w) \/ WorkerPop(w) \/ WorkerInPop(w)
  \/ WorkerPopFailed(w) \/ WorkerPopped(w) \/ WorkerRun(w)

Finished == wpc[Main] = "returned" /\ UNCHANGED allVars

PrintNext == Producer \/ (\E w \in Workers : Worker(w)) \/ Finished

\* The scheduler runs every thread, and a weak compare-exchange does not fail
\* for ever while the position is the expected one.
PrintFairness ==
  /\ WF_allVars(Producer)
  /\ SF_allVars(PushClaim(Main) /\ UNCHANGED printVars)
  /\ \A w \in Workers : /\ WF_allVars(Worker(w))
                        /\ SF_allVars(PopClaim(w) /\ UNCHANGED printVars)

PrintSpec == PrintInit /\ [][PrintNext]_allVars /\ PrintFairness

-----------------------------------------------------------------------------

\* When the caller concatenates, every output buffer was written exactly once:
\* no prim is missing from the printed stage and none is printed by two threads.
OutputsComplete ==
  wpc[Main] = "returned" => \A n \in Tasks : printed[n] = 1

\* A worker leaves its loop only when every task was pushed and claimed, so a
\* late task is never left to no one.
ExitsOnlyWhenDrained ==
  \A w \in Workers : wpc[w] = "exited" => readPos = NumPrims

\* print_prims_parallel returns: no lost task, no worker spinning on a queue
\* that stays non-empty, no producer waiting for a slot that nobody recycles.
PrintTerminates == <>(wpc[Main] = "returned")

\* As a call that runs a loop body once per prim: which bodies were entered and
\* which have returned, and where the caller is.
Entered  == {n - 1 : n \in {m \in Tasks : printed[m] > 0 \/ \E w \in Workers : wpc[w] = "run" /\ got[w] = m}}
Complete == {n - 1 : n \in {m \in Tasks : printed[m] > 0}}
CallStatus == CASE wpc[Main] = "returned"               -> "returned"
                [] wpc[Main] = "push" /\ writePos = 0   -> "new"
                [] OTHER                                -> "running"

For == INSTANCE ParallelFor WITH
         Calls     <- {Main},
         ItemCount <- [k \in {Main} |-> NumPrims],
         status    <- [k \in {Main} |-> CallStatus],
         started   <- [k \in {Main} |-> Entered],
         finished  <- [k \in {Main} |-> Complete],
         entries   <- [k \in {Main} |-> entries],
         returns   <- [k \in {Main} |-> returns]

\* The printer is a parallel for over the prims, like the arenas: a worker never
\* enters print_prim_worker for a prim that it or another has entered (`entries`
\* would rise without a first entry), and the call returns when all have printed.
PrintsLikeParallelFor == For!Spec
=============================================================================
