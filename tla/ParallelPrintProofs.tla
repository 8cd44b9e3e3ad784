------------------------- MODULE ParallelPrintProofs -------------------------
(***************************************************************************)
(* The printer prints every prim once, for any number of prims, of workers *)
(* (at least one) and of cells (at least two).  The argument stands on the *)
(* queue's invariant: every step of the printer is a step of the queue or  *)
(* leaves it alone.                                                        *)
(***************************************************************************)
EXTENDS ParallelPrint, TaskQueueProofs

WorkerLabels == {"test", "empty", "pop", "run", "exited"}

\* A worker that has a task in its hands, and the task it has.
Carrying(w) == Consuming(w) \/ wpc[w] = "run"
Load(w)     == IF wpc[w] = "run" THEN got[w] ELSE pos[w] + 1

\* Where the threads are, and the prims pushed so far: the first i - 1 of them,
\* or i while Push has claimed a position for prim i and not yet published it.
Places ==
  /\ wpc \in [Threads -> WorkerLabels \cup {"push", "join", "returned"}]
  /\ i \in 1 .. NumPrims + 1 /\ producerDone \in BOOLEAN
  /\ wpc[Main] \in {"push", "join", "returned"}
  /\ pc[Main] \in {"idle"} \cup PushLabels
  /\ pc[Main] # "idle" => wpc[Main] = "push" /\ i <= NumPrims /\ arg[Main] = i
  /\ writePos = IF Producing(Main) THEN i ELSE i - 1
  /\ \A n \in 1 .. writePos : log[n] = n
  /\ producerDone <=> wpc[Main] # "push"
  /\ producerDone => i = NumPrims + 1
  /\ \A w \in Workers :
        /\ wpc[w] \in WorkerLabels
        /\ pc[w] \in {"idle", "size_read"} \cup PopLabels
        /\ pc[w] = "size_read" => wpc[w] = "empty" /\ pos[w] = NumPrims
        /\ pc[w] \in PopLabels => wpc[w] = "pop"
        /\ wpc[w] = "empty" => producerDone

\* Every claimed task is printed, or is in the hands of exactly one worker.
Ledger ==
  /\ printed \in [Tasks -> Nat]
  /\ \A n \in Tasks :
        /\ printed[n] <= 1 /\ (n > readPos => printed[n] = 0)
        /\ n <= readPos => printed[n] = 1 \/ \E w \in Workers : Carrying(w) /\ Load(w) = n
  /\ \A w \in Workers : Carrying(w) =>
        /\ Load(w) \in Tasks /\ Load(w) <= readPos /\ printed[Load(w)] = 0
        /\ \A v \in Workers \ {w} : Carrying(v) => Load(v) # Load(w)

Exits == /\ ExitsOnlyWhenDrained
         /\ wpc[Main] = "returned" => \A w \in Workers : wpc[w] = "exited"

PInv == IInv /\ Places /\ Ledger /\ Exits

\* What the steps below use of the queue's invariant and of the assumptions.
LEMMA Facts ==
  ASSUME PInv
  PROVE  /\ Main \in Threads /\ Main \notin Workers /\ Workers \subseteq Threads
         /\ \A t \in Threads : t = Main \/ t \in Workers
         /\ NumPrims \in Nat /\ Tasks = 1 .. NumPrims
         /\ readPos \in Nat /\ writePos \in Nat /\ readPos <= writePos /\ writePos <= NumPrims
         /\ pc \in [Threads -> Labels] /\ pos \in [Threads -> Nat]
         /\ arg \in [Threads -> Items] /\ got \in [Threads -> Items]
         /\ \A w \in Workers : /\ Consuming(w) => pos[w] < readPos
                               /\ pc[w] = "pop_recycle" => got[w] = pos[w] + 1
<1>1. /\ Main \in Threads /\ Main \notin Workers /\ Workers \subseteq Threads
      /\ \A t \in Threads : t = Main \/ t \in Workers
      /\ NumPrims \in Nat /\ Tasks = 1 .. NumPrims
  BY ThreadsAssumption, PrimsAssumption, MaxPushAssumption DEF NumPrims
<1>2. readPos \in Nat /\ writePos \in Nat /\ readPos <= writePos
  BY DEF PInv, IInv, TypeOK, RingInv, NeverOverfull
<1>3. i \in 1 .. NumPrims + 1 /\ (Producing(Main) => i <= NumPrims)
  BY DEF PInv, Places, Producing
<1>4. writePos <= NumPrims
  BY <1>1, <1>3 DEF PInv, Places
<1>5. ASSUME NEW w \in Workers
      PROVE  /\ Consuming(w) => pos[w] < readPos
             /\ pc[w] = "pop_recycle" => got[w] = pos[w] + 1
  <2>1. ThreadInv(w) /\ pos[w] \in Nat
    BY <1>1 DEF PInv, IInv, TypeOK
  <2>2. Consuming(w) => pos[w] < readPos
    BY <2>1 DEF ThreadInv
  <2>3. pc[w] = "pop_recycle" => pos[w] + 1 \in 1 .. writePos
    BY <1>2, <2>1, <2>2 DEF Consuming
  <2> QED BY <2>1, <2>2, <2>3 DEF ThreadInv, PInv, Places
<1> QED BY <1>1, <1>2, <1>4, <1>5 DEF PInv, IInv, TypeOK

\* At first the queue is empty and nothing is printed.
LEMMA InitPInv == PrintInit => PInv
<1> SUFFICES ASSUME PrintInit PROVE PInv
  OBVIOUS
<1> USE ThreadsAssumption, PrimsAssumption, MaxPushAssumption DEF NumPrims
<1>1. IInv
  BY InitIInv DEF PrintInit
<1>2. /\ writePos = 0 /\ readPos = 0 /\ i = 1 /\ producerDone = FALSE
      /\ pc = [t \in Threads |-> "idle"]
      /\ wpc = [t \in Threads |-> IF t = Main THEN "push" ELSE "test"]
      /\ printed = [n \in Tasks |-> 0]
  BY DEF PrintInit, Init
<1>3. Places
  <2>1. /\ wpc[Main] = "push" /\ pc[Main] = "idle" /\ i \in 1 .. NumPrims + 1
        /\ \A w \in Workers : wpc[w] = "test" /\ pc[w] = "idle"
    BY <1>2
  <2>2. wpc \in [Threads -> WorkerLabels \cup {"push", "join", "returned"}]
    BY <1>2 DEF WorkerLabels
  <2>3. writePos = (IF Producing(Main) THEN i ELSE i - 1) /\ \A n \in 1 .. writePos : log[n] = n
    BY <1>2, <2>1 DEF Producing
  <2> QED BY <1>2, <2>1, <2>2, <2>3 DEF Places, WorkerLabels, PushLabels, PopLabels
<1>4. \A w \in Workers : ~Carrying(w) /\ wpc[w] = "test"
  BY <1>2 DEF Carrying, Consuming
<1>5. Ledger
  BY <1>2, <1>4 DEF Ledger
<1>6. Exits
  BY <1>2, <1>4 DEF Exits, ExitsOnlyWhenDrained
<1> QED BY <1>1, <1>3, <1>5, <1>6 DEF PInv

\* Every step of the printer is one of the queue, or does not touch it.
LEMMA QueueStep == ASSUME PInv, [PrintNext]_allVars PROVE [Next]_vars
<1> USE Facts
<1>1. CASE Producer
  <2>1. ASSUME ProducerPush PROVE Next
    <3>1. i \in Tasks /\ PushStart(Main, i)
      BY <2>1 DEF PInv, Places, ProducerPush
    <3> QED BY <3>1 DEF Next
  <2> QED BY <1>1, <2>1 DEF Producer, ProducerPushed, ProducerInPush, ProducerDone, Join,
                            Next, PushStep
<1>2. ASSUME NEW w \in Workers, Worker(w) PROVE [Next]_vars
  BY <1>2 DEF Worker, WorkerTest, WorkerSize, WorkerEmpty, WorkerPop, WorkerInPop, WorkerPopFailed,
              WorkerPopped, WorkerRun, Next, PopStep
<1>3. CASE UNCHANGED allVars
  BY <1>3 DEF allVars
<1> QED BY <1>1, <1>2, <1>3 DEF PrintNext, Finished

-----------------------------------------------------------------------------
\* As long as nobody claims or prints, the ledger is what it was.
LEMMA LedgerKept ==
  ASSUME PInv, UNCHANGED <<readPos, printed>>,
         \A w \in Workers : (Carrying(w)' <=> Carrying(w)) /\ (Carrying(w) => Load(w)' = Load(w))
  PROVE  Ledger'
BY DEF PInv, Ledger

\* A step of the producer concerns no worker.
LEMMA ProducerLedger ==
  ASSUME PInv, UNCHANGED <<readPos, printed>>,
         \A w \in Workers : /\ pc'[w] = pc[w] /\ pos'[w] = pos[w]
                            /\ wpc'[w] = wpc[w] /\ got'[w] = got[w]
  PROVE  Ledger' /\ ExitsOnlyWhenDrained'
<1>1. \A w \in Workers : (Carrying(w)' <=> Carrying(w)) /\ Load(w)' = Load(w)
  BY DEF Carrying, Load, Consuming
<1>2. ExitsOnlyWhenDrained'
  BY DEF PInv, Exits, ExitsOnlyWhenDrained
<1> QED BY <1>1, <1>2, LedgerKept

\* A step inside Push; the claim appends the prim that is being pushed.
LEMMA ProducerInQueue ==
  ASSUME PInv, IInv', ProducerPush \/ ProducerPushed \/ ProducerInPush
  PROVE  PInv'
<1> USE Facts
<1>1. /\ UNCHANGED <<readPos, got, printed, producerDone, wpc>>
      /\ \A w \in Workers : pc'[w] = pc[w] /\ pos'[w] = pos[w]
  BY DEF ProducerPush, ProducerPushed, ProducerInPush, printVars, PushStart, PushStep, PushSeesFree,
         PushSeesFull, PushSeesTaken, PushReload, PushClaim, PushClaimFails, PushWrite, PushPublish,
         Goto, Return
<1>2. Ledger' /\ ExitsOnlyWhenDrained'
  BY <1>1, ProducerLedger
<1>3. wpc[Main] = "push"
  BY DEF ProducerPush, ProducerPushed, ProducerInPush, PushStep, PushSeesFree,
         PushSeesFull, PushSeesTaken, PushReload, PushClaim, PushClaimFails, PushWrite, PushPublish,
         PInv, Places
<1>4. /\ i' \in 1 .. NumPrims + 1
      /\ pc'[Main] \in {"idle"} \cup PushLabels
      /\ pc'[Main] # "idle" => i' <= NumPrims /\ arg'[Main] = i'
      /\ writePos' = IF Producing(Main)' THEN i' ELSE i' - 1
      /\ \A n \in 1 .. writePos' : log'[n] = n
  <2>0. /\ i \in 1 .. NumPrims + 1 /\ writePos = (IF Producing(Main) THEN i ELSE i - 1)
        /\ \A n \in 1 .. writePos : log[n] = n
        /\ pc[Main] # "idle" => i <= NumPrims /\ arg[Main] = i
    BY DEF PInv, Places
  <2>1. CASE ProducerPush
    BY <2>0, <2>1 DEF ProducerPush, PushStart, Goto, printVars, PushLabels, Producing
  <2>2. CASE ProducerPushed
    BY <2>0, <2>2 DEF ProducerPushed, PushPublish, Goto, Return, Producing
  <2>3. CASE ProducerInPush /\ ~PushClaim(Main)
    BY <2>0, <2>3 DEF ProducerInPush, printVars, PushStep, PushSeesFree,
         PushSeesFull, PushSeesTaken, PushReload, PushClaimFails, PushWrite, PushPublish,
         Goto, Return, Producing, PushLabels
  <2>4. CASE ProducerInPush /\ PushClaim(Main)
    <3>1. /\ pc[Main] = "push_cas" /\ pc'[Main] = "push_write" /\ UNCHANGED <<i, arg>>
          /\ writePos' = writePos + 1 /\ log' = Append(log, arg[Main])
      BY <2>4 DEF ProducerInPush, PushClaim, Goto, printVars
    <3>2. log \in Seq(Tasks) /\ Len(log) = writePos
      BY DEF PInv, IInv, TypeOK, RingInv
    <3>3. \A n \in 1 .. writePos + 1 : log'[n] = IF n = writePos + 1 THEN i ELSE log[n]
      BY <2>0, <3>1, <3>2
    <3> QED BY <2>0, <3>1, <3>3 DEF Producing, PushLabels
  <2> QED BY <2>1, <2>2, <2>3, <2>4
<1>5. Places'
  BY <1>1, <1>3, <1>4 DEF PInv, Places
<1>6. Exits'
  BY <1>1, <1>2 DEF PInv, Exits
<1> QED BY <1>2, <1>5, <1>6 DEF PInv

\* The producer sets producer_done after its last push and returns after the
\* last worker has left.
LEMMA ProducerEnds ==
  ASSUME PInv, IInv', ProducerDone \/ Join
  PROVE  PInv'
<1> USE Facts
<1>1. /\ UNCHANGED <<vars, i, printed>>
      /\ \A w \in Workers : wpc'[w] = wpc[w]
  BY DEF ProducerDone, Join, WGoto, PInv, Places
<1>2. Ledger' /\ ExitsOnlyWhenDrained'
  BY <1>1, ProducerLedger DEF vars
<1>3. i \in 1 .. NumPrims + 1 /\ (pc[Main] # "idle" => i <= NumPrims /\ wpc[Main] = "push")
  BY DEF PInv, Places
<1>4. /\ wpc' \in [Threads -> WorkerLabels \cup {"push", "join", "returned"}]
      /\ pc'[Main] = "idle" /\ wpc'[Main] \in {"join", "returned"}
      /\ producerDone' = TRUE /\ i = NumPrims + 1
      /\ wpc'[Main] = "returned" => \A w \in Workers : wpc[w] = "exited"
  <2>1. CASE ProducerDone
    BY <1>1, <1>3, <2>1 DEF ProducerDone, WGoto, PInv, Places, vars
  <2>2. CASE Join
    BY <1>1, <1>3, <2>2 DEF Join, WGoto, PInv, Places, vars
  <2> QED BY <2>1, <2>2
<1>5. Places'
  BY <1>1, <1>4 DEF PInv, Places, vars, Producing
<1>6. Exits'
  BY <1>1, <1>2, <1>4 DEF Exits
<1> QED BY <1>2, <1>5, <1>6 DEF PInv

-----------------------------------------------------------------------------
\* A step of worker w leaves the producer and the other workers where they are.
LEMMA WorkerPlaces ==
  ASSUME PInv, NEW w \in Workers,
         UNCHANGED <<writePos, log, i, producerDone>>,
         \A t \in Threads \ {w} : pc'[t] = pc[t] /\ pos'[t] = pos[t] /\ arg'[t] = arg[t] /\ wpc'[t] = wpc[t],
         wpc' \in [Threads -> WorkerLabels \cup {"push", "join", "returned"}],
         wpc'[w] \in WorkerLabels,
         pc'[w] \in {"idle", "size_read"} \cup PopLabels,
         pc'[w] = "size_read" => wpc'[w] = "empty" /\ pos'[w] = NumPrims,
         pc'[w] \in PopLabels => wpc'[w] = "pop",
         wpc'[w] = "empty" => producerDone
  PROVE  Places'
<1>1. /\ Main \in Threads \ {w} /\ \A v \in Workers \ {w} : v \in Threads \ {w}
  BY Facts
<1>2. Producing(Main)' <=> Producing(Main)
  BY <1>1 DEF Producing
<1> QED BY <1>1, <1>2 DEF PInv, Places

\* The steps of a worker that are no claim and print nothing.
LEMMA WorkerQuiet ==
  ASSUME PInv, IInv', NEW w \in Workers,
         \/ WorkerTest(w) \/ WorkerSize(w) \/ WorkerEmpty(w) \/ WorkerPop(w)
         \/ WorkerInPop(w) /\ ~PopClaim(w)
         \/ WorkerPopFailed(w) \/ WorkerPopped(w)
  PROVE  PInv'
<1> USE Facts
<1> USE DEF WGoto, Goto, Return
<1>1. /\ UNCHANGED <<writePos, readPos, log, i, producerDone, printed>>
      /\ \A t \in Threads \ {w} : pc'[t] = pc[t] /\ pos'[t] = pos[t] /\ arg'[t] = arg[t]
                                  /\ wpc'[t] = wpc[t] /\ got'[t] = got[t]
  <2>0. wpc \in [Threads -> WorkerLabels \cup {"push", "join", "returned"}]
    BY DEF PInv, Places
  <2>1. CASE WorkerTest(w)
    BY <2>0, <2>1 DEF WorkerTest, vars
  <2>2. CASE WorkerSize(w) \/ WorkerEmpty(w)
    BY <2>0, <2>2 DEF WorkerSize, WorkerEmpty, printVars, SizeStart, SizeReturn
  <2>3. CASE WorkerPop(w) \/ WorkerPopFailed(w) \/ WorkerPopped(w)
    BY <2>0, <2>3 DEF WorkerPop, WorkerPopFailed, WorkerPopped, printVars, PopStart, PopSeesEmpty, PopRecycle
  <2>4. CASE WorkerInPop(w) /\ ~PopClaim(w)
    BY <2>4 DEF WorkerInPop, printVars, PopStep, PopSeesPublished, PopSeesEmpty,
                PopSeesTaken, PopReload, PopClaimFails, PopRead, PopRecycle
  <2> QED BY <2>1, <2>2, <2>3, <2>4
<1>2. /\ wpc[w] \in WorkerLabels /\ wpc \in [Threads -> WorkerLabels \cup {"push", "join", "returned"}]
      /\ pc[w] \in {"idle", "size_read"} \cup PopLabels
      /\ pc[w] = "size_read" => wpc[w] = "empty" /\ pos[w] = NumPrims
      /\ pc[w] \in PopLabels => wpc[w] = "pop"
      /\ wpc[w] = "empty" => producerDone
      /\ producerDone => writePos = NumPrims
    BY DEF PInv, Places, Producing, PushLabels
<1>3. CASE WorkerTest(w)
  <2>1. /\ wpc[w] = "test" /\ pc'[w] = pc[w] /\ pos'[w] = pos[w] /\ pc[w] = "idle"
        /\ wpc'[w] \in {"empty", "pop"} /\ (wpc'[w] = "empty" => producerDone)
        /\ wpc' \in [Threads -> WorkerLabels \cup {"push", "join", "returned"}]
    BY <1>2, <1>3 DEF WorkerTest, vars, PopLabels, WorkerLabels
  <2>2. Places'
    BY <1>1, <2>1, WorkerPlaces DEF WorkerLabels, PopLabels
  <2>3. ~Carrying(w) /\ ~Carrying(w)'
    BY <2>1 DEF Carrying, Consuming
  <2>4. \A v \in Workers : (Carrying(v)' <=> Carrying(v)) /\ (Carrying(v) => Load(v)' = Load(v))
    BY <1>1, <2>3 DEF Carrying, Consuming, Load
  <2>5. Exits'
    BY <1>1, <2>1 DEF PInv, Exits, ExitsOnlyWhenDrained
  <2> QED BY <1>1, <2>2, <2>4, <2>5, LedgerKept DEF PInv
<1>4. CASE WorkerSize(w)
  <2>1. /\ wpc' = wpc /\ wpc[w] = "empty" /\ pc[w] = "idle" /\ pc'[w] = "size_read" /\ pos'[w] = writePos
    BY <1>4 DEF WorkerSize, SizeStart, printVars
  <2>2. Places'
    BY <1>1, <1>2, <2>1, WorkerPlaces DEF WorkerLabels, PopLabels
  <2>3. ~Carrying(w) /\ ~Carrying(w)'
    BY <2>1 DEF Carrying, Consuming
  <2>4. \A v \in Workers : (Carrying(v)' <=> Carrying(v)) /\ (Carrying(v) => Load(v)' = Load(v))
    BY <1>1, <2>3 DEF Carrying, Consuming, Load
  <2>5. Exits'
    BY <1>1, <2>1 DEF PInv, Exits, ExitsOnlyWhenDrained
  <2> QED BY <1>1, <2>2, <2>4, <2>5, LedgerKept DEF PInv
<1>5. CASE WorkerEmpty(w)
  <2>1. /\ wpc[w] = "empty" /\ pc[w] = "size_read" /\ pos[w] = NumPrims /\ pc'[w] = "idle"
        /\ wpc'[w] \in {"exited", "pop"} /\ (wpc'[w] = "exited" => SizeResult(w) = 0)
        /\ wpc' \in [Threads -> WorkerLabels \cup {"push", "join", "returned"}]
    BY <1>2, <1>5 DEF WorkerEmpty, SizeReturn, WorkerLabels
  <2>2. Places'
    BY <1>1, <2>1, WorkerPlaces DEF WorkerLabels, PopLabels
  <2>3. ~Carrying(w) /\ ~Carrying(w)'
    BY <2>1 DEF Carrying, Consuming
  <2>4. \A v \in Workers : (Carrying(v)' <=> Carrying(v)) /\ (Carrying(v) => Load(v)' = Load(v))
    BY <1>1, <2>3 DEF Carrying, Consuming, Load
  <2>5. wpc'[w] = "exited" => readPos = NumPrims
    BY <2>1 DEF SizeResult
  <2>6. Exits'
    BY <1>1, <2>1, <2>5 DEF PInv, Exits, ExitsOnlyWhenDrained
  <2> QED BY <1>1, <2>2, <2>4, <2>6, LedgerKept DEF PInv
<1>6. CASE WorkerPop(w) \/ (WorkerInPop(w) /\ ~PopClaim(w))
  <2>1. /\ wpc' = wpc /\ wpc[w] = "pop" /\ pc'[w] \in PopLabels
        /\ Consuming(w)' <=> Consuming(w)
        /\ Consuming(w) => pos'[w] = pos[w]
    <3>1. CASE WorkerPop(w)
      BY <3>1 DEF WorkerPop, PopStart, printVars, PopLabels, Consuming
    <3>2. CASE WorkerInPop(w) /\ ~PopClaim(w)
      BY <1>2, <3>2 DEF WorkerInPop, printVars, PopStep, PopSeesPublished, PopSeesEmpty,
         PopSeesTaken, PopReload, PopClaimFails, PopRead, PopRecycle, PopLabels, Consuming
    <3> QED BY <1>6, <3>1, <3>2
  <2>2. Places'
    BY <1>1, <1>2, <2>1, WorkerPlaces DEF WorkerLabels, PopLabels
  <2>3. \A v \in Workers : (Carrying(v)' <=> Carrying(v)) /\ (Carrying(v) => Load(v)' = Load(v))
    BY <1>1, <2>1 DEF Carrying, Consuming, Load
  <2>4. Exits'
    BY <1>1, <2>1 DEF PInv, Exits, ExitsOnlyWhenDrained
  <2> QED BY <1>1, <2>2, <2>3, <2>4, LedgerKept DEF PInv
<1>7. CASE WorkerPopFailed(w) \/ WorkerPopped(w)
  <2>1. /\ wpc[w] = "pop" /\ pc'[w] = "idle" /\ wpc'[w] \in {"test", "run"} /\ got' = got
        /\ wpc'[w] = "run" => pc[w] = "pop_recycle" /\ got[w] = pos[w] + 1
        /\ wpc'[w] = "test" => pc[w] = "pop_check"
        /\ wpc' \in [Threads -> WorkerLabels \cup {"push", "join", "returned"}]
    BY <1>2, <1>7 DEF WorkerPopFailed, WorkerPopped, PopSeesEmpty, PopRecycle, PopLabels, WorkerLabels
  <2>2. Places'
    BY <1>1, <2>1, WorkerPlaces DEF WorkerLabels, PopLabels
  <2>3. (Carrying(w)' <=> Carrying(w)) /\ (Carrying(w) => Load(w)' = Load(w))
    BY <2>1 DEF Carrying, Consuming, Load
  <2>4. \A v \in Workers : (Carrying(v)' <=> Carrying(v)) /\ (Carrying(v) => Load(v)' = Load(v))
    BY <1>1, <2>3 DEF Carrying, Consuming, Load
  <2>5. Exits'
    BY <1>1, <2>1 DEF PInv, Exits, ExitsOnlyWhenDrained
  <2> QED BY <1>1, <2>2, <2>4, <2>5, LedgerKept DEF PInv
<1> QED BY <1>3, <1>4, <1>5, <1>6, <1>7

\* A claim takes the next prim into the hands of one more worker.
LEMMA WorkerClaims ==
  ASSUME PInv, IInv', Capacity >= 2, NEW w \in Workers, WorkerInPop(w), PopClaim(w)
  PROVE  PInv'
<1> USE Facts
<1>1. /\ pc[w] = "pop_cas" /\ pc'[w] = "pop_read" /\ pos[w] = readPos /\ readPos' = readPos + 1
      /\ UNCHANGED <<writePos, log, i, producerDone, printed, wpc, pos, arg, got>>
      /\ \A t \in Threads \ {w} : pc'[t] = pc[t]
      /\ wpc[w] = "pop" /\ readPos < writePos
  BY ClaimFindsItem DEF WorkerInPop, PopClaim, Goto, printVars, PInv, Places, PopLabels
<1>2. wpc \in [Threads -> WorkerLabels \cup {"push", "join", "returned"}]
  BY DEF PInv, Places
<1>3. Places'
  BY <1>1, <1>2, WorkerPlaces DEF WorkerLabels, PopLabels
<1>4. /\ ~Carrying(w) /\ Carrying(w)' /\ Load(w)' = readPos + 1
      /\ \A v \in Workers \ {w} : (Carrying(v)' <=> Carrying(v)) /\ Load(v)' = Load(v)
  BY <1>1 DEF Carrying, Consuming, Load
<1>5. readPos + 1 \in Tasks /\ printed[readPos + 1] = 0
  <2>1. readPos + 1 \in Tasks
    BY <1>1
  <2> QED BY <2>1 DEF PInv, Ledger
<1>6. Ledger'
  <2>1. \A v \in Workers \ {w} : Carrying(v) => Load(v) \in Tasks /\ Load(v) <= readPos /\ printed[Load(v)] = 0
    BY DEF PInv, Ledger
  <2>2. ASSUME NEW v \in Workers, Carrying(v)'
        PROVE  /\ Load(v)' \in Tasks /\ Load(v)' <= readPos + 1 /\ printed[Load(v)'] = 0
               /\ \A u \in Workers \ {v} : Carrying(u)' => Load(u)' # Load(v)'
    <3>1. CASE v = w
      <4>1. ASSUME NEW u \in Workers \ {w}, Carrying(u)' PROVE Load(u)' # readPos + 1
        <5>1. Load(u)' = Load(u) /\ Load(u) \in Tasks /\ Load(u) <= readPos
          BY <1>4, <2>1, <4>1
        <5> QED BY <5>1
      <4> QED BY <1>4, <1>5, <3>1, <4>1
    <3>2. CASE v # w
      <4>1. /\ Carrying(v) /\ Load(v)' = Load(v)
            /\ Load(v) \in Tasks /\ Load(v) <= readPos /\ printed[Load(v)] = 0
        BY <1>4, <2>1, <2>2, <3>2
      <4>2. ASSUME NEW u \in Workers \ {v}, Carrying(u)' PROVE Load(u)' # Load(v)'
        <5>1. CASE u = w
          BY <1>4, <4>1, <5>1
        <5>2. CASE u # w
          <6>1. Carrying(u) /\ Load(u)' = Load(u)
            BY <1>4, <4>2, <5>2
          <6> QED BY <4>1, <6>1 DEF PInv, Ledger
        <5> QED BY <5>1, <5>2
      <4> QED BY <4>1, <4>2
    <3> QED BY <3>1, <3>2
  <2>3. ASSUME NEW n \in Tasks, n <= readPos + 1
        PROVE  printed[n] = 1 \/ \E v \in Workers : Carrying(v)' /\ Load(v)' = n
    <3>1. CASE n = readPos + 1
      BY <1>4, <3>1
    <3>2. CASE n <= readPos
      <4>1. printed[n] = 1 \/ \E v \in Workers : Carrying(v) /\ Load(v) = n
        BY <3>2 DEF PInv, Ledger
      <4> QED BY <4>1, <1>4
    <3> QED BY <2>3, <3>1, <3>2
  <2>4. \A n \in Tasks : printed[n] <= 1 /\ (n > readPos + 1 => printed[n] = 0)
    BY DEF PInv, Ledger
  <2>5. printed \in [Tasks -> Nat]
    BY DEF PInv, Ledger
  <2> QED BY <1>1, <2>2, <2>3, <2>4, <2>5 DEF Ledger
<1>7. Exits'
  <2>1. \A v \in Workers : wpc[v] # "exited"
    BY <1>1 DEF PInv, Exits, ExitsOnlyWhenDrained
  <2> QED BY <1>1, <2>1 DEF PInv, Exits, ExitsOnlyWhenDrained
<1> QED BY <1>3, <1>6, <1>7 DEF PInv

\* Running a task prints the prim that the worker holds, and no other has it.
LEMMA WorkerPrints ==
  ASSUME PInv, IInv', NEW w \in Workers, WorkerRun(w)
  PROVE  PInv'
<1> USE Facts
<1>0. /\ wpc \in [Threads -> WorkerLabels \cup {"push", "join", "returned"}]
      /\ pc[w] \in {"idle", "size_read"} \cup PopLabels
      /\ pc[w] = "size_read" => wpc[w] = "empty"
      /\ pc[w] \in PopLabels => wpc[w] = "pop"
  BY DEF PInv, Places
<1>1. /\ wpc[w] = "run" /\ wpc'[w] = "test" /\ UNCHANGED <<vars, i, producerDone>>
      /\ wpc' \in [Threads -> WorkerLabels \cup {"push", "join", "returned"}]
      /\ \A t \in Threads \ {w} : wpc'[t] = wpc[t]
      /\ printed' = [printed EXCEPT ![got[w]] = @ + 1] /\ pc[w] = "idle"
  BY <1>0 DEF WorkerRun, WGoto, WorkerLabels, PopLabels
<1>2. Places'
  BY <1>1, WorkerPlaces DEF vars, WorkerLabels, PopLabels
<1>3. /\ Carrying(w) /\ Load(w) = got[w] /\ ~Carrying(w)'
      /\ \A v \in Workers \ {w} : (Carrying(v)' <=> Carrying(v)) /\ Load(v)' = Load(v)
  BY <1>1 DEF Carrying, Consuming, Load, vars
<1>4. /\ got[w] \in Tasks /\ got[w] <= readPos /\ printed[got[w]] = 0
      /\ \A v \in Workers \ {w} : Carrying(v) => Load(v) # got[w]
      /\ printed \in [Tasks -> Nat]
  BY <1>3 DEF PInv, Ledger
<1>5. /\ printed' \in [Tasks -> Nat] /\ printed'[got[w]] = 1
      /\ \A n \in Tasks \ {got[w]} : printed'[n] = printed[n]
  BY <1>1, <1>4
<1>6. Ledger'
  <2>1. \A v \in Workers : Carrying(v)' =>
           /\ Load(v)' \in Tasks /\ Load(v)' <= readPos /\ printed'[Load(v)'] = 0
           /\ \A u \in Workers \ {v} : Carrying(u)' => Load(u)' # Load(v)'
    <3>1. ASSUME NEW v \in Workers, Carrying(v)'
          PROVE  /\ v # w /\ Carrying(v) /\ Load(v)' = Load(v) /\ Load(v) # got[w]
                 /\ Load(v) \in Tasks /\ Load(v) <= readPos /\ printed[Load(v)] = 0
      BY <1>3, <1>4, <3>1 DEF PInv, Ledger
    <3>2. \A v \in Workers : Carrying(v)' => \A u \in Workers \ {v} : Carrying(u)' => Load(u)' # Load(v)'
      BY <3>1 DEF PInv, Ledger
    <3> QED BY <1>5, <3>1, <3>2
  <2>2. ASSUME NEW n \in Tasks, n <= readPos
        PROVE  printed'[n] = 1 \/ \E v \in Workers : Carrying(v)' /\ Load(v)' = n
    <3>1. printed[n] = 1 \/ \E v \in Workers : Carrying(v) /\ Load(v) = n
      BY <2>2 DEF PInv, Ledger
    <3> QED BY <3>1, <1>3, <1>5
  <2>3. \A n \in Tasks : printed'[n] <= 1 /\ (n > readPos => printed'[n] = 0)
    BY <1>4, <1>5 DEF PInv, Ledger
  <2> QED BY <1>1, <1>5, <2>1, <2>2, <2>3 DEF Ledger, vars
<1>7. Exits'
  BY <1>1 DEF PInv, Exits, ExitsOnlyWhenDrained, vars
<1> QED BY <1>2, <1>6, <1>7 DEF PInv

\* Every step of the printer keeps its invariant, one case per action.
LEMMA StepKeepsPInv ==
  ASSUME PInv, Capacity >= 2, [PrintNext]_allVars
  PROVE  PInv'
<1>1. IInv'
  BY QueueStep, NextPreservesIInv DEF PInv
<1>2. CASE Producer
  BY <1>1, <1>2, ProducerInQueue, ProducerEnds DEF Producer
<1>3. ASSUME NEW w \in Workers, Worker(w) PROVE PInv'
  BY <1>1, <1>3, WorkerQuiet, WorkerClaims, WorkerPrints DEF Worker
<1>4. CASE UNCHANGED allVars
  <2>1. \A w \in Workers : (Carrying(w)' <=> Carrying(w)) /\ Load(w)' = Load(w)
    BY <1>4 DEF allVars, vars, printVars, Carrying, Consuming, Load
  <2>2. Places' /\ Exits'
    BY <1>4 DEF allVars, vars, printVars, PInv, Places, Producing, Exits, ExitsOnlyWhenDrained
  <2> QED BY <1>1, <1>4, <2>1, <2>2, LedgerKept DEF allVars, vars, printVars, PInv
<1> QED BY <1>2, <1>3, <1>4 DEF PrintNext, Finished

-----------------------------------------------------------------------------
\* The queue's invariant, the places of the threads and the ledger of tasks hold
\* in every reachable state of the printer.
THEOREM PrinterInvariant ==
  ASSUME Capacity >= 2
  PROVE  PrintSpec => []PInv
<1>1. PrintInit => PInv
  BY InitPInv
<1>2. PInv /\ [PrintNext]_allVars => PInv'
  BY StepKeepsPInv
<1> QED BY <1>1, <1>2, PTL DEF PrintSpec

\* A worker leaves its loop only when every task was claimed: the test of
\* producer_done and of Empty() cannot be fooled by a late push.
THEOREM WorkersDrainTheQueue ==
  ASSUME Capacity >= 2
  PROVE  PrintSpec => []ExitsOnlyWhenDrained
<1>1. PInv => ExitsOnlyWhenDrained
  BY DEF PInv, Exits
<1> QED BY <1>1, PrinterInvariant, PTL

\* When the printer concatenates its buffers each one was written exactly once,
\* provided that it was given a worker at all.
THEOREM NothingLostOrPrintedTwice ==
  ASSUME Capacity >= 2, Workers # {}
  PROVE  PrintSpec => []OutputsComplete
<1>1. PInv => OutputsComplete
  <2> SUFFICES ASSUME PInv, wpc[Main] = "returned", NEW n \in Tasks PROVE printed[n] = 1
    BY DEF OutputsComplete
  <2>1. \A w \in Workers : wpc[w] = "exited"
    BY DEF PInv, Exits
  <2>2. readPos = NumPrims
    BY <2>1 DEF PInv, Exits, ExitsOnlyWhenDrained
  <2>3. \A w \in Workers : ~Carrying(w)
    BY <2>1 DEF PInv, Places, Carrying, Consuming, PopLabels
  <2> QED BY <2>2, <2>3, Facts DEF PInv, Ledger
<1> QED BY <1>1, PrinterInvariant, PTL

-----------------------------------------------------------------------------
(* The printer implements ParallelFor.                                      *)

\* A worker with a task in its hands has a prim that nobody printed or holds, and
\* the call has begun and has not returned.
LEMMA CarryingWorker ==
  ASSUME PInv, NEW w \in Workers, Carrying(w)
  PROVE  /\ Load(w) \in Tasks /\ printed[Load(w)] = 0
         /\ \A v \in Workers \ {w} : Carrying(v) => Load(v) # Load(w)
         /\ CallStatus = "running"
<1>1. /\ Load(w) \in Tasks /\ Load(w) <= readPos /\ printed[Load(w)] = 0
      /\ \A v \in Workers \ {w} : Carrying(v) => Load(v) # Load(w)
  BY DEF PInv, Ledger
<1>2. writePos # 0
  BY <1>1, Facts
<1>3. wpc[w] # "exited"
  BY DEF Carrying, Consuming, PInv, Places, PopLabels
<1>4. wpc[Main] # "returned"
  BY <1>3 DEF PInv, Exits
<1> QED BY <1>1, <1>2, <1>4 DEF CallStatus

\* A step that neither moves the caller nor enters or leaves a body is a stutter.
LEMMA QuietPrint ==
  ASSUME UNCHANGED <<CallStatus, Entered, Complete, history>> PROVE UNCHANGED For!vars
BY DEF For!vars, For!items, history

\* The first claim of the producer, or its end if there is no prim, begins the
\* call; its other steps are stutters.
LEMMA ProducerPrints ==
  ASSUME PInv, PInv', Capacity >= 2,
         ProducerPush \/ ProducerPushed \/ ProducerInPush \/ ProducerDone
  PROVE  For!Next \/ UNCHANGED For!vars
<1> USE Facts
<1>1. /\ UNCHANGED <<got, printed, history>> /\ wpc[Main] = "push" /\ wpc'[Main] # "returned"
      /\ \A w \in Workers : wpc'[w] = wpc[w]
      /\ wpc'[Main] = "push" \/ UNCHANGED writePos
  <2>1. CASE ProducerPush \/ ProducerPushed \/ ProducerInPush
    BY <2>1 DEF ProducerPush, ProducerPushed, ProducerInPush, printVars, PushStart, PushStep, PushSeesFree,
         PushSeesFull, PushSeesTaken, PushReload, PushClaim, PushClaimFails, PushWrite, PushPublish,
         Goto, Return, PInv, Places
  <2>2. CASE ProducerDone
    BY <2>2 DEF ProducerDone, WGoto, vars, PInv, Places
  <2> QED BY <2>1, <2>2
<1>2. writePos' = writePos \/ writePos' = writePos + 1
  BY DEF ProducerPush, ProducerPushed, ProducerInPush, ProducerDone, PushStart, PushStep, PushSeesFree, vars,
         PushSeesFull, PushSeesTaken, PushReload, PushClaim, PushClaimFails, PushWrite, PushPublish
<1>3. Entered' = Entered /\ Complete' = Complete
  BY <1>1 DEF Entered, Complete
<1>4. CallStatus \in {"new", "running"} /\ (CallStatus' = CallStatus \/ (CallStatus = "new" /\ CallStatus' = "running"))
  BY <1>1, <1>2 DEF CallStatus
<1>5. CASE CallStatus = "new" /\ CallStatus' = "running"
  BY <1>1, <1>3, <1>5 DEF For!Next, For!Begin, For!items, history
<1> QED BY <1>1, <1>3, <1>4, <1>5, QuietPrint

\* The caller returns after the last prim.
LEMMA JoinPrints ==
  ASSUME PInv, PInv', Workers # {}, Join PROVE For!Next
<1> USE Facts
<1>1. /\ wpc[Main] = "join" /\ wpc'[Main] = "returned" /\ UNCHANGED <<vars, printed, history>>
      /\ \A w \in Workers : wpc[w] = "exited" /\ wpc'[w] = "exited"
  BY DEF Join, WGoto, PInv, Places
<1>2. CallStatus = "running" /\ CallStatus' = "returned"
  BY <1>1 DEF CallStatus
<1>3. readPos = NumPrims
  BY <1>1 DEF PInv, Exits, ExitsOnlyWhenDrained
<1>4. \A w \in Workers : ~Carrying(w)
  BY <1>1 DEF Carrying, Consuming, PInv, Places, PopLabels
<1>5. ASSUME NEW n \in Tasks PROVE printed[n] = 1
  <2>1. n <= readPos
    BY <1>3
  <2>2. printed[n] = 1 \/ \E w \in Workers : Carrying(w) /\ Load(w) = n
    BY <2>1 DEF PInv, Ledger
  <2> QED BY <1>4, <2>2
<1>6. Complete = 0 .. NumPrims - 1
  <2>1. Complete = {n - 1 : n \in Tasks}
    BY <1>5 DEF Complete
  <2>2. \A x \in 0 .. NumPrims - 1 : x + 1 \in Tasks /\ x = (x + 1) - 1
    OBVIOUS
  <2>3. \A n \in Tasks : n - 1 \in 0 .. NumPrims - 1
    OBVIOUS
  <2> QED BY <2>1, <2>2, <2>3
<1>7. Entered' = Entered /\ Complete' = Complete
  BY <1>1 DEF Entered, Complete, vars
<1> QED BY <1>1, <1>2, <1>6, <1>7 DEF For!Next, For!End, For!Items, For!items, history

\* A worker whose Pop succeeded enters the body of its prim.
LEMMA PoppedPrints ==
  ASSUME PInv, PInv', NEW w \in Workers, WorkerPopped(w) PROVE For!Next
<1> USE Facts
<1> DEFINE n == got[w] - 1
<1>1. /\ wpc[w] = "pop" /\ wpc'[w] = "run" /\ UNCHANGED <<got, printed, writePos, returns>> /\ entries' = entries + 1
      /\ \A t \in Threads \ {w} : wpc'[t] = wpc[t]
  <2>1. pc[w] = "pop_recycle" /\ wpc \in [Threads -> WorkerLabels \cup {"push", "join", "returned"}]
    BY DEF WorkerPopped, PopRecycle, PInv, Places
  <2> QED BY <2>1 DEF WorkerPopped, PopRecycle, WGoto, PInv, Places, PopLabels
<1>2. /\ got[w] \in Tasks /\ printed[got[w]] = 0 /\ CallStatus = "running"
      /\ \A v \in Workers \ {w} : wpc[v] = "run" => got[v] # got[w]
  <2>1. Carrying(w) /\ Load(w) = got[w]
    <3>1. pc[w] = "pop_recycle"
      BY DEF WorkerPopped, PopRecycle
    <3> QED BY <3>1, <1>1, Facts DEF Carrying, Load, Consuming
  <2>2. \A v \in Workers \ {w} : wpc[v] = "run" => Carrying(v) /\ Load(v) = got[v]
    BY DEF Carrying, Load
  <2>3. /\ got[w] \in Tasks /\ printed[got[w]] = 0 /\ CallStatus = "running"
        /\ \A v \in Workers \ {w} : Carrying(v) => Load(v) # got[w]
    BY <2>1, CarryingWorker
  <2> QED BY <2>2, <2>3
<1>3. CallStatus' = "running"
  BY <1>1, <1>2 DEF CallStatus
<1>4. n \in 0 .. NumPrims - 1 /\ n + 1 = got[w]
  BY <1>2
<1>5. n \notin Entered
  <2>1. \A m \in Tasks : printed[m] > 0 \/ (\E v \in Workers : wpc[v] = "run" /\ got[v] = m) => m # got[w]
    BY <1>1, <1>2
  <2>2. \A m \in Tasks : m - 1 = n => m = got[w]
    BY <1>2
  <2> QED BY <2>1, <2>2 DEF Entered
<1>6. Entered' = Entered \cup {n}
  <2>1. \A m \in Tasks : (\E v \in Workers : wpc'[v] = "run" /\ got'[v] = m)
                           <=> m = got[w] \/ \E v \in Workers : wpc[v] = "run" /\ got[v] = m
    <3>1. \A v \in Workers : (wpc'[v] = "run" <=> v = w \/ wpc[v] = "run")
      BY <1>1
    <3>2. \A v \in Workers : got'[v] = got[v]
      BY <1>1
    <3> QED BY <3>1, <3>2
  <2> DEFINE Out == {x \in Tasks : printed[x] > 0 \/ \E v \in Workers : wpc[v] = "run" /\ got[v] = x}
             Now == {x \in Tasks : printed'[x] > 0 \/ \E v \in Workers : wpc'[v] = "run" /\ got'[v] = x}
  <2>2. Now = Out \cup {got[w]}
    BY <1>1, <1>2, <2>1
  <2>3. Entered = {m - 1 : m \in Out} /\ Entered' = {m - 1 : m \in Now}
    BY Zenon DEF Entered
  <2> HIDE DEF Out, Now
  <2> QED BY <2>2, <2>3
<1>7. Complete' = Complete
  BY <1>1 DEF Complete
<1> HIDE DEF n
<1>8. For!Start(Main, n)
  BY <1>1, <1>2, <1>3, <1>4, <1>5, <1>6, <1>7 DEF For!Start, For!Items
<1> QED BY <1>4, <1>8 DEF For!Next, For!Items

\* print_prim_worker returns: its prim is printed.
LEMMA RunPrints ==
  ASSUME PInv, PInv', NEW w \in Workers, WorkerRun(w) PROVE For!Next
<1> USE Facts
<1> DEFINE n == got[w] - 1
<1>1. /\ wpc[w] = "run" /\ wpc'[w] = "test" /\ UNCHANGED <<got, writePos, entries>> /\ returns' = returns + 1
      /\ \A t \in Threads \ {w} : wpc'[t] = wpc[t]
      /\ printed' = [printed EXCEPT ![got[w]] = @ + 1] /\ printed \in [Tasks -> Nat]
  BY DEF WorkerRun, WGoto, vars, PInv, Places, Ledger
<1>2. /\ got[w] \in Tasks /\ printed[got[w]] = 0 /\ CallStatus = "running"
      /\ \A v \in Workers \ {w} : Carrying(v) => Load(v) # got[w]
  <2>1. Carrying(w) /\ Load(w) = got[w]
    BY <1>1 DEF Carrying, Load
  <2> QED BY <2>1, CarryingWorker
<1>3. CallStatus' = "running"
  BY <1>1, <1>2 DEF CallStatus
<1>4. \A m \in Tasks : printed'[m] > 0 <=> printed[m] > 0 \/ m = got[w]
  BY <1>1, <1>2
<1>5. \A m \in Tasks \ {got[w]} : (\E v \in Workers : wpc'[v] = "run" /\ got'[v] = m)
                                     <=> \E v \in Workers : wpc[v] = "run" /\ got[v] = m
  BY <1>1
<1>6. Entered' = Entered
  <2>1. \A m \in Tasks : \/ printed'[m] > 0 \/ \E v \in Workers : wpc'[v] = "run" /\ got'[v] = m
                     <=> \/ printed[m] > 0 \/ \E v \in Workers : wpc[v] = "run" /\ got[v] = m
    BY <1>1, <1>4, <1>5
  <2> QED BY <2>1 DEF Entered
<1>7. Complete' = Complete \cup {n}
  <2>1. Complete' = {m - 1 : m \in {x \in Tasks : printed[x] > 0 \/ x = got[w]}}
    BY <1>4 DEF Complete
  <2> QED BY <1>2, <2>1 DEF Complete
<1>8. n \in 0 .. NumPrims - 1 /\ n \in Entered
  BY <1>1, <1>2 DEF Entered
<1>9. n \notin Complete
  <2>1. \A m \in Tasks : m - 1 = n => m = got[w]
    BY <1>2
  <2> QED BY <1>2, <2>1 DEF Complete
<1> HIDE DEF n
<1>10. For!Finish(Main, n)
  BY <1>1, <1>2, <1>3, <1>6, <1>7, <1>8, <1>9 DEF For!Finish
<1> QED BY <1>8, <1>10 DEF For!Next, For!Items

\* The other steps of a worker, in the queue or at the loop's test, are stutters.
LEMMA QuietWorker ==
  ASSUME PInv, NEW w \in Workers,
         \/ WorkerTest(w) \/ WorkerSize(w) \/ WorkerEmpty(w) \/ WorkerPop(w) \/ WorkerInPop(w)
         \/ WorkerPopFailed(w)
  PROVE  UNCHANGED For!vars
<1> USE Facts
<1> USE DEF WGoto, Goto, Return
<1>0. wpc \in [Threads -> WorkerLabels \cup {"push", "join", "returned"}]
  BY DEF PInv, Places
<1>1. /\ wpc[w] # "run" /\ wpc'[w] # "run" /\ UNCHANGED <<printed, writePos, history>>
      /\ \A t \in Threads \ {w} : wpc'[t] = wpc[t] /\ got'[t] = got[t]
  <2>1. CASE WorkerTest(w)
    BY <1>0, <2>1 DEF WorkerTest, vars
  <2>2. CASE WorkerSize(w) \/ WorkerEmpty(w)
    BY <1>0, <2>2 DEF WorkerSize, WorkerEmpty, printVars, SizeStart, SizeReturn
  <2>3. CASE WorkerPop(w)
    BY <1>0, <2>3 DEF WorkerPop, printVars, PopStart
  <2>4. CASE WorkerPopFailed(w)
    BY <1>0, <2>4 DEF WorkerPopFailed, PopSeesEmpty, PInv, Places, PopLabels
  <2>5. CASE WorkerInPop(w)
    BY <1>0, <2>5 DEF WorkerInPop, printVars, PopStep, PopSeesPublished, PopSeesEmpty,
         PopSeesTaken, PopReload, PopClaim, PopClaimFails, PopRead, PopRecycle, PInv, Places, PopLabels
  <2> QED BY <2>1, <2>2, <2>3, <2>4, <2>5
<1>2. \A m : (\E v \in Workers : wpc'[v] = "run" /\ got'[v] = m)
                <=> \E v \in Workers : wpc[v] = "run" /\ got[v] = m
  <2>1. ASSUME NEW v \in Workers
        PROVE  /\ wpc'[v] = "run" <=> wpc[v] = "run"
               /\ wpc[v] = "run" => got'[v] = got[v]
    BY <1>1
  <2> QED BY <2>1
<1>3. Entered' = Entered /\ Complete' = Complete
  <2>1. printed' = printed
    BY <1>1
  <2>2. Complete' = Complete
    BY <2>1 DEF Complete
  <2>3. Entered' = Entered
    BY <1>2, <2>1 DEF Entered
  <2> QED BY <2>2, <2>3
<1>4. CallStatus' = CallStatus
  BY <1>1 DEF CallStatus
<1> QED BY <1>1, <1>3, <1>4, QuietPrint

\* The printer is a parallel for over its prims, for any number of prims, any
\* number of workers (at least one) and any ring (of at least two cells): no prim
\* is entered or left a second time, by the same worker or by another (either would
\* raise `entries` or `returns` without being a Start or a Finish), all of that
\* happens while the call runs, and the call returns after the last.
THEOREM PrinterImplementsParallelFor ==
  ASSUME Capacity >= 2, Workers # {}
  PROVE  PrintSpec => PrintsLikeParallelFor
<1>1. PrintInit => For!Init
  <2> SUFFICES ASSUME PrintInit PROVE For!Init
    OBVIOUS
  <2>1. /\ writePos = 0 /\ printed = [n \in Tasks |-> 0]
        /\ wpc = [t \in Threads |-> IF t = Main THEN "push" ELSE "test"]
    BY DEF PrintInit, Init
  <2>2. /\ wpc[Main] = "push" /\ writePos = 0 /\ \A w \in Workers : wpc[w] # "run"
        /\ \A n \in Tasks : printed[n] = 0
    BY <2>1, ThreadsAssumption
  <2>3. CallStatus = "new" /\ Entered = {} /\ Complete = {}
    BY <2>2 DEF CallStatus, Entered, Complete
  <2> QED BY <2>3 DEF PrintInit, For!Init
<1>2. PInv /\ PInv' /\ [PrintNext]_allVars => [For!Next]_For!vars
  <2> SUFFICES ASSUME PInv, PInv', [PrintNext]_allVars PROVE For!Next \/ UNCHANGED For!vars
    OBVIOUS
  <2>1. CASE Producer
    BY <2>1, ProducerPrints, JoinPrints DEF Producer
  <2>2. ASSUME NEW w \in Workers, Worker(w) PROVE For!Next \/ UNCHANGED For!vars
    BY <2>2, QuietWorker, PoppedPrints, RunPrints DEF Worker
  <2>3. CASE UNCHANGED allVars
    <3>1. UNCHANGED <<CallStatus, Entered, Complete, history>>
      BY <2>3 DEF allVars, vars, printVars, CallStatus, Entered, Complete
    <3> QED BY <3>1, QuietPrint
  <2> QED BY <2>1, <2>2, <2>3 DEF PrintNext, Finished
<1> QED BY <1>1, <1>2, PrinterInvariant, PTL DEF PrintSpec, PrintsLikeParallelFor, For!Spec

-----------------------------------------------------------------------------
(* What PrintTerminates rests on: nobody spins in vain.                     *)

\* The producer spins on a full ring only while a worker is about to recycle the
\* very cell, or the oldest task lies ready and a worker is there to take it.  A
\* worker in Pop that finds nothing ready has the producer still to come, or finds
\* every prim claimed, so that its loop is at an end.
NobodySpinsInVain ==
  /\ pc[Main] = "push_check" /\ seq[Cell(writePos)] # writePos =>
       \/ \E w \in Workers : Consuming(w) /\ pos[w] = writePos - Capacity
       \/ seq[Cell(readPos)] = readPos + 1 /\ \E w \in Workers : wpc[w] # "exited"
  /\ \A w \in Workers : wpc[w] = "pop" /\ seq[Cell(readPos)] # readPos + 1 =>
       \/ wpc[Main] = "push"
       \/ readPos = NumPrims

\* Only the caller pushes and only the workers pop.
LEMMA Roles ==
  ASSUME PInv
  PROVE  /\ \A u \in Threads : Producing(u) => u = Main
         /\ \A u \in Threads : Consuming(u) => u \in Workers
BY Facts DEF PInv, Places, Producing, Consuming, PushLabels, PopLabels

\* A position that was claimed and not popped is published, unless the caller is
\* in the middle of pushing it.
LEMMA OldestIsReady ==
  ASSUME PInv, BlockInv, readPos < writePos, ~Producing(Main)
  PROVE  seq[Cell(readPos)] = readPos + 1
<1>1. readPos \in readPos .. writePos - 1
  BY Facts
<1> QED BY <1>1, Roles DEF BlockInv, ClaimedArePublished

\* The producer's half: the cell it waits for is being recycled, or the ring is
\* full, its oldest task is published and no worker has left.
LEMMA ProducerHasAWorker ==
  ASSUME PInv, BlockInv, Workers # {}, pc[Main] = "push_check", seq[Cell(writePos)] # writePos
  PROVE  \/ \E w \in Workers : Consuming(w) /\ pos[w] = writePos - Capacity
         \/ seq[Cell(readPos)] = readPos + 1 /\ \E w \in Workers : wpc[w] # "exited"
<1>1. readPos \in Nat /\ writePos \in Nat /\ Capacity \in Nat \ {0} /\ NumPrims \in Nat
  BY Facts, CapacityAssumption
<1>2. CASE writePos < readPos + Capacity
  <2>1. writePos \in writePos .. readPos + Capacity - 1
    BY <1>1, <1>2
  <2>2. \E u \in Threads : Consuming(u) /\ pos[u] = writePos - Capacity
    BY <2>1 DEF BlockInv, FreeAreRecycled
  <2> QED BY <2>2, Roles
<1>3. CASE ~(writePos < readPos + Capacity)
  <2>1. readPos < writePos
    BY <1>1, <1>3
  <2>2. ~Producing(Main)
    BY DEF Producing
  <2>3. writePos < NumPrims
    BY <1>1, <2>2 DEF PInv, Places
  <2>4. \A w \in Workers : wpc[w] # "exited"
    BY <1>1, <2>1, <2>3 DEF PInv, Exits, ExitsOnlyWhenDrained
  <2> QED BY <2>1, <2>2, <2>4, OldestIsReady
<1> QED BY <1>2, <1>3

\* The workers' half: once the caller is past its loop, every claimed task is
\* published, so nothing ready means nothing left.
LEMMA WorkerHasAProducer ==
  ASSUME PInv, BlockInv, wpc[Main] # "push", seq[Cell(readPos)] # readPos + 1
  PROVE  readPos = NumPrims
<1>1. ~Producing(Main) /\ writePos = NumPrims
  BY Facts DEF PInv, Places, Producing
<1> QED BY <1>1, OldestIsReady, Facts

\* Neither side of the queue ever spins on a condition that nobody will change,
\* given at least one worker and two cells: what is left of PrintTerminates is
\* that the threads are scheduled.
THEOREM NobodySpins ==
  ASSUME Capacity >= 2, Workers # {}
  PROVE  PrintSpec => []NobodySpinsInVain
<1>1. PrintInit => PInv /\ BlockInv
  BY InitPInv, InitBlockInv DEF PrintInit
<1>2. PInv /\ BlockInv /\ [PrintNext]_allVars => PInv' /\ BlockInv'
  BY StepKeepsPInv, QueueStep, NextPreservesBlockInv DEF PInv
<1>3. PInv /\ BlockInv => NobodySpinsInVain
  BY ProducerHasAWorker, WorkerHasAProducer DEF NobodySpinsInVain
<1> QED BY <1>1, <1>2, <1>3, PTL DEF PrintSpec
==============================================================================
