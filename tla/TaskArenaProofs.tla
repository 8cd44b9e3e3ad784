-------------------------- MODULE TaskArenaProofs --------------------------
(***************************************************************************)
(* TaskArena for any number of calls, workers and items: the members are   *)
(* republished only when no worker reads them, and the arena is a parallel *)
(* for.                                                                    *)
(***************************************************************************)
EXTENDS TaskArena, FiniteSetTheorems, TLAPS

\* A thread that drew an index and is not done with it.
Drawn(t) == pc[t] \in {"compare", "call", "run"}
\* A call whose items are shared out, and one that holds run_mu.
Sharing(k) == pc[k] \in LoopLabels \cup {"notify", "wait", "asleep_done"}
Holding(k) == Sharing(k) \/ pc[k] = "publish"
\* The workers that the current run still counts in active_workers.
Owing == {w \in Workers : \/ pc[w] \in LoopLabels \cup {"leave"}
                          \/ ~stopping /\ observed[w] # generation}

Places ==
  /\ \A k \in Calls : pc[k] \in CallLabels \cup LoopLabels /\ (Holding(k) <=> runMu = k)
  /\ \A w \in Workers : pc[w] \in WorkerLabels \cup LoopLabels
  /\ \A k \in Calls : task = k <=> Sharing(k)
  /\ task # NoCall => count = ItemCount[task]

\* active_workers counts the workers that owe, and none does between runs.
Counted ==
  /\ active = Cardinality(Owing)
  /\ task = NoCall => Owing = {}
  /\ stopping => \A k \in Calls : pc[k] \in {"new", "returned"}
  /\ ~stopping => \A w \in Workers :
        /\ observed[w] <= generation /\ pc[w] # "exited"
        /\ pc[w] \in LoopLabels \cup {"leave"} => observed[w] = generation

\* No index is drawn twice, and each is started by the thread that drew it.
Indices ==
  /\ \A t \in Threads : Drawn(t) =>
        /\ index[t] < next
        /\ pc[t] = "compare" \/ index[t] < count
        /\ \A u \in Threads \ {t} : Drawn(u) => index[u] # index[t]
        /\ IF pc[t] = "run" THEN index[t] \in started[task] \ finished[task]
                            ELSE index[t] \notin started[task]
  /\ \A k \in Calls : pc[k] \in {"wait", "asleep_done"} => count <= next

\* What has been drawn is at a thread, started or finished.
SharedBooks(k) ==
  /\ finished[k] \subseteq started[k] /\ started[k] \subseteq Items(k)
  /\ \A i \in started[k] :
        i < next /\ (i \in finished[k] \/ \E t \in Threads : pc[t] = "run" /\ index[t] = i)
  /\ \A i \in Items(k) : i < next =>
        i \in started[k] \/ \E t \in Threads : pc[t] \in {"compare", "call"} /\ index[t] = i
InlineBooks(k) ==
  /\ finished[k] = 0 .. index[k] - 1 /\ index[k] <= ItemCount[k]
  /\ IF pc[k] = "inline" THEN started[k] = finished[k]
     ELSE index[k] < ItemCount[k] /\ started[k] = 0 .. index[k]
Books ==
  \A k \in Calls :
    /\ Sharing(k) => SharedBooks(k)
    /\ pc[k] \in {"inline", "inline_run"} => InlineBooks(k)
    /\ pc[k] \in {"new", "acquire", "publish"} => started[k] = {} /\ finished[k] = {}
    /\ pc[k] = "new" => index[k] = 0

IInv == TypeOK /\ Places /\ Counted /\ Indices /\ Books

\* The sets of threads are finite and apart, and item counts are numbers.
LEMMA Types ==
  ASSUME IInv
  PROVE  /\ IsFiniteSet(Owing) /\ Owing \subseteq Workers /\ Cardinality(Workers) \in Nat
         /\ Calls \subseteq Threads /\ Workers \subseteq Threads
         /\ \A t \in Threads : t \in Calls \/ t \in Workers
         /\ \A k \in Calls : ItemCount[k] \in Nat
<1>1. Owing \subseteq Workers
  BY DEF Owing
<1> QED BY <1>1, WorkersAssumption, ItemCountAssumption, FS_Subset, FS_CardinalityType DEF Threads

\* Between runs, and before the next one is published, no worker is in RunItems.
LEMMA OneRunAtATime ==
  ASSUME IInv
  PROVE  /\ \A k \in Calls : Holding(k) => runMu = k
         /\ \A k, j \in Calls : Holding(k) /\ Holding(j) => k = j
         /\ \A k \in Calls : pc[k] = "publish" => task = NoCall /\ active = 0
         /\ \A t \in Threads : pc[t] \in LoopLabels \cup {"leave"} =>
               /\ task \in Calls /\ Sharing(task) /\ count = ItemCount[task]
               /\ t \in Calls => t = task
<1>1. \A k, j \in Calls : Holding(k) => runMu = k /\ (Holding(j) => k = j)
  BY DEF IInv, Places
<1>2. ASSUME NEW k \in Calls, pc[k] = "publish" PROVE task = NoCall /\ active = 0
  <2>1. Holding(k) /\ ~Sharing(k)
    BY <1>2 DEF Holding, Sharing, LoopLabels
  <2>2. task = NoCall
    BY <1>1, <2>1 DEF IInv, TypeOK, Places, Holding
  <2> QED BY <2>2, FS_EmptySet DEF IInv, Counted
<1>3. ASSUME NEW t \in Threads, pc[t] \in LoopLabels \cup {"leave"}
      PROVE  /\ task \in Calls /\ Sharing(task) /\ count = ItemCount[task]
             /\ t \in Calls => t = task
  <2>1. CASE t \in Calls
    <3>1. Sharing(t)
      BY <1>3, <2>1 DEF IInv, Places, CallLabels, LoopLabels, Sharing
    <3> QED BY <2>1, <3>1, NoCallAssumption DEF IInv, Places
  <2>2. CASE t \in Workers
    <3>1. t \in Owing
      BY <1>3, <2>2 DEF Owing
    <3>2. task \in Calls
      BY <3>1 DEF IInv, Counted, TypeOK
    <3> QED BY <2>2, <3>2, WorkersAssumption, NoCallAssumption DEF IInv, Places
  <2> QED BY <2>1, <2>2 DEF Threads
<1> QED BY <1>1, <1>2, <1>3

\* At first no call was made and the workers are on their way to sleep.
LEMMA InitInv == Init => IInv
<1> SUFFICES ASSUME Init PROVE IInv
  OBVIOUS
<1>1. TypeOK
  BY DEF Init, TypeOK, CallLabels, WorkerLabels, LoopLabels
<1>2. /\ \A k \in Calls : pc[k] = "new"
      /\ \A w \in Workers : pc[w] = "lock"
  BY WorkersAssumption DEF Init, Threads
<1>3. Places
  BY <1>2, NoCallAssumption DEF Init, Places, Holding, Sharing, CallLabels, WorkerLabels, LoopLabels
<1>4. Owing = {}
  BY <1>2 DEF Init, Owing, LoopLabels
<1>5. Counted
  BY <1>2, <1>4, FS_EmptySet DEF Init, Counted, LoopLabels
<1>6. Indices /\ Books
  BY <1>2 DEF Init, Indices, Books, Drawn, Sharing, LoopLabels, Threads
<1> QED BY <1>1, <1>3, <1>5, <1>6 DEF IInv

\* A step that moves threads only about the locks and condition variables leaves
\* the indices and the books as they are.
LEMMA QuietStep ==
  ASSUME IInv, UNCHANGED <<count, task, next, index, history>>,
         \A t \in Threads : \A l \in {"compare", "call", "run"} : pc'[t] = l <=> pc[t] = l,
         \A k \in Calls :
            /\ Sharing(k)' <=> Sharing(k)
            /\ \A l \in {"new", "inline", "inline_run"} : pc'[k] = l => pc[k] = l
            /\ pc'[k] \in {"acquire", "publish"} => pc[k] \in {"new", "acquire", "publish"}
            /\ pc'[k] \in {"wait", "asleep_done"} => pc[k] \in {"wait", "asleep_done"}
  PROVE  Indices' /\ Books'
<1>1. Indices'
  BY DEF IInv, Indices, Drawn, history
<1>2. \A k \in Calls : SharedBooks(k) => SharedBooks(k)'
  BY DEF SharedBooks, Items, history
<1>3. \A k \in Calls : InlineBooks(k) /\ pc'[k] = pc[k] => InlineBooks(k)'
  BY DEF InlineBooks, history
<1>4. Books'
  BY <1>2, <1>3 DEF IInv, Books, history
<1> QED BY <1>1, <1>4

\* A call gets run_mu when no other has it.
LEMMA AcquireRunMuInv ==
  ASSUME IInv, NEW k \in Calls, AcquireRunMu(k)
  PROVE  IInv'
<1>1. /\ pc[k] = "acquire" /\ runMu = NoCall /\ runMu' = k /\ pc' = [pc EXCEPT ![k] = "publish"]
      /\ UNCHANGED <<arenaVars, next, index, observed, history>>
  BY DEF AcquireRunMu, Goto
<1>2. /\ pc'[k] = "publish" /\ \A t \in Threads \ {k} : pc'[t] = pc[t]
      /\ k \in Threads /\ k \notin Workers
  BY <1>1, Types, WorkersAssumption DEF IInv, TypeOK
<1>3. TypeOK'
  BY <1>1 DEF IInv, TypeOK, arenaVars, history, CallLabels
<1>4. \A j \in Calls : Sharing(j)' <=> Sharing(j)
  BY <1>1, <1>2, Types DEF Sharing, LoopLabels
<1>5. Places'
  BY <1>1, <1>2, <1>4, Types, NoCallAssumption DEF IInv, Places, Holding, arenaVars, history, CallLabels
<1>6. Owing' = Owing
  BY <1>1, <1>2, Types DEF Owing, arenaVars, history
<1>7. Counted'
  BY <1>1, <1>2, <1>6, Types DEF IInv, Counted, arenaVars, history
<1>8. Indices' /\ Books'
  BY <1>1, <1>2, <1>4, Types, QuietStep DEF arenaVars, history
<1> QED BY <1>3, <1>5, <1>7, <1>8 DEF IInv

\* notify_all wakes the workers that sleep at that moment.
LEMMA NotifyAllInv ==
  ASSUME IInv, NEW k \in Calls, NotifyAll(k)
  PROVE  IInv'
<1>1. /\ pc[k] = "notify" /\ UNCHANGED <<runMu, arenaVars, next, index, observed, history>>
      /\ k \in Threads /\ k \notin Workers
  BY Types, WorkersAssumption DEF NotifyAll
<1>2. /\ pc'[k] = "fetch"
      /\ \A t \in Threads \ {k} : IF pc[t] = "asleep_work" THEN pc'[t] = "lock" ELSE pc'[t] = pc[t]
  BY <1>1 DEF NotifyAll
<1>3. /\ \A j \in Calls \ {k} : pc'[j] = pc[j]
      /\ \A w \in Workers : IF pc[w] = "asleep_work" THEN pc'[w] = "lock" ELSE pc'[w] = pc[w]
  BY <1>1, <1>2, Types DEF IInv, Places, CallLabels, LoopLabels
<1>4. pc' \in [Threads -> CallLabels \cup WorkerLabels \cup LoopLabels]
  BY DEF NotifyAll, IInv, TypeOK, LoopLabels, WorkerLabels
<1>5. TypeOK'
  BY <1>1, <1>4 DEF IInv, TypeOK, arenaVars, history
<1>6. \A j \in Calls : (Sharing(j)' <=> Sharing(j)) /\ (Holding(j)' <=> Holding(j))
  BY <1>1, <1>2, <1>3 DEF Sharing, Holding, LoopLabels
<1>7. Places'
  BY <1>1, <1>2, <1>3, <1>6 DEF IInv, Places, arenaVars, history, LoopLabels, WorkerLabels
<1>8. Owing' = Owing
  BY <1>1, <1>3 DEF Owing, arenaVars, history, LoopLabels
<1>9. Counted'
  BY <1>1, <1>2, <1>3, <1>8 DEF IInv, Counted, arenaVars, history, LoopLabels
<1>10. Indices' /\ Books'
  BY <1>1, <1>2, <1>3, <1>6, Types, QuietStep DEF arenaVars, history
<1> QED BY <1>5, <1>7, <1>9, <1>10 DEF IInv

\* What a thread's next label says of the labels of all.
LEMMA Move ==
  ASSUME IInv, NEW t \in Threads,
         NEW l \in CallLabels \cup WorkerLabels \cup LoopLabels, Goto(t, l)
  PROVE  /\ pc'[t] = l /\ \A u \in Threads \ {t} : pc'[u] = pc[u]
         /\ pc' \in [Threads -> CallLabels \cup WorkerLabels \cup LoopLabels]
BY DEF IInv, TypeOK, Goto

\* A call begins: it has nothing to do, runs inline, or wants run_mu.
LEMMA RunBeginInv ==
  ASSUME IInv, NEW k \in Calls, RunBegin(k)
  PROVE  IInv'
<1>1. /\ pc[k] = "new" /\ ~stopping
      /\ UNCHANGED <<runMu, arenaVars, next, index, observed, history>>
      /\ k \in Threads /\ k \notin Workers /\ ItemCount[k] \in Nat
  BY Types, WorkersAssumption DEF RunBegin
<1>2. PICK l \in {"returned", "acquire", "inline"} : Goto(k, l)
  BY DEF RunBegin
<1>3. /\ pc'[k] = l /\ \A t \in Threads \ {k} : pc'[t] = pc[t]
      /\ pc' \in [Threads -> CallLabels \cup WorkerLabels \cup LoopLabels]
  BY <1>1, <1>2, Move DEF CallLabels
<1>4. TypeOK'
  BY <1>1, <1>3 DEF IInv, TypeOK, arenaVars, history
<1>5. \A j \in Calls : (Sharing(j)' <=> Sharing(j)) /\ (Holding(j)' <=> Holding(j))
  BY <1>1, <1>3, Types DEF Sharing, Holding, LoopLabels
<1>6. Places'
  BY <1>1, <1>3, <1>5, Types DEF IInv, Places, arenaVars, history, CallLabels
<1>7. Owing' = Owing
  BY <1>1, <1>3, Types DEF Owing, arenaVars, history
<1>8. Counted'
  BY <1>1, <1>3, <1>7, Types DEF IInv, Counted, arenaVars, history
<1>9. Indices'
  BY <1>1, <1>3, Types DEF IInv, Indices, Drawn, arenaVars, history
<1>10. ASSUME NEW j \in Calls, SharedBooks(j) PROVE SharedBooks(j)'
  BY <1>1, <1>3, <1>10, Types DEF SharedBooks, Items, history
<1>11. ASSUME l = "inline" PROVE InlineBooks(k)'
  <2>1. index[k] = 0 /\ started[k] = {} /\ finished[k] = {} /\ 0 .. 0 - 1 = {}
    BY <1>1 DEF IInv, Books
  <2> QED BY <1>1, <1>3, <1>11, <2>1 DEF InlineBooks, history
<1>12. ASSUME NEW j \in Calls \ {k}, InlineBooks(j) PROVE InlineBooks(j)'
  BY <1>1, <1>3, <1>12, Types DEF InlineBooks, history
<1>13. Books'
  BY <1>1, <1>3, <1>5, <1>10, <1>11, <1>12, Types DEF IInv, Books, history
<1> QED BY <1>4, <1>6, <1>8, <1>9, <1>13 DEF IInv

\* The caller sleeps while a worker is counted.
LEMMA WaitForWorkersInv ==
  ASSUME IInv, NEW k \in Calls, WaitForWorkers(k)
  PROVE  IInv'
<1>1. /\ pc[k] = "wait" /\ Goto(k, "asleep_done")
      /\ UNCHANGED <<runMu, arenaVars, next, index, observed, history>>
      /\ k \in Threads /\ k \notin Workers
  BY Types, WorkersAssumption DEF WaitForWorkers
<1>2. /\ pc'[k] = "asleep_done" /\ \A t \in Threads \ {k} : pc'[t] = pc[t]
      /\ pc' \in [Threads -> CallLabels \cup WorkerLabels \cup LoopLabels]
  BY <1>1, Move DEF CallLabels
<1>3. TypeOK'
  BY <1>1, <1>2 DEF IInv, TypeOK, arenaVars, history
<1>4. \A j \in Calls : (Sharing(j)' <=> Sharing(j)) /\ (Holding(j)' <=> Holding(j))
  BY <1>1, <1>2, Types DEF Sharing, Holding, LoopLabels
<1>5. Places'
  BY <1>1, <1>2, <1>4, Types DEF IInv, Places, arenaVars, history, CallLabels
<1>6. Owing' = Owing
  BY <1>1, <1>2, Types DEF Owing, arenaVars, history
<1>7. Counted'
  BY <1>1, <1>2, <1>6, Types DEF IInv, Counted, arenaVars, history
<1>8. Indices' /\ Books'
  BY <1>1, <1>2, <1>4, Types, QuietStep DEF arenaVars, history
<1> QED BY <1>3, <1>5, <1>7, <1>8 DEF IInv

\* A worker that falls asleep, wakes or exits, and a call that wakes.
LEMMA IdleInv ==
  ASSUME IInv, NEW t \in Threads,
         UNCHANGED <<runMu, arenaVars, next, index, observed, history>>,
         NEW l \in {"lock", "asleep_work", "exited", "wait"}, Goto(t, l),
         l = "wait" => pc[t] = "asleep_done" /\ t \in Calls,
         l # "wait" => pc[t] \in {"lock", "asleep_work"} /\ t \in Workers,
         l = "exited" => stopping
  PROVE  IInv'
<1>1. /\ pc'[t] = l /\ \A u \in Threads \ {t} : pc'[u] = pc[u]
      /\ pc' \in [Threads -> CallLabels \cup WorkerLabels \cup LoopLabels]
  BY Move DEF CallLabels, WorkerLabels
<1>2. TypeOK'
  BY <1>1 DEF IInv, TypeOK, arenaVars, history
<1>3. \A k \in Calls : \/ pc'[k] = pc[k]
                       \/ pc[k] = "asleep_done" /\ pc'[k] = "wait"
  BY <1>1, Types, WorkersAssumption
<1>4. \A w \in Workers : \/ pc'[w] = pc[w]
                         \/ /\ pc[w] \in {"lock", "asleep_work"}
                            /\ pc'[w] \in {"lock", "asleep_work", "exited"}
                            /\ pc'[w] = "exited" => stopping
  BY <1>1, Types, WorkersAssumption
<1>5. \A j \in Calls : (Sharing(j)' <=> Sharing(j)) /\ (Holding(j)' <=> Holding(j))
  BY <1>3 DEF Sharing, Holding, LoopLabels
<1>6. Places'
  BY <1>3, <1>4, <1>5 DEF IInv, Places, arenaVars, history, CallLabels, WorkerLabels
<1>7. Owing' = Owing
  BY <1>4 DEF Owing, arenaVars, history, LoopLabels
<1>8. Counted'
  BY <1>3, <1>4, <1>7 DEF IInv, Counted, arenaVars, history, LoopLabels
<1>9. \A u \in Threads : \A m \in {"compare", "call", "run"} : pc'[u] = m <=> pc[u] = m
  BY <1>3, <1>4, Types
<1>10. Indices' /\ Books'
  BY <1>3, <1>5, <1>9, QuietStep DEF arenaVars, history
<1> QED BY <1>2, <1>6, <1>8, <1>10 DEF IInv

\* A worker sleeps on a generation it has seen, or exits on the flag.
LEMMA WorkerWaitsInv ==
  ASSUME IInv, NEW w \in Workers, WorkerSleep(w) \/ WorkerExit(w)
  PROVE  IInv'
<1>1. w \in Threads
  BY Types
<1>2. CASE WorkerSleep(w)
  BY <1>1, <1>2, IdleInv DEF WorkerSleep
<1>3. CASE WorkerExit(w)
  BY <1>1, <1>3, IdleInv DEF WorkerExit
<1> QED BY <1>2, <1>3

\* A thread wakes for no reason and tests again.
LEMMA SpuriousWakeupInv ==
  ASSUME IInv, NEW t \in Threads, SpuriousWakeup(t)
  PROVE  IInv'
<1>1. t \in Workers \/ t \in Calls
  BY Types
<1>2. CASE t \in Workers
  <2>1. pc[t] = "asleep_work" /\ Goto(t, "lock")
    BY <1>2 DEF SpuriousWakeup, IInv, Places, WorkerLabels, LoopLabels
  <2> QED BY <1>2, <2>1, IdleInv DEF SpuriousWakeup
<1>3. CASE t \in Calls /\ t \notin Workers
  <2>1. pc[t] = "asleep_done" /\ Goto(t, "wait")
    BY <1>3 DEF SpuriousWakeup, IInv, Places, CallLabels, LoopLabels
  <2> QED BY <1>3, <2>1, IdleInv DEF SpuriousWakeup
<1> QED BY <1>1, <1>2, <1>3

\* The destructor sets the flag once no call is under way.
LEMMA DestroyInv == IInv /\ Destroy => IInv'
<1> SUFFICES ASSUME IInv, Destroy PROVE IInv'
  OBVIOUS
<1>1. /\ ~stopping /\ stopping' = TRUE /\ generation' = generation + 1
      /\ \A k \in Calls : pc[k] \in {"new", "returned"} /\ pc'[k] = pc[k]
      /\ \A w \in Workers : IF pc[w] = "asleep_work" THEN pc'[w] = "lock" ELSE pc'[w] = pc[w]
      /\ UNCHANGED <<runMu, count, task, active, next, index, observed, history>>
  BY Types DEF Destroy
<1>2. pc' \in [Threads -> CallLabels \cup WorkerLabels \cup LoopLabels]
  BY DEF Destroy, IInv, TypeOK, WorkerLabels
<1>3. TypeOK'
  BY <1>1, <1>2 DEF IInv, TypeOK, history
<1>4. \A j \in Calls : (Sharing(j)' <=> Sharing(j)) /\ (Holding(j)' <=> Holding(j)) /\ ~Sharing(j)
  BY <1>1 DEF Sharing, Holding, LoopLabels
<1>5. Places'
  BY <1>1, <1>4 DEF IInv, Places, WorkerLabels
<1>6. task = NoCall /\ Owing = {}
  BY <1>4 DEF IInv, Places, TypeOK, Counted
<1>7. Owing' = {}
  BY <1>1, <1>6 DEF Owing, LoopLabels
<1>8. Counted'
  BY <1>1, <1>6, <1>7 DEF IInv, Counted
<1>9. Indices' /\ Books'
  <2>1. \A t \in Threads : \A l \in {"compare", "call", "run"} : pc'[t] = l <=> pc[t] = l
    BY <1>1, Types
  <2> QED BY <1>1, <1>4, <2>1, QuietStep
<1> QED BY <1>3, <1>5, <1>8, <1>9 DEF IInv

\* The members are written for the next run while no worker owes the last one,
\* and all workers owe this one.
LEMMA PublishInv ==
  ASSUME IInv, NEW k \in Calls, Publish(k)
  PROVE  IInv'
<1>1. /\ pc[k] = "publish" /\ Goto(k, "notify") /\ k \in Threads /\ k \notin Workers
      /\ count' = ItemCount[k] /\ task' = k /\ next' = 0 /\ active' = Cardinality(Workers)
      /\ generation' = generation + 1
      /\ UNCHANGED <<runMu, stopping, index, observed, history>>
  BY Types, WorkersAssumption DEF Publish
<1>2. /\ pc'[k] = "notify" /\ \A t \in Threads \ {k} : pc'[t] = pc[t]
      /\ pc' \in [Threads -> CallLabels \cup WorkerLabels \cup LoopLabels]
  BY <1>1, Move DEF CallLabels
<1>3. TypeOK'
  BY <1>1, <1>2, Types DEF IInv, TypeOK, history
<1>4. task = NoCall /\ \A t \in Threads : pc[t] \notin LoopLabels \cup {"leave"}
  BY <1>1, OneRunAtATime, NoCallAssumption
<1>5. \A j \in Calls : ~Sharing(j)
  BY <1>4, NoCallAssumption DEF IInv, Places
<1>6. /\ Sharing(k)' /\ \A j \in Calls \ {k} : ~Sharing(j)'
      /\ \A j \in Calls : Holding(j)' <=> Holding(j)
  BY <1>1, <1>2, <1>5, Types DEF Sharing, Holding, LoopLabels
<1>7. Places'
  BY <1>1, <1>2, <1>6, Types DEF IInv, Places, CallLabels
<1>8. ~stopping
  BY <1>1 DEF IInv, Counted
<1>9. Owing' = Workers
  BY <1>1, <1>8 DEF IInv, TypeOK, Counted, Owing
<1>10. \A w \in Workers : observed'[w] <= generation' /\ pc'[w] = pc[w]
  BY <1>1, <1>2, <1>8, Types DEF IInv, TypeOK, Counted
<1>11. Counted'
  BY <1>1, <1>4, <1>8, <1>9, <1>10, Types, NoCallAssumption DEF IInv, Counted
<1>12. \A t \in Threads : ~Drawn(t)'
  BY <1>2, <1>4, <1>1 DEF Drawn, LoopLabels
<1>13. Indices'
  BY <1>2, <1>1, <1>5, <1>12, Types DEF Indices, Sharing
<1>14. SharedBooks(k)'
  BY <1>1 DEF IInv, Books, SharedBooks, Items, history
<1>15. ASSUME NEW j \in Calls \ {k}, InlineBooks(j) PROVE InlineBooks(j)'
  BY <1>1, <1>2, <1>15, Types DEF InlineBooks, history
<1>16. Books'
  BY <1>1, <1>2, <1>6, <1>14, <1>15, Types DEF IInv, Books, history
<1> QED BY <1>3, <1>7, <1>11, <1>13, <1>16 DEF IInv

\* A call returns when nobody owes its run any more, so nobody reads its
\* members.
LEMMA RunReturnInv ==
  ASSUME IInv, NEW k \in Calls, RunReturn(k)
  PROVE  /\ IInv'
         /\ task = k /\ Owing = {} /\ \A t \in Threads : ~Drawn(t)
<1>1. /\ pc[k] = "wait" /\ active = 0 /\ Goto(k, "returned") /\ k \in Threads /\ k \notin Workers
      /\ task' = NoCall /\ runMu' = NoCall
      /\ UNCHANGED <<generation, count, active, stopping, next, index, observed, history>>
  BY Types, WorkersAssumption DEF RunReturn
<1>2. /\ pc'[k] = "returned" /\ \A t \in Threads \ {k} : pc'[t] = pc[t]
      /\ pc' \in [Threads -> CallLabels \cup WorkerLabels \cup LoopLabels]
  BY <1>1, Move DEF CallLabels
<1>3. TypeOK'
  BY <1>1, <1>2 DEF IInv, TypeOK, history
<1>4. Holding(k) /\ task = k /\ \A j \in Calls \ {k} : ~Holding(j) /\ ~Sharing(j)
  BY <1>1, OneRunAtATime DEF IInv, Places, Holding, Sharing
<1>5. \A j \in Calls : ~Sharing(j)' /\ ~Holding(j)'
  BY <1>2, <1>4, Types DEF Sharing, Holding, LoopLabels
<1>6. Places'
  BY <1>1, <1>2, <1>5, Types, NoCallAssumption DEF IInv, Places, CallLabels
<1>7. Owing = {}
  BY <1>1, Types, FS_EmptySet DEF IInv, Counted
<1>8. Owing' = {}
  BY <1>1, <1>2, <1>7, Types DEF Owing
<1>9. Counted'
  BY <1>1, <1>2, <1>7, <1>8, Types DEF IInv, Counted
<1>10. \A t \in Threads : ~Drawn(t)
  <2>1. ASSUME NEW t \in Threads, Drawn(t) PROVE FALSE
    <3>1. CASE t \in Workers
      BY <2>1, <3>1, <1>7 DEF Owing, Drawn, LoopLabels
    <3>2. CASE t \in Calls
      BY <2>1, <3>2, <1>1, <1>4 DEF Sharing, Drawn, LoopLabels
    <3> QED BY <3>1, <3>2, Types
  <2> QED BY <2>1
<1>11. Indices'
  BY <1>1, <1>2, <1>5, <1>10, Types DEF Indices, Drawn, Sharing
<1>12. ASSUME NEW j \in Calls \ {k}, InlineBooks(j) PROVE InlineBooks(j)'
  BY <1>1, <1>2, <1>12, Types DEF InlineBooks, history
<1>13. Books'
  BY <1>1, <1>2, <1>5, <1>12, Types DEF IInv, Books, history
<1> QED BY <1>3, <1>4, <1>6, <1>7, <1>9, <1>10, <1>11, <1>13 DEF IInv

\* A worker that sees a new generation goes to work on it.
LEMMA WorkerJoinsRunInv ==
  ASSUME IInv, NEW w \in Workers, WorkerJoinsRun(w)
  PROVE  IInv'
<1>1. /\ pc[w] = "lock" /\ ~stopping /\ generation # observed[w] /\ Goto(w, "fetch")
      /\ observed' = [observed EXCEPT ![w] = generation] /\ w \in Threads /\ w \notin Calls
      /\ UNCHANGED <<runMu, arenaVars, next, index, history>>
  BY Types, WorkersAssumption DEF WorkerJoinsRun
<1>2. /\ pc'[w] = "fetch" /\ \A t \in Threads \ {w} : pc'[t] = pc[t]
      /\ pc' \in [Threads -> CallLabels \cup WorkerLabels \cup LoopLabels]
      /\ observed'[w] = generation /\ \A v \in Workers \ {w} : observed'[v] = observed[v]
  BY <1>1, Move DEF LoopLabels, IInv, TypeOK
<1>3. TypeOK'
  BY <1>1, <1>2 DEF IInv, TypeOK, arenaVars, history
<1>4. \A j \in Calls : pc'[j] = pc[j]
  BY <1>1, <1>2, Types
<1>5. \A j \in Calls : (Sharing(j)' <=> Sharing(j)) /\ (Holding(j)' <=> Holding(j))
  BY <1>4 DEF Sharing, Holding
<1>6. Places'
  BY <1>1, <1>2, <1>4, <1>5, Types DEF IInv, Places, arenaVars, history, LoopLabels
<1>7. Owing' = Owing
  BY <1>1, <1>2, Types DEF Owing, arenaVars, history, LoopLabels
<1>8. Counted'
  BY <1>1, <1>2, <1>4, <1>7, Types DEF IInv, TypeOK, Counted, arenaVars, history
<1>9. Indices' /\ Books'
  BY <1>1, <1>2, <1>4, <1>5, Types, QuietStep DEF arenaVars, history
<1> QED BY <1>3, <1>6, <1>8, <1>9 DEF IInv

\* A worker out of RunItems is counted down, and owes the run no more.
LEMMA WorkerLeaveInv ==
  ASSUME IInv, NEW w \in Workers, WorkerLeave(w)
  PROVE  IInv'
<1>1. /\ pc[w] = "leave" /\ active' = active - 1 /\ w \in Threads /\ w \notin Calls
      /\ UNCHANGED <<runMu, generation, count, task, stopping, next, index, observed, history>>
  BY Types, WorkersAssumption DEF WorkerLeave
<1>2. /\ pc'[w] = "lock"
      /\ \A v \in Workers \ {w} : pc'[v] = pc[v]
      /\ \A k \in Calls : \/ pc'[k] = pc[k]
                          \/ pc[k] = "asleep_done" /\ pc'[k] = "wait"
  <2>1. \A v \in Workers : pc[v] # "asleep_done"
    BY DEF IInv, Places, WorkerLabels, LoopLabels
  <2>2. \A t \in Threads : pc'[t] = CASE t = w -> "lock"
                                      [] active' = 0 /\ pc[t] = "asleep_done" -> "wait"
                                      [] OTHER -> pc[t]
    BY DEF WorkerLeave
  <2> QED BY <1>1, <2>1, <2>2, Types
<1>3. pc' \in [Threads -> CallLabels \cup WorkerLabels \cup LoopLabels]
  BY DEF WorkerLeave, IInv, TypeOK, CallLabels, WorkerLabels
<1>4. \A j \in Calls : (Sharing(j)' <=> Sharing(j)) /\ (Holding(j)' <=> Holding(j))
  BY <1>2 DEF Sharing, Holding, LoopLabels
<1>5. Places'
  BY <1>1, <1>2, <1>4 DEF IInv, Places, CallLabels, WorkerLabels
<1>6. ~stopping
  BY <1>1, OneRunAtATime DEF IInv, Counted, Sharing, LoopLabels
<1>7. w \in Owing /\ Owing' = Owing \ {w}
  BY <1>1, <1>2, <1>6 DEF IInv, Counted, Owing, LoopLabels
<1>8. Cardinality(Owing') = Cardinality(Owing) - 1 /\ Cardinality(Owing) \in Nat \ {0}
  BY <1>7, Types, FS_RemoveElement, FS_CardinalityType, FS_EmptySet
<1>9. TypeOK'
  BY <1>1, <1>3, <1>8 DEF IInv, TypeOK, Counted, history
<1>10. Counted'
  BY <1>1, <1>2, <1>6, <1>7, <1>8 DEF IInv, Counted, LoopLabels
<1>11. \A t \in Threads : \A l \in {"compare", "call", "run"} : pc'[t] = l <=> pc[t] = l
  BY <1>1, <1>2, Types
<1>12. Indices' /\ Books'
  BY <1>1, <1>2, <1>4, <1>11, QuietStep
<1> QED BY <1>5, <1>9, <1>10, <1>12 DEF IInv

\* A step inside RunItems, and the one out of it, leaves the locks and the count
\* of workers as they are.
LEMMA LoopStep ==
  ASSUME IInv, NEW t \in Threads, pc[t] \in LoopLabels,
         NEW l \in LoopLabels \cup {IF t \in Calls THEN "wait" ELSE "leave"}, Goto(t, l),
         UNCHANGED <<runMu, arenaVars, observed>>
  PROVE  /\ pc'[t] = l /\ \A u \in Threads \ {t} : pc'[u] = pc[u]
         /\ pc' \in [Threads -> CallLabels \cup WorkerLabels \cup LoopLabels]
         /\ \A k \in Calls : /\ Sharing(k)' <=> Sharing(k)
                             /\ t = k => Sharing(k)
                             /\ t # k => pc'[k] = pc[k]
         /\ task \in Calls /\ Sharing(task) /\ SharedBooks(task) /\ count = ItemCount[task]
         /\ \A k \in Calls : Sharing(k) <=> k = task
         /\ Places' /\ Counted'
<1>1. /\ pc'[t] = l /\ \A u \in Threads \ {t} : pc'[u] = pc[u]
      /\ pc' \in [Threads -> CallLabels \cup WorkerLabels \cup LoopLabels]
  BY Move DEF CallLabels, WorkerLabels
<1>2. /\ \A k \in Calls : \/ pc'[k] = pc[k]
                          \/ t = k /\ pc[k] \in LoopLabels /\ pc'[k] \in LoopLabels \cup {"wait"}
      /\ \A w \in Workers : \/ pc'[w] = pc[w]
                            \/ pc[w] \in LoopLabels /\ pc'[w] \in LoopLabels \cup {"leave"}
  BY <1>1, Types, WorkersAssumption
<1>3. \A k \in Calls : /\ Sharing(k)' <=> Sharing(k)
                       /\ Holding(k)' <=> Holding(k)
                       /\ t = k => Sharing(k)
  BY <1>2 DEF Sharing, Holding, LoopLabels
<1>4. Places'
  BY <1>2, <1>3 DEF IInv, Places, arenaVars, history, CallLabels, WorkerLabels
<1>5. Owing' = Owing
  BY <1>2 DEF Owing, arenaVars, history
<1>6. Counted'
  BY <1>2, <1>3, <1>5 DEF IInv, Counted, arenaVars, history, LoopLabels
<1>7. task \in Calls /\ Sharing(task) /\ SharedBooks(task) /\ count = ItemCount[task]
  BY OneRunAtATime DEF IInv, Books
<1>8. \A k \in Calls : (Sharing(k) <=> k = task) /\ (t # k => pc'[k] = pc[k])
  BY <1>1, Types DEF IInv, Places
<1> QED BY <1>1, <1>3, <1>4, <1>6, <1>7, <1>8

\* The books of the calls that share nothing.
LEMMA OtherBooks ==
  ASSUME IInv,
         \A k \in Calls : Sharing(k) => Sharing(k)' /\ SharedBooks(k)',
         \A k \in Calls : Sharing(k)' => Sharing(k),
         \A k \in Calls : ~Sharing(k) =>
            pc'[k] = pc[k] /\ index'[k] = index[k]
            /\ started'[k] = started[k] /\ finished'[k] = finished[k]
  PROVE  Books'
<1>1. \A k \in Calls : ~Sharing(k) /\ InlineBooks(k) => InlineBooks(k)'
  BY DEF InlineBooks
<1> QED BY <1>1 DEF IInv, Books, Sharing, LoopLabels

\* fetch_add gives each index to one thread.
LEMMA FetchInv ==
  ASSUME IInv, NEW t \in Threads, Fetch(t)
  PROVE  IInv'
<1>1. /\ pc[t] = "fetch" /\ Goto(t, "compare") /\ next' = next + 1
      /\ index' = [index EXCEPT ![t] = next]
      /\ UNCHANGED <<runMu, arenaVars, observed, history>>
  BY DEF Fetch
<1>2. /\ pc'[t] = "compare" /\ \A u \in Threads \ {t} : pc'[u] = pc[u]
      /\ pc' \in [Threads -> CallLabels \cup WorkerLabels \cup LoopLabels]
      /\ \A k \in Calls : (Sharing(k)' <=> Sharing(k)) /\ (t = k => Sharing(k)) /\ (t # k => pc'[k] = pc[k])
      /\ task \in Calls /\ Sharing(task) /\ SharedBooks(task) /\ count = ItemCount[task]
      /\ \A k \in Calls : Sharing(k) <=> k = task
      /\ Places' /\ Counted'
  BY <1>1, LoopStep DEF LoopLabels
<1>3. next \in Nat /\ index \in [Threads -> Nat]
  BY DEF IInv, TypeOK
<1>4. /\ index'[t] = next /\ \A u \in Threads \ {t} : index'[u] = index[u]
      /\ index' \in [Threads -> Nat] /\ next' \in Nat
  BY <1>1, <1>3
<1>5. TypeOK' /\ \A u \in Threads : index[u] \in Nat
  BY <1>1, <1>2, <1>3, <1>4 DEF IInv, TypeOK, arenaVars, history
<1>6. ASSUME NEW u \in Threads, Drawn(u)'
      PROVE  /\ index'[u] < next' /\ (pc'[u] = "compare" \/ index'[u] < count')
             /\ \A v \in Threads \ {u} : Drawn(v)' => index'[v] # index'[u]
             /\ IF pc'[u] = "run" THEN index'[u] \in started'[task'] \ finished'[task']
                                  ELSE index'[u] \notin started'[task']
  <2>1. \A v \in Threads \ {t} : Drawn(v)' => Drawn(v) /\ index[v] < next
    BY <1>2 DEF Drawn, IInv, Indices
  <2>2. CASE u = t
    <3>1. next \notin started[task]
      BY <1>2, <1>3 DEF SharedBooks
    <3> QED BY <2>1, <2>2, <3>1, <1>1, <1>2, <1>3, <1>4, <1>5 DEF arenaVars, history
  <2>3. CASE u # t
    BY <1>6, <2>1, <2>3, <1>1, <1>2, <1>3, <1>4, <1>5 DEF Drawn, IInv, Indices, arenaVars, history
  <2> QED BY <2>2, <2>3
<1>7. Indices'
  <2>1. ASSUME NEW k \in Calls, pc'[k] \in {"wait", "asleep_done"} PROVE count' <= next'
    BY <2>1, <1>1, <1>2, <1>3, Types DEF IInv, TypeOK, Indices, arenaVars, history
  <2> QED BY <1>6, <2>1 DEF Indices
<1>8. SharedBooks(task)'
  <2>1. ASSUME NEW i \in Items(task), i < next + 1
        PROVE  i \in started[task] \/ \E u \in Threads : pc'[u] \in {"compare", "call"} /\ index'[u] = i
    <3>1. CASE i = next
      BY <3>1, <1>2, <1>4
    <3>2. CASE i < next
      BY <3>2, <1>1, <1>2, <1>4 DEF SharedBooks
    <3> QED BY <2>1, <3>1, <3>2, <1>2, <1>3, Types DEF Items
  <2>2. ASSUME NEW i \in started[task]
        PROVE  /\ i < next + 1
               /\ i \in finished[task] \/ \E u \in Threads : pc'[u] = "run" /\ index'[u] = i
    <3>1. i \in Items(task) /\ i < next
      BY <1>2 DEF SharedBooks
    <3>2. i \in finished[task] \/ \E u \in Threads : pc[u] = "run" /\ index[u] = i
      BY <1>2 DEF SharedBooks
    <3> QED BY <3>1, <3>2, <1>1, <1>2, <1>3, <1>4, Types DEF Items
  <2> QED BY <2>1, <2>2, <1>1, <1>2 DEF SharedBooks, Items, arenaVars, history
<1>9. Books'
  BY <1>1, <1>2, <1>4, <1>8, OtherBooks, Types DEF arenaVars, history
<1> QED BY <1>2, <1>5, <1>7, <1>9 DEF IInv

\* A thread leaves RunItems when the index it drew is beyond the count.
LEMMA CompareInv ==
  ASSUME IInv, NEW t \in Threads, Compare(t)
  PROVE  IInv'
<1> DEFINE l == IF index[t] < count THEN "call" ELSE IF t \in Calls THEN "wait" ELSE "leave"
<1>1. /\ pc[t] = "compare" /\ Goto(t, l)
      /\ UNCHANGED <<runMu, arenaVars, next, index, observed, history>>
  BY DEF Compare
<1>2. l \in LoopLabels \cup {IF t \in Calls THEN "wait" ELSE "leave"}
  BY DEF LoopLabels
<1>3. /\ pc'[t] = l /\ \A u \in Threads \ {t} : pc'[u] = pc[u]
      /\ pc' \in [Threads -> CallLabels \cup WorkerLabels \cup LoopLabels]
      /\ \A k \in Calls : (Sharing(k)' <=> Sharing(k)) /\ (t = k => Sharing(k)) /\ (t # k => pc'[k] = pc[k])
      /\ task \in Calls /\ Sharing(task) /\ SharedBooks(task) /\ count = ItemCount[task]
      /\ \A k \in Calls : Sharing(k) <=> k = task
      /\ Places' /\ Counted'
  <2> HIDE DEF l
  <2> QED BY <1>1, <1>2, LoopStep DEF LoopLabels
<1>4. TypeOK'
  BY <1>1, <1>3 DEF IInv, TypeOK, arenaVars, history
<1>5. /\ pc'[t] = IF index[t] < count THEN "call" ELSE IF t \in Calls THEN "wait" ELSE "leave"
      /\ index[t] < next /\ next \in Nat /\ count \in Nat /\ index[t] \in Nat
  BY <1>1, <1>3 DEF IInv, TypeOK, Indices, Drawn
<1>6. Indices'
  <2>1. \A u \in Threads : Drawn(u)' => Drawn(u)
    BY <1>1, <1>3 DEF Drawn
  <2>2. \A u \in Threads : Drawn(u)' => pc'[u] = "compare" \/ index[u] < count
    BY <1>1, <1>3, <1>5 DEF IInv, Indices, Drawn
  <2>3. \A u \in Threads : pc'[u] = "run" <=> pc[u] = "run"
    BY <1>1, <1>3, <1>5
  <2>4. \A k \in Calls : pc'[k] \in {"wait", "asleep_done"} => count <= next
    BY <1>3, <1>5, Types DEF IInv, Indices
  <2> QED BY <1>1, <2>1, <2>2, <2>3, <2>4 DEF IInv, Indices, arenaVars, history
<1>7. SharedBooks(task)'
  <2>1. ASSUME NEW i \in Items(task), i < next
        PROVE  i \in started[task] \/ \E u \in Threads : pc'[u] \in {"compare", "call"} /\ index[u] = i
    BY <2>1, <1>3, <1>5 DEF SharedBooks, Items
  <2>2. \A u \in Threads : pc'[u] = "run" <=> pc[u] = "run"
    BY <1>1, <1>3, <1>5
  <2> QED BY <1>1, <1>3, <2>1, <2>2 DEF SharedBooks, Items, arenaVars, history
<1>8. Books'
  BY <1>1, <1>3, <1>7, OtherBooks DEF arenaVars, history
<1> QED BY <1>3, <1>4, <1>6, <1>8 DEF IInv

\* A drawn index is started once, and for the run that is published.
LEMMA CallTaskInv ==
  ASSUME IInv, NEW t \in Threads, CallTask(t)
  PROVE  /\ IInv'
         /\ index[t] \in Items(task) \ started[task]
<1>1. /\ pc[t] = "call" /\ Goto(t, "run")
      /\ started' = [started EXCEPT ![task] = @ \cup {index[t]}]
      /\ entries' = [entries EXCEPT ![task] = @ + 1]
      /\ UNCHANGED <<runMu, arenaVars, next, index, observed, finished, returns>>
  BY DEF CallTask, Entered
<1>2. /\ pc'[t] = "run" /\ \A u \in Threads \ {t} : pc'[u] = pc[u]
      /\ pc' \in [Threads -> CallLabels \cup WorkerLabels \cup LoopLabels]
      /\ \A k \in Calls : (Sharing(k)' <=> Sharing(k)) /\ (t = k => Sharing(k)) /\ (t # k => pc'[k] = pc[k])
      /\ task \in Calls /\ Sharing(task) /\ SharedBooks(task) /\ count = ItemCount[task]
      /\ \A k \in Calls : Sharing(k) <=> k = task
      /\ Places' /\ Counted'
  BY <1>1, LoopStep DEF LoopLabels
<1>3. /\ index \in [Threads -> Nat] /\ count \in Nat /\ next \in Nat
      /\ index[t] < count /\ index[t] < next /\ index[t] \notin started[task]
  BY <1>1 DEF IInv, TypeOK, Indices, Drawn
<1>4. /\ started'[task] = started[task] \cup {index[t]} /\ started' \in [Calls -> SUBSET Nat]
      /\ \A k \in Calls \ {task} : started'[k] = started[k]
  BY <1>1, <1>2, <1>3 DEF IInv, TypeOK
<1>5. TypeOK'
  BY <1>1, <1>2, <1>4 DEF IInv, TypeOK, arenaVars, history
<1>6. index[t] \in Items(task)
  BY <1>2, <1>3 DEF Items
<1>7. ASSUME NEW u \in Threads, Drawn(u)'
      PROVE  /\ index[u] < next /\ (pc'[u] = "compare" \/ index[u] < count)
             /\ \A v \in Threads \ {u} : Drawn(v)' => index[v] # index[u]
             /\ IF pc'[u] = "run" THEN index[u] \in started'[task] \ finished[task]
                                  ELSE index[u] \notin started'[task]
  <2>1. \A v \in Threads : Drawn(v)' <=> Drawn(v)
    BY <1>1, <1>2 DEF Drawn
  <2>2. /\ index[u] < next /\ (pc[u] = "compare" \/ index[u] < count)
        /\ \A v \in Threads \ {u} : Drawn(v) => index[v] # index[u]
        /\ IF pc[u] = "run" THEN index[u] \in started[task] \ finished[task]
                            ELSE index[u] \notin started[task]
    BY <1>7, <2>1 DEF IInv, Indices
  <2>3. CASE u = t
    BY <1>1, <1>2, <1>3, <1>4, <2>1, <2>2, <2>3 DEF SharedBooks
  <2>4. CASE u # t
    <3>1. index[u] # index[t]
      BY <1>1, <2>2, <2>4 DEF Drawn
    <3> QED BY <1>2, <1>4, <2>1, <2>2, <2>4, <3>1
  <2> QED BY <2>3, <2>4
<1>8. Indices'
  <2>1. \A k \in Calls : pc'[k] \in {"wait", "asleep_done"} => count <= next
    BY <1>2 DEF IInv, Indices
  <2> QED BY <1>1, <1>7, <2>1 DEF Indices, arenaVars, history
<1>9. SharedBooks(task)'
  <2>1. ASSUME NEW i \in Items(task), i < next
        PROVE  i \in started'[task] \/ \E u \in Threads : pc'[u] \in {"compare", "call"} /\ index[u] = i
    <3>1. CASE i = index[t]
      BY <3>1, <1>4
    <3>2. CASE i # index[t]
      BY <2>1, <3>2, <1>2, <1>4 DEF SharedBooks
    <3> QED BY <3>1, <3>2
  <2>2. ASSUME NEW i \in started'[task]
        PROVE  /\ i < next
               /\ i \in finished[task] \/ \E u \in Threads : pc'[u] = "run" /\ index[u] = i
    <3>1. CASE i = index[t]
      BY <3>1, <1>2, <1>3
    <3>2. CASE i # index[t]
      <4>1. i < next /\ (i \in finished[task] \/ \E u \in Threads : pc[u] = "run" /\ index[u] = i)
        BY <3>2, <1>2, <1>4 DEF SharedBooks
      <4> QED BY <4>1, <1>1, <1>2
    <3> QED BY <3>1, <3>2
  <2>3. finished[task] \subseteq started'[task] /\ started'[task] \subseteq Items(task)
    BY <1>2, <1>4, <1>6 DEF SharedBooks
  <2> QED BY <1>1, <2>1, <2>2, <2>3 DEF SharedBooks, Items, arenaVars, history
<1>10. Books'
  BY <1>1, <1>2, <1>4, <1>9, OtherBooks DEF arenaVars, history
<1> QED BY <1>1, <1>2, <1>3, <1>5, <1>6, <1>8, <1>10 DEF IInv

\* A started item is finished once, and for the run it was started in.
LEMMA TaskReturnsInv ==
  ASSUME IInv, NEW t \in Threads, TaskReturns(t)
  PROVE  /\ IInv'
         /\ task \in Calls /\ index[t] \in Items(task)
         /\ index[t] \in started[task] \ finished[task]
<1>1. /\ pc[t] = "run" /\ Goto(t, "fetch")
      /\ finished' = [finished EXCEPT ![task] = @ \cup {index[t]}]
      /\ returns' = [returns EXCEPT ![task] = @ + 1]
      /\ UNCHANGED <<runMu, arenaVars, next, index, observed, started, entries>>
  BY DEF TaskReturns, Returned
<1>2. /\ pc'[t] = "fetch" /\ \A u \in Threads \ {t} : pc'[u] = pc[u]
      /\ pc' \in [Threads -> CallLabels \cup WorkerLabels \cup LoopLabels]
      /\ \A k \in Calls : (Sharing(k)' <=> Sharing(k)) /\ (t = k => Sharing(k)) /\ (t # k => pc'[k] = pc[k])
      /\ task \in Calls /\ Sharing(task) /\ SharedBooks(task) /\ count = ItemCount[task]
      /\ \A k \in Calls : Sharing(k) <=> k = task
      /\ Places' /\ Counted'
  BY <1>1, LoopStep DEF LoopLabels
<1>3. /\ index \in [Threads -> Nat]
      /\ index[t] \in started[task] \ finished[task]
  BY <1>1 DEF IInv, TypeOK, Indices, Drawn
<1>4. /\ finished'[task] = finished[task] \cup {index[t]} /\ finished' \in [Calls -> SUBSET Nat]
      /\ \A k \in Calls \ {task} : finished'[k] = finished[k]
  BY <1>1, <1>2, <1>3 DEF IInv, TypeOK
<1>5. TypeOK'
  BY <1>1, <1>2, <1>4 DEF IInv, TypeOK, arenaVars, history
<1>6. Indices'
  <2>1. \A u \in Threads : Drawn(u)' => Drawn(u) /\ u # t /\ pc'[u] = pc[u] /\ index[u] # index[t]
    BY <1>1, <1>2 DEF IInv, Indices, Drawn
  <2>2. \A u \in Threads : pc'[u] = "run" /\ Drawn(u)' => index[u] \in started[task] \ finished'[task]
    BY <1>4, <2>1 DEF IInv, Indices
  <2>3. \A k \in Calls : pc'[k] \in {"wait", "asleep_done"} => count <= next
    BY <1>2 DEF IInv, Indices
  <2> QED BY <1>1, <2>1, <2>2, <2>3 DEF IInv, Indices, arenaVars, history
<1>7. SharedBooks(task)'
  <2>1. ASSUME NEW i \in Items(task), i < next
        PROVE  i \in started[task] \/ \E u \in Threads : pc'[u] \in {"compare", "call"} /\ index[u] = i
    BY <2>1, <1>1, <1>2 DEF SharedBooks
  <2>2. ASSUME NEW i \in started[task]
        PROVE  /\ i < next
               /\ i \in finished'[task] \/ \E u \in Threads : pc'[u] = "run" /\ index[u] = i
    <3>1. i < next /\ (i \in finished[task] \/ \E u \in Threads : pc[u] = "run" /\ index[u] = i)
      BY <1>2 DEF SharedBooks
    <3> QED BY <3>1, <1>2, <1>4
  <2>3. finished'[task] \subseteq started[task] /\ started[task] \subseteq Items(task)
    BY <1>2, <1>3, <1>4 DEF SharedBooks
  <2> QED BY <1>1, <2>1, <2>2, <2>3 DEF SharedBooks, Items, arenaVars, history
<1>8. Books'
  BY <1>1, <1>2, <1>4, <1>7, OtherBooks DEF arenaVars, history
<1> QED BY <1>2, <1>3, <1>5, <1>6, <1>8 DEF IInv, SharedBooks

\* A step of a call that runs inline concerns nobody else.
LEMMA InlineStep ==
  ASSUME IInv, NEW k \in Calls, pc[k] \in {"inline", "inline_run"},
         NEW l \in {"inline", "inline_run", "returned"}, Goto(k, l),
         UNCHANGED <<runMu, arenaVars, next, observed>>,
         \A t \in Threads \ {k} : index'[t] = index[t],
         \A j \in Calls \ {k} : started'[j] = started[j] /\ finished'[j] = finished[j],
         index' \in [Threads -> Nat],
         started' \in [Calls -> SUBSET Nat], finished' \in [Calls -> SUBSET Nat],
         entries' \in [Calls -> Nat], returns' \in [Calls -> Nat],
         l \in {"inline", "inline_run"} => InlineBooks(k)'
  PROVE  IInv'
<1>1. /\ pc'[k] = l /\ \A t \in Threads \ {k} : pc'[t] = pc[t]
      /\ pc' \in [Threads -> CallLabels \cup WorkerLabels \cup LoopLabels]
      /\ k \in Threads /\ k \notin Workers
  BY Types, Move, WorkersAssumption DEF CallLabels
<1>2. TypeOK'
  BY <1>1 DEF IInv, TypeOK, arenaVars, history
<1>3. \A j \in Calls : (Sharing(j)' <=> Sharing(j)) /\ (Holding(j)' <=> Holding(j))
  BY <1>1, Types DEF Sharing, Holding, LoopLabels
<1>4. ~Sharing(k) /\ ~stopping
  BY DEF Sharing, LoopLabels, IInv, Counted
<1>5. Places'
  BY <1>1, <1>3, Types DEF IInv, Places, arenaVars, history, CallLabels
<1>6. Owing' = Owing
  BY <1>1, Types DEF Owing, arenaVars, history
<1>7. Counted'
  BY <1>1, <1>4, <1>6, Types DEF IInv, Counted, arenaVars, history
<1>8. Indices'
  <2>1. \A t \in Threads : Drawn(t)' <=> Drawn(t)
    BY <1>1 DEF Drawn
  <2>2. \A t \in Threads : Drawn(t) => t # k /\ task \in Calls \ {k}
    BY <1>1, <1>4, OneRunAtATime DEF Drawn, LoopLabels, Sharing
  <2>3. \A j \in Calls : pc'[j] \in {"wait", "asleep_done"} => count <= next
    BY <1>1, Types DEF IInv, Indices
  <2> QED BY <1>1, <2>1, <2>2, <2>3 DEF IInv, Indices, arenaVars, history
<1>9. ASSUME NEW j \in Calls, Sharing(j) PROVE SharedBooks(j)'
  <2>1. j # k /\ SharedBooks(j)
    BY <1>4, <1>9 DEF IInv, Books
  <2>2. \A t \in Threads : pc'[t] \in {"compare", "call", "run"} <=> t # k /\ pc[t] \in {"compare", "call", "run"}
    BY <1>1
  <2> QED BY <1>1, <2>1, <2>2 DEF SharedBooks, Items
<1>10. ASSUME NEW j \in Calls \ {k}, InlineBooks(j) PROVE InlineBooks(j)'
  BY <1>1, <1>10, Types DEF InlineBooks
<1>11. Books'
  BY <1>1, <1>3, <1>9, <1>10, Types DEF IInv, Books
<1> QED BY <1>2, <1>5, <1>7, <1>8, <1>11 DEF IInv

\* An inline call starts its items one after the other and returns after the
\* last.
LEMMA InlineCallInv ==
  ASSUME IInv, NEW k \in Calls, InlineCall(k)
  PROVE  /\ IInv'
         /\ pc'[k] = "inline_run" => index[k] \in Items(k) \ started[k]
         /\ pc'[k] = "returned" => finished[k] = Items(k)
<1>1. /\ pc[k] = "inline" /\ k \in Threads /\ index \in [Threads -> Nat] /\ ItemCount[k] \in Nat
      /\ started \in [Calls -> SUBSET Nat] /\ finished \in [Calls -> SUBSET Nat]
      /\ entries \in [Calls -> Nat] /\ returns \in [Calls -> Nat]
      /\ UNCHANGED <<runMu, arenaVars, next, index, observed, finished, returns>>
  BY Types DEF InlineCall, Entered, history, IInv, TypeOK
<1>2. /\ finished[k] = 0 .. index[k] - 1 /\ index[k] <= ItemCount[k] /\ started[k] = finished[k]
  BY <1>1 DEF IInv, Books, InlineBooks
<1>3. CASE index[k] < ItemCount[k]
  <2>1. /\ Goto(k, "inline_run") /\ started' = [started EXCEPT ![k] = @ \cup {index[k]}]
        /\ entries' = [entries EXCEPT ![k] = @ + 1]
    BY <1>3 DEF InlineCall, Entered
  <2>2. pc'[k] = "inline_run"
    BY <1>1, <2>1, Move DEF CallLabels
  <2>3. index[k] \in Items(k) \ started[k]
    BY <1>1, <1>2, <1>3 DEF Items
  <2>4. started'[k] = 0 .. index[k] /\ started' \in [Calls -> SUBSET Nat] /\ entries' \in [Calls -> Nat]
    BY <1>1, <1>2, <2>1
  <2>5. InlineBooks(k)'
    BY <1>1, <1>2, <1>3, <2>2, <2>4 DEF InlineBooks
  <2>6. IInv'
    BY <1>1, <2>1, <2>4, <2>5, InlineStep
  <2> QED BY <2>2, <2>3, <2>6
<1>4. CASE ~(index[k] < ItemCount[k])
  <2>1. Goto(k, "returned") /\ UNCHANGED <<started, entries>>
    BY <1>4 DEF InlineCall, history
  <2>2. pc'[k] = "returned"
    BY <1>1, <2>1, Move DEF CallLabels
  <2>3. finished[k] = Items(k)
    BY <1>1, <1>2, <1>4 DEF Items
  <2>4. IInv'
    BY <1>1, <2>1, InlineStep
  <2> QED BY <2>2, <2>3, <2>4
<1> QED BY <1>3, <1>4

\* An item of an inline call is finished.
LEMMA InlineReturnsInv ==
  ASSUME IInv, NEW k \in Calls, InlineReturns(k)
  PROVE  IInv' /\ index[k] \in Items(k) /\ index[k] \in started[k] \ finished[k]
<1>1. /\ pc[k] = "inline_run" /\ Goto(k, "inline") /\ k \in Threads /\ ItemCount[k] \in Nat
      /\ index \in [Threads -> Nat] /\ finished \in [Calls -> SUBSET Nat] /\ started \in [Calls -> SUBSET Nat]
      /\ entries \in [Calls -> Nat] /\ returns \in [Calls -> Nat]
      /\ finished' = [finished EXCEPT ![k] = @ \cup {index[k]}]
      /\ returns' = [returns EXCEPT ![k] = @ + 1]
      /\ index' = [index EXCEPT ![k] = @ + 1]
      /\ UNCHANGED <<runMu, arenaVars, next, observed, started, entries>>
  BY Types DEF InlineReturns, Returned, IInv, TypeOK
<1>2. /\ finished[k] = 0 .. index[k] - 1 /\ index[k] < ItemCount[k] /\ started[k] = 0 .. index[k]
  BY <1>1 DEF IInv, Books, InlineBooks
<1>3. index[k] \in Items(k) /\ index[k] \in started[k] \ finished[k]
  BY <1>1, <1>2 DEF Items
<1>4. /\ index'[k] = index[k] + 1 /\ finished'[k] = 0 .. index[k]
      /\ index' \in [Threads -> Nat] /\ finished' \in [Calls -> SUBSET Nat] /\ returns' \in [Calls -> Nat]
      /\ \A t \in Threads \ {k} : index'[t] = index[t]
  BY <1>1, <1>2
<1>5. pc'[k] = "inline"
  BY <1>1, Move DEF CallLabels
<1>6. InlineBooks(k)'
  BY <1>1, <1>2, <1>4, <1>5 DEF InlineBooks
<1>7. IInv'
  BY <1>1, <1>4, <1>6, InlineStep
<1> QED BY <1>3, <1>7

\* Every step keeps the invariant.
LEMMA NextInv == IInv /\ [Next]_vars => IInv'
<1> SUFFICES ASSUME IInv, [Next]_vars PROVE IInv'
  OBVIOUS
<1>1. ASSUME NEW t \in Threads, Loop(t) PROVE IInv'
  BY <1>1, FetchInv, CompareInv, CallTaskInv, TaskReturnsInv DEF Loop
<1>2. ASSUME NEW t \in Threads, SpuriousWakeup(t) PROVE IInv'
  BY <1>2, SpuriousWakeupInv
<1>3. ASSUME NEW k \in Calls, Run(k) PROVE IInv'
  BY <1>3, RunBeginInv, AcquireRunMuInv, PublishInv, NotifyAllInv, WaitForWorkersInv,
     RunReturnInv, InlineCallInv, InlineReturnsInv DEF Run
<1>4. ASSUME NEW w \in Workers, WorkerLoop(w) PROVE IInv'
  BY <1>4, WorkerWaitsInv, WorkerJoinsRunInv, WorkerLeaveInv DEF WorkerLoop
<1>5. CASE UNCHANGED vars
  <2>1. /\ TypeOK' = TypeOK /\ Places' = Places /\ Owing' = Owing
        /\ Indices' = Indices /\ Books' = Books
    BY <1>5 DEF vars, arenaVars, history, TypeOK, Places, Holding, Sharing, Owing, Indices, Drawn, Books,
                SharedBooks, InlineBooks
  <2> QED BY <1>5, <2>1 DEF IInv, Counted, vars, arenaVars, history
<1> QED BY <1>1, <1>2, <1>3, <1>4, <1>5, DestroyInv DEF Next, Destroyed

\* IInv holds in every reachable state: what each thread drew, started and
\* finished is accounted for, and active_workers counts the workers that owe.
THEOREM InductiveInvariant == Spec => []IInv
<1>1. Init => IInv
  BY InitInv
<1>2. IInv /\ [Next]_vars => IInv'
  BY NextInv
<1> QED BY <1>1, <1>2, PTL DEF Spec, Safety

\* Every variable of the arena keeps its type; in particular active_workers,
\* which each worker decrements, never goes below zero.
THEOREM TypeCorrect == Spec => []TypeOK
<1>1. IInv => TypeOK
  BY DEF IInv
<1> QED BY <1>1, InductiveInvariant, PTL

\* Whenever a call of Run writes count, task and next, no worker is inside
\* RunItems, where those members are read without the lock.
THEOREM PublishExclusive == Spec => []PublishIsExclusive
<1>1. IInv => PublishIsExclusive
  BY OneRunAtATime, NoCallAssumption DEF PublishIsExclusive, Threads
<1> QED BY <1>1, InductiveInvariant, PTL

-----------------------------------------------------------------------------
(* What RunsReturn and WorkersExit rest on: no wakeup is lost.               *)

\* A call sleeps only while some worker is counted; a worker sleeps only on a
\* generation it has seen, or until the call that published the next notifies.
Awake ==
  /\ \A k \in Calls : pc[k] = "asleep_done" => active # 0
  /\ \A w \in Workers : pc[w] = "asleep_work" =>
        ~stopping /\ (observed[w] = generation \/ \E k \in Calls : pc[k] = "notify")

\* Every thread that sleeps or waits for run_mu waits for one that does not: a
\* call for a worker in RunItems, on its way out of it or on its way in; a call
\* that wants run_mu for the call that holds it.  A worker sleeps through neither
\* a published run, once it was notified, nor the destructor.
NobodySleepsInVain ==
  /\ \A k \in Calls : pc[k] = "asleep_done" =>
        \E w \in Workers : \/ pc[w] \in LoopLabels \cup {"leave"}
                           \/ pc[w] = "lock" /\ ~stopping /\ observed[w] # generation
  /\ \A k \in Calls : pc[k] = "acquire" /\ runMu # NoCall =>
        pc[runMu] \in LoopLabels \cup {"publish", "notify", "wait", "asleep_done"}
  /\ \A w \in Workers : pc[w] = "asleep_work" =>
        ~stopping /\ (observed[w] = generation \/ \E k \in Calls : pc[k] = "notify")

\* A thread that is about to call the member `task` finds a function there.
TaskIsSet == \A t \in Threads : pc[t] = "call" => task # NoCall

\* A step that puts nobody to sleep, takes no one from notifying and counts no
\* worker out.
LEMMA StaysAwake ==
  ASSUME Awake, UNCHANGED <<active, stopping, generation>>,
         \A k \in Calls : pc'[k] = "asleep_done" => pc[k] = "asleep_done",
         \A k \in Calls : pc[k] = "notify" => pc'[k] = "notify",
         \A w \in Workers : pc'[w] = "asleep_work" => pc[w] = "asleep_work" /\ observed'[w] = observed[w]
  PROVE  Awake'
BY DEF Awake

\* Every step leaves somebody awake for each sleeper.
LEMMA StepStaysAwake == ASSUME IInv, Awake, [Next]_vars PROVE Awake'
<1> USE Types, WorkersAssumption
<1>0. /\ pc \in [Threads -> CallLabels \cup WorkerLabels \cup LoopLabels]
      /\ observed \in [Workers -> Nat] /\ active \in Nat
  BY DEF IInv, TypeOK
<1>1. ASSUME NEW t \in Threads, Loop(t) \/ SpuriousWakeup(t) PROVE Awake'
  <2>1. UNCHANGED <<active, stopping, generation, observed>>
    BY <1>1 DEF Loop, Fetch, Compare, CallTask, TaskReturns, SpuriousWakeup, arenaVars, history
  <2>2. PICK l \in LoopLabels \cup {"wait", "leave", "lock"} : Goto(t, l)
    BY <1>1 DEF Loop, Fetch, Compare, CallTask, TaskReturns, SpuriousWakeup, LoopLabels
  <2>3. pc[t] # "notify"
    BY <1>1 DEF Loop, Fetch, Compare, CallTask, TaskReturns, SpuriousWakeup
  <2>4. pc'[t] = l /\ \A u \in Threads \ {t} : pc'[u] = pc[u]
    BY <1>0, <2>2 DEF Goto
  <2> QED BY <2>1, <2>3, <2>4, StaysAwake DEF LoopLabels
<1>2. ASSUME NEW k \in Calls, RunBegin(k) \/ AcquireRunMu(k) \/ RunReturn(k) \/ InlineCall(k) \/ InlineReturns(k)
      PROVE  Awake'
  <2>1. UNCHANGED <<active, stopping, generation, observed>>
    BY <1>2 DEF RunBegin, AcquireRunMu, RunReturn, InlineCall, InlineReturns, arenaVars, history
  <2>2. PICK l \in {"returned", "acquire", "inline", "publish", "inline_run"} : Goto(k, l)
    BY <1>2 DEF RunBegin, AcquireRunMu, RunReturn, InlineCall, InlineReturns
  <2>3. pc[k] # "notify"
    BY <1>2 DEF RunBegin, AcquireRunMu, RunReturn, InlineCall, InlineReturns
  <2>4. pc'[k] = l /\ \A u \in Threads \ {k} : pc'[u] = pc[u]
    BY <1>0, <2>2 DEF Goto
  <2> QED BY <2>1, <2>3, <2>4, StaysAwake
<1>3. ASSUME NEW k \in Calls, WaitForWorkers(k) PROVE Awake'
  <2>1. /\ active # 0 /\ pc[k] = "wait" /\ UNCHANGED <<active, stopping, generation, observed>>
        /\ pc'[k] = "asleep_done" /\ \A u \in Threads \ {k} : pc'[u] = pc[u]
    BY <1>0, <1>3 DEF WaitForWorkers, Goto, arenaVars, history
  <2> QED BY <2>1 DEF Awake
<1>4. ASSUME NEW k \in Calls, Publish(k) PROVE Awake'
  <2>1. /\ pc[k] = "publish" /\ pc'[k] = "notify" /\ UNCHANGED stopping
        /\ \A u \in Threads \ {k} : pc'[u] = pc[u]
    BY <1>0, <1>4 DEF Publish, Goto
  <2>2. \A j \in Calls : pc[j] # "asleep_done"
    <3>1. Holding(k) /\ \A j \in Calls : pc[j] = "asleep_done" => Holding(j)
      BY <2>1 DEF Holding, Sharing
    <3> QED BY <2>1, <3>1, OneRunAtATime
  <2> QED BY <2>1, <2>2 DEF Awake
<1>5. ASSUME NEW k \in Calls, NotifyAll(k) PROVE Awake'
  <2>1. /\ UNCHANGED <<active, stopping, generation, observed>>
        /\ \A t \in Threads : pc'[t] # "asleep_work" /\ (pc'[t] = "asleep_done" => pc[t] = "asleep_done")
    BY <1>0, <1>5 DEF NotifyAll, arenaVars, history
  <2> QED BY <2>1 DEF Awake
<1>6. ASSUME NEW w \in Workers, WorkerSleep(w) PROVE Awake'
  <2>1. /\ ~stopping /\ observed[w] = generation /\ pc[w] = "lock"
        /\ UNCHANGED <<active, stopping, generation, observed>>
        /\ pc'[w] = "asleep_work" /\ \A u \in Threads \ {w} : pc'[u] = pc[u]
    BY <1>0, <1>6 DEF WorkerSleep, Goto, arenaVars, history
  <2>2. \A k \in Calls : pc'[k] = pc[k]
    BY <2>1
  <2> QED BY <2>1, <2>2 DEF Awake
<1>7. ASSUME NEW w \in Workers, WorkerJoinsRun(w) \/ WorkerExit(w) PROVE Awake'
  <2>1. UNCHANGED <<active, stopping, generation>> /\ \A v \in Workers \ {w} : observed'[v] = observed[v]
    BY <1>0, <1>7 DEF WorkerJoinsRun, WorkerExit, arenaVars, history
  <2>2. PICK l \in {"fetch", "exited"} : Goto(w, l)
    BY <1>7 DEF WorkerJoinsRun, WorkerExit
  <2>3. pc'[w] = l /\ (\A u \in Threads \ {w} : pc'[u] = pc[u]) /\ \A k \in Calls : pc'[k] = pc[k]
    BY <1>0, <2>2 DEF Goto
  <2> QED BY <2>1, <2>3, StaysAwake
<1>8. ASSUME NEW w \in Workers, WorkerLeave(w) PROVE Awake'
  <2>1. /\ UNCHANGED <<stopping, generation, observed>> /\ pc[w] = "leave" /\ pc'[w] = "lock"
        /\ \A t \in Threads \ {w} :
             pc'[t] = IF active' = 0 /\ pc[t] = "asleep_done" THEN "wait" ELSE pc[t]
    BY <1>0, <1>8 DEF WorkerLeave
  <2>2. \A k \in Calls : k \in Threads \ {w}
    OBVIOUS
  <2> QED BY <2>1, <2>2 DEF Awake
<1>9. CASE Destroy
  <2>1. \A k \in Calls : pc'[k] \in {"new", "returned"}
    BY <1>0, <1>9 DEF Destroy
  <2>2. \A w \in Workers : pc'[w] # "asleep_work"
    BY <1>0, <1>9 DEF Destroy
  <2> QED BY <2>1, <2>2 DEF Awake
<1>10. CASE UNCHANGED vars
  BY <1>10, StaysAwake DEF vars, arenaVars, history
<1> QED BY <1>1, <1>2, <1>3, <1>4, <1>5, <1>6, <1>7, <1>8, <1>9, <1>10
        DEF Next, Run, WorkerLoop, Destroyed

\* No interleaving of calls, workers, spurious wakeups and the destructor leaves
\* a thread asleep with nobody awake to wake it.
THEOREM NoLostWakeup == Spec => []NobodySleepsInVain
<1>1. Init => Awake
  BY WorkersAssumption DEF Init, Awake, Threads
<1>2. IInv /\ Awake /\ [Next]_vars => Awake'
  BY StepStaysAwake
<1>3. ASSUME IInv, Awake PROVE NobodySleepsInVain
  <2>1. ASSUME NEW k \in Calls, pc[k] = "asleep_done"
        PROVE  \E w \in Workers : \/ pc[w] \in LoopLabels \cup {"leave"}
                                  \/ pc[w] = "lock" /\ ~stopping /\ observed[w] # generation
    <3>1. active # 0 /\ active = Cardinality(Owing)
      BY <1>3, <2>1 DEF Awake, IInv, Counted
    <3>2. PICK w : w \in Owing
      BY <3>1, FS_EmptySet
    <3>3. /\ w \in Workers /\ pc[w] \in WorkerLabels \cup LoopLabels
          /\ \/ pc[w] \in LoopLabels \cup {"leave"}
             \/ ~stopping /\ observed[w] # generation
          /\ ~stopping => pc[w] # "exited"
      BY <1>3, <3>2 DEF Owing, IInv, Places, Counted
    <3>4. \A j \in Calls : pc[j] # "notify"
      <4>1. Holding(k) /\ \A j \in Calls : pc[j] = "notify" => Holding(j)
        BY <2>1 DEF Holding, Sharing
      <4> QED BY <1>3, <2>1, <4>1, OneRunAtATime
    <3>5. pc[w] = "asleep_work" => observed[w] = generation
      BY <1>3, <3>3, <3>4 DEF Awake
    <3> QED BY <3>3, <3>5 DEF WorkerLabels
  <2>2. ASSUME runMu # NoCall
        PROVE  pc[runMu] \in LoopLabels \cup {"publish", "notify", "wait", "asleep_done"}
    <3>1. runMu \in Calls
      BY <1>3, <2>2 DEF IInv, TypeOK
    <3>2. Holding(runMu)
      BY <1>3, <3>1 DEF IInv, Places
    <3> QED BY <3>2 DEF Holding, Sharing
  <2> QED BY <1>3, <2>1, <2>2 DEF NobodySleepsInVain, Awake
<1> QED BY <1>1, <1>2, <1>3, InductiveInvariant, PTL DEF Spec, Safety

\* The function a thread calls in RunItems is there: no call is cleared from
\* `task` while a thread that drew one of its indices has not entered it.
THEOREM NobodyCallsNothing == Spec => []TaskIsSet
<1>1. IInv => TaskIsSet
  BY OneRunAtATime, NoCallAssumption DEF TaskIsSet, LoopLabels
<1> QED BY <1>1, InductiveInvariant, PTL

-----------------------------------------------------------------------------
(* Run of the arena implements a parallel for. *)

Statuses == [k \in Calls |-> Status(k)]
ForVars  == <<Statuses, history>>

\* A step that begins no call, ends none and moves no index is a stutter.
LEMMA QuietRefines ==
  ASSUME UNCHANGED <<history>>,
         \A k \in Calls : \A s \in {"new", "returned"} : pc'[k] = s <=> pc[k] = s
  PROVE  UNCHANGED ForVars
<1>1. \A k \in Calls : Status(k)' = Status(k)
  BY DEF Status
<1> QED BY <1>1 DEF ForVars, Statuses

\* A step that moves one call and leaves the others where they are.
LEMMA StatusOfOne ==
  ASSUME IInv, NEW k \in Calls, NEW l \in CallLabels, Goto(k, l)
  PROVE  Statuses' = [Statuses EXCEPT ![k] =
           CASE l = "new" -> "new" [] l = "returned" -> "returned" [] OTHER -> "running"]
<1>1. pc'[k] = l /\ \A j \in Calls \ {k} : pc'[j] = pc[j]
  BY Move, Types
<1>2. Status(k)' = CASE l = "new" -> "new" [] l = "returned" -> "returned" [] OTHER -> "running"
  BY <1>1 DEF Status
<1>3. \A j \in Calls \ {k} : Status(j)' = Status(j)
  BY <1>1 DEF Status
<1> QED BY <1>2, <1>3 DEF Statuses

\* The beginning of a call is that of a parallel for.
LEMMA RunBeginRefines ==
  ASSUME IInv, NEW k \in Calls, RunBegin(k)
  PROVE  For!Next
<1>1. /\ pc[k] = "new" /\ UNCHANGED <<history>> /\ Statuses[k] = "new"
  BY DEF RunBegin, Statuses, Status
<1>2. CASE ItemCount[k] = 0
  <2>1. Statuses' = [Statuses EXCEPT ![k] = "returned"]
    BY <1>2, StatusOfOne DEF RunBegin, CallLabels
  <2>2. For!Items(k) = {}
    BY <1>2 DEF For!Items
  <2>3. For!Skip(k)
    BY <1>1, <2>1, <2>2 DEF For!Skip, For!items, history, Statuses
  <2> QED BY <2>3 DEF For!Next
<1>3. CASE ItemCount[k] # 0
  <2>1. PICK l \in {"acquire", "inline"} : Goto(k, l)
    BY <1>3 DEF RunBegin
  <2>2. Statuses' = [Statuses EXCEPT ![k] = "running"]
    BY <2>1, StatusOfOne DEF CallLabels
  <2>3. For!Begin(k)
    BY <1>1, <2>2 DEF For!Begin, For!items, history, Statuses
  <2> QED BY <2>3 DEF For!Next
<1> QED BY <1>2, <1>3

\* The caller returns when every index below count was drawn and nobody is at one.
LEMMA RunReturnRefines ==
  ASSUME IInv, NEW k \in Calls, RunReturn(k)
  PROVE  For!Next
<1>1. /\ pc[k] = "wait" /\ Goto(k, "returned") /\ UNCHANGED <<history>>
      /\ task = k /\ \A t \in Threads : ~Drawn(t)
  BY RunReturnInv DEF RunReturn
<1>2. SharedBooks(k) /\ count = ItemCount[k] /\ count <= next
  <2>1. Sharing(k) /\ k # NoCall
    BY <1>1, NoCallAssumption DEF Sharing
  <2>2. SharedBooks(k)
    BY <2>1 DEF IInv, Books
  <2>3. count <= next
    BY <1>1 DEF IInv, Indices
  <2> QED BY <1>1, <2>1, <2>2, <2>3 DEF IInv, Places
<1>3. \A i \in Items(k) : i < next
  BY <1>2, Types DEF IInv, TypeOK, Items
<1>4. finished[k] = For!Items(k)
  BY <1>1, <1>2, <1>3 DEF SharedBooks, Drawn, Items, For!Items
<1>5. Statuses' = [Statuses EXCEPT ![k] = "returned"] /\ Statuses[k] = "running"
  BY <1>1, StatusOfOne DEF CallLabels, Statuses, Status
<1>6. For!End(k)
  BY <1>1, <1>4, <1>5 DEF For!End, For!items, history, Statuses
<1> QED BY <1>6 DEF For!Next

\* The call of the task starts an item that was not started.
LEMMA CallTaskRefines ==
  ASSUME IInv, NEW t \in Threads, CallTask(t)
  PROVE  For!Next
<1>1. /\ index[t] \in For!Items(task) \ started[task] /\ task \in Calls
      /\ Entered(task, index[t])
      /\ pc[t] = "call" /\ pc'[t] = "run"
      /\ \A u \in Threads \ {t} : pc'[u] = pc[u]
  BY CallTaskInv, OneRunAtATime, Move DEF CallTask, LoopLabels, For!Items, Items
<1>2. UNCHANGED Statuses /\ Statuses[task] = "running"
  <2>1. \A k \in Calls : Status(k)' = Status(k)
    BY <1>1, Types DEF Status
  <2>2. Status(task) = "running"
    BY OneRunAtATime, <1>1 DEF Status, Sharing, LoopLabels
  <2> QED BY <1>1, <2>1, <2>2 DEF Statuses
<1>3. For!Start(task, index[t])
  BY <1>1, <1>2 DEF For!Start, Entered, Statuses
<1> QED BY <1>1, <1>3 DEF For!Next

\* The return of the task finishes an item.
LEMMA TaskReturnsRefines ==
  ASSUME IInv, NEW t \in Threads, TaskReturns(t)
  PROVE  For!Next
<1>1. /\ index[t] \in For!Items(task) /\ index[t] \in started[task] \ finished[task] /\ task \in Calls
      /\ Returned(task, index[t])
      /\ pc[t] = "run" /\ pc'[t] = "fetch"
      /\ \A u \in Threads \ {t} : pc'[u] = pc[u]
  BY TaskReturnsInv, Move DEF TaskReturns, LoopLabels, For!Items, Items
<1>2. UNCHANGED Statuses /\ Statuses[task] = "running"
  <2>1. \A k \in Calls : Status(k)' = Status(k)
    BY <1>1, Types DEF Status
  <2>2. Status(task) = "running"
    BY OneRunAtATime, <1>1 DEF Status, Sharing, LoopLabels
  <2> QED BY <1>1, <2>1, <2>2 DEF Statuses
<1>3. For!Finish(task, index[t])
  BY <1>1, <1>2 DEF For!Finish, Returned, Statuses
<1> QED BY <1>1, <1>3 DEF For!Next

\* So do the steps of an inline call.
LEMMA InlineRefines ==
  ASSUME IInv, NEW k \in Calls, InlineCall(k) \/ InlineReturns(k)
  PROVE  For!Next
<1>1. Statuses[k] = "running" /\ k \in Threads
  BY Types DEF InlineCall, InlineReturns, Statuses, Status
<1>2. CASE InlineCall(k) /\ index[k] < ItemCount[k]
  <2>1. Goto(k, "inline_run") /\ Entered(k, index[k])
    BY <1>2 DEF InlineCall
  <2>2. pc'[k] = "inline_run" /\ Statuses' = [Statuses EXCEPT ![k] = "running"]
    BY <1>1, <2>1, Move, StatusOfOne DEF CallLabels
  <2>3. index[k] \in For!Items(k) \ started[k]
    BY <1>2, <2>2, InlineCallInv DEF For!Items, Items
  <2>4. Statuses' = Statuses
    BY <1>1, <2>2 DEF Statuses
  <2>5. For!Start(k, index[k])
    BY <1>1, <2>1, <2>3, <2>4 DEF For!Start, Entered, Statuses
  <2> QED BY <2>3, <2>5 DEF For!Next
<1>3. CASE InlineCall(k) /\ ~(index[k] < ItemCount[k])
  <2>1. Goto(k, "returned") /\ UNCHANGED <<history>>
    BY <1>3 DEF InlineCall
  <2>2. pc'[k] = "returned" /\ Statuses' = [Statuses EXCEPT ![k] = "returned"]
    BY <1>1, <2>1, Move, StatusOfOne DEF CallLabels
  <2>3. finished[k] = For!Items(k)
    BY <1>3, <2>2, InlineCallInv DEF For!Items, Items
  <2>4. For!End(k)
    BY <1>1, <2>1, <2>2, <2>3 DEF For!End, For!items, history, Statuses
  <2> QED BY <2>4 DEF For!Next
<1>4. CASE InlineReturns(k)
  <2>1. Goto(k, "inline") /\ Returned(k, index[k])
    BY <1>4 DEF InlineReturns
  <2>2. Statuses' = [Statuses EXCEPT ![k] = "running"]
    BY <2>1, StatusOfOne DEF CallLabels
  <2>3. index[k] \in For!Items(k) /\ index[k] \in started[k] \ finished[k]
    BY <1>4, InlineReturnsInv DEF For!Items, Items
  <2>4. Statuses' = Statuses
    BY <1>1, <2>2 DEF Statuses
  <2>5. For!Finish(k, index[k])
    BY <1>1, <2>1, <2>3, <2>4 DEF For!Finish, Returned, Statuses
  <2> QED BY <2>3, <2>5 DEF For!Next
<1> QED BY <1>2, <1>3, <1>4

\* The steps of the locks, the condition variables and the counter are stutters.
LEMMA OtherActionsQuiet ==
  ASSUME IInv,
         \/ \E t \in Threads : Fetch(t) \/ Compare(t) \/ SpuriousWakeup(t)
         \/ \E k \in Calls : AcquireRunMu(k) \/ Publish(k) \/ NotifyAll(k) \/ WaitForWorkers(k)
         \/ \E w \in Workers : WorkerLoop(w)
         \/ Destroy \/ UNCHANGED vars
  PROVE  UNCHANGED ForVars
<1> DEFINE Quiet == /\ UNCHANGED <<history>>
                    /\ \A k \in Calls : \A s \in {"new", "returned"} : pc'[k] = s <=> pc[k] = s
<1>1. ASSUME NEW t \in Threads, pc[t] \notin {"new", "returned"},
             NEW l \in (CallLabels \cup WorkerLabels \cup LoopLabels) \ {"new", "returned"},
             Goto(t, l), UNCHANGED <<history>>
      PROVE  Quiet
  BY <1>1, Move, Types
<1>2. ASSUME NEW t \in Threads, Fetch(t) \/ Compare(t) PROVE Quiet
  BY <1>1, <1>2 DEF Fetch, Compare, CallLabels, WorkerLabels, LoopLabels
<1>3. ASSUME NEW t \in Threads, SpuriousWakeup(t) PROVE Quiet
  BY <1>1, <1>3 DEF SpuriousWakeup, CallLabels, WorkerLabels
<1>4. ASSUME NEW k \in Calls, AcquireRunMu(k) \/ Publish(k) \/ WaitForWorkers(k) PROVE Quiet
  BY <1>1, <1>4, Types DEF AcquireRunMu, Publish, WaitForWorkers, CallLabels
<1>5. ASSUME NEW w \in Workers, WorkerSleep(w) \/ WorkerJoinsRun(w) \/ WorkerExit(w) PROVE Quiet
  BY <1>1, <1>5, Types DEF WorkerSleep, WorkerJoinsRun, WorkerExit, WorkerLabels, LoopLabels
<1>6. ASSUME NEW k \in Calls, NotifyAll(k) PROVE Quiet
  BY <1>6, Types DEF NotifyAll
<1>7. ASSUME NEW w \in Workers, WorkerLeave(w) PROVE Quiet
  BY <1>7, Types, WorkersAssumption DEF WorkerLeave
<1>8. ASSUME Destroy PROVE Quiet
  BY <1>8, Types DEF Destroy
<1>9. ASSUME UNCHANGED vars PROVE Quiet
  BY <1>9 DEF vars
<1>10. Quiet
  BY <1>2, <1>3, <1>4, <1>5, <1>6, <1>7, <1>8, <1>9 DEF WorkerLoop
<1> QED BY <1>10, QuietRefines

\* The arena implements the parallel for of module ParallelFor: no item of a call
\* is entered or returns a second time (either would raise `entries` or `returns`
\* without being a Start or a Finish), items run only while their call does, and
\* Run returns only when all of them have finished.
THEOREM ArenaImplementsParallelFor == Spec => ImplementsParallelFor
<1>1. Init => For!Init
  <2> SUFFICES ASSUME Init PROVE For!Init
    OBVIOUS
  <2>1. \A k \in Calls : Status(k) = "new"
    BY DEF Init, Status, Threads
  <2> QED BY <2>1 DEF Init, For!Init
<1>2. IInv /\ [Next]_vars => [For!Next]_ForVars
  <2> SUFFICES ASSUME IInv, [Next]_vars PROVE [For!Next]_ForVars
    OBVIOUS
  <2>1. ASSUME NEW t \in Threads, Loop(t) PROVE [For!Next]_ForVars
    BY <2>1, CallTaskRefines, TaskReturnsRefines, OtherActionsQuiet DEF Loop
  <2>2. ASSUME NEW k \in Calls, Run(k) PROVE [For!Next]_ForVars
    BY <2>2, RunBeginRefines, RunReturnRefines, InlineRefines, OtherActionsQuiet DEF Run
  <2> QED BY <2>1, <2>2, OtherActionsQuiet DEF Next, Destroyed
<1> QED BY <1>1, <1>2, InductiveInvariant, PTL DEF Spec, Safety, ImplementsParallelFor, For!Spec, For!vars, For!items, ForVars, history, Statuses
===========================================================================
