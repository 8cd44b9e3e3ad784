-------------------------- MODULE TaskQueueProofs --------------------------
(***************************************************************************)
(* Safety of TaskQueue for any number of threads, any number of operations *)
(* and any capacity of at least two cells.  (With one cell the queue is    *)
(* wrong: NeverOverfull fails, so the theorems assume more.)               *)
(*                                                                         *)
(* The argument: at any time the positions readPos .. writePos - 1 fall    *)
(* into distinct cells; the cell of such a position p holds sequence p     *)
(* while its producer is writing and p + 1 from the publication until the  *)
(* consumer recycles it.  A thread that owns a position therefore owns its *)
(* cell, and a thread whose compare-exchange succeeds tested a sequence    *)
(* that nobody can have changed since.                                     *)
(***************************************************************************)
EXTENDS TaskQueue, SequenceTheorems, TLAPS

\* What the cells hold, from the point of view of positions.
RingInv ==
  /\ NeverOverfull
  /\ Len(log) = writePos
  /\ \A p \in readPos .. writePos - 1 :
       /\ seq[Cell(p)] = p \/ seq[Cell(p)] = p + 1
       /\ seq[Cell(p)] = p + 1 => data[Cell(p)] = log[p + 1]
  /\ \A i \in Cells : Cell(seq[i]) = i \/ seq[i] <= writePos

\* What a thread knows at each point of its call.
ThreadInv(t) ==
  /\ pc[t] \in PushLabels => arg[t] \in Tasks
  /\ pc[t] \in {"push_check", "push_cas"} => pos[t] <= writePos
  /\ pc[t] = "push_cas" /\ pos[t] = writePos => seq[Cell(pos[t])] = pos[t]
  /\ pc[t] \in {"pop_check", "pop_cas"} => pos[t] <= readPos
  /\ pc[t] = "pop_cas" /\ pos[t] = readPos => seq[Cell(pos[t])] = pos[t] + 1
  /\ pc[t] = "size_read" => pos[t] <= readPos + Capacity
  /\ Producing(t) => /\ readPos <= pos[t] /\ pos[t] < writePos
                     /\ seq[Cell(pos[t])] = pos[t]
                     /\ arg[t] = log[pos[t] + 1]
  /\ pc[t] = "push_publish" => data[Cell(pos[t])] = arg[t]
  /\ Consuming(t) => /\ pos[t] < readPos
                     /\ seq[Cell(pos[t])] = pos[t] + 1
  /\ pc[t] = "pop_read" => data[Cell(pos[t])] = log[pos[t] + 1]
  /\ pc[t] = "pop_recycle" => got[t] = log[pos[t] + 1]

\* Threads that own a position, or will own it if their compare-exchange succeeds.
Relies(t) == \/ Producing(t) \/ Consuming(t)
             \/ pc[t] = "push_cas" /\ pos[t] = writePos
             \/ pc[t] = "pop_cas" /\ pos[t] = readPos

IInv == TypeOK /\ RingInv /\ (\A t \in Threads : ThreadInv(t)) /\ OneOwnerPerPosition

-----------------------------------------------------------------------------
(* Facts about the cell of a position. *)

\* A positive multiple of a number is at least that number.
LEMMA MulAtLeast ==
  ASSUME NEW c \in Nat \ {0}, NEW d \in Int, d >= 1
  PROVE  c * d >= c
BY SMT

\* Division with remainder.
LEMMA DivMod ==
  ASSUME NEW c \in Nat \ {0}, NEW a \in Nat
  PROVE  a % c \in 0 .. c - 1 /\ a \div c \in Nat /\ a = c * (a \div c) + (a % c)
BY SMT

\* A position's cell is one of the ring's.
LEMMA CellInRing == \A p \in Nat : Cell(p) \in Cells
BY DivMod, CapacityAssumption DEF Cell, Cells

\* Fewer than Capacity apart, two positions have different cells.
LEMMA CellsDiffer ==
  ASSUME NEW a \in Nat, NEW b \in Nat, a < b, b < a + Capacity
  PROVE  Cell(a) # Cell(b)
<1> DEFINE c == Capacity
           d == (b \div c) - (a \div c)
<1> SUFFICES ASSUME a % c = b % c PROVE FALSE
  BY DEF Cell
<1>1. c \in Nat \ {0}
  BY CapacityAssumption
<1>2. d \in Int /\ b - a = c * d
  BY <1>1, DivMod, SMT
<1> HIDE DEF c, d
<1>3. CASE d >= 1
  BY <1>1, <1>2, <1>3, MulAtLeast DEF c
<1>4. CASE d = 0
  BY <1>1, <1>2, <1>4
<1>5. CASE d <= -1
  <2>1. c * (-d) >= c
    BY <1>1, <1>2, <1>5, MulAtLeast
  <2> QED
    BY <2>1, <1>1, <1>2, SMT
<1> QED
  BY <1>2, <1>3, <1>4, <1>5

\* The position one lap later has the same cell.
LEMMA CellNextLap ==
  ASSUME NEW a \in Nat
  PROVE  Cell(a + Capacity) = Cell(a)
<1> DEFINE c == Capacity
<1>1. c \in Nat \ {0} /\ a + c \in Nat
  BY CapacityAssumption
<1>2. /\ a + c = c * ((a + c) \div c) + ((a + c) % c)
      /\ (a + c) \div c \in Nat /\ (a + c) % c \in 0 .. c - 1
  BY <1>1, DivMod
<1>3. a = c * (a \div c) + (a % c) /\ a \div c \in Nat /\ a % c \in 0 .. c - 1
  BY <1>1, DivMod
<1> HIDE DEF c
<1> SUFFICES ASSUME NEW q \in Nat, q = (a + c) \div c, NEW p \in Nat, p = a \div c,
                    NEW r \in 0 .. c - 1, r = (a + c) % c,
                    NEW s \in 0 .. c - 1, s = a % c
             PROVE  r = s
  BY <1>2, <1>3 DEF Cell, c
<1> DEFINE d == q - 1 - p
<1>4. c * d = s - r
  BY <1>1, <1>2, <1>3, SMT
<1>5. d \in Int
  OBVIOUS
<1>6. CASE d >= 1
  <2>1. c * d >= c
    BY <1>1, <1>5, <1>6, MulAtLeast
  <2> QED
    BY <2>1, <1>1, <1>4
<1>7. CASE d <= -1
  <2>1. c * (-d) >= c
    BY <1>1, <1>5, <1>7, MulAtLeast
  <2>2. c * (-d) = r - s
    BY <1>1, <1>4, SMT
  <2> QED
    BY <2>1, <2>2, <1>1
<1> QED
  BY <1>1, <1>4, <1>5, <1>6, <1>7, SMT

-----------------------------------------------------------------------------
(* Induction. *)

\* A step of thread t that leaves the ring alone preserves the invariant if it
\* leaves t itself in order and makes t the owner of nothing new.
LEMMA LocalStep ==
  ASSUME IInv, NEW t \in Threads, TypeOK', ThreadInv(t)',
         UNCHANGED <<seq, data, writePos, readPos, log>>,
         \A u \in Threads \ {t} : /\ pc'[u] = pc[u] /\ pos'[u] = pos[u]
                                  /\ arg'[u] = arg[u] /\ got'[u] = got[u],
         Producing(t)' => Producing(t) /\ pos'[t] = pos[t],
         Consuming(t)' => Consuming(t) /\ pos'[t] = pos[t]
  PROVE  IInv'
<1>1. RingInv'
  BY DEF IInv, RingInv, NeverOverfull
<1>2. ASSUME NEW u \in Threads PROVE ThreadInv(u)'
  <2>1. CASE u = t
    BY <2>1
  <2>2. CASE u # t
    BY <2>2 DEF IInv, ThreadInv, Producing, Consuming
  <2> QED
    BY <2>1, <2>2
<1>3. OneOwnerPerPosition'
  <2> SUFFICES ASSUME NEW u \in Threads, NEW v \in Threads, u # v,
                      \/ Producing(u)' /\ Producing(v)'
                      \/ Consuming(u)' /\ Consuming(v)'
               PROVE  pos'[u] # pos'[v]
    BY DEF OneOwnerPerPosition
  <2>1. /\ Producing(u)' => Producing(u) /\ pos'[u] = pos[u]
        /\ Producing(v)' => Producing(v) /\ pos'[v] = pos[v]
        /\ Consuming(u)' => Consuming(u) /\ pos'[u] = pos[u]
        /\ Consuming(v)' => Consuming(v) /\ pos'[v] = pos[v]
    BY DEF Producing, Consuming
  <2> QED
    BY <2>1 DEF IInv, OneOwnerPerPosition
<1> QED
  BY <1>1, <1>2, <1>3 DEF IInv

\* At first every cell is free for the position with its own number.
LEMMA InitIInv == Init => IInv
<1> SUFFICES ASSUME Init PROVE IInv
  OBVIOUS
<1>1. TypeOK
  BY CapacityAssumption DEF Init, TypeOK, Cells, Items, Labels
<1>2. RingInv
  <2>1. \A i \in Cells : i <= 0 \/ Cell(i) = i
    BY CapacityAssumption, SMT DEF Cells, Cell
  <2> QED
    BY <2>1, CapacityAssumption DEF Init, RingInv, NeverOverfull, Cells
<1>3. \A t \in Threads : ThreadInv(t)
  BY DEF Init, ThreadInv, Producing, Consuming, PushLabels
<1>4. OneOwnerPerPosition
  BY DEF Init, OneOwnerPerPosition, Producing, Consuming
<1> QED
  BY <1>1, <1>2, <1>3, <1>4 DEF IInv

\* The steps of a push that change nothing but its locals keep what the others
\* rely on.
LEMMA PushLocal ==
  ASSUME IInv, NEW t \in Threads,
         \/ \E item \in Tasks : PushStart(t, item)
         \/ PushSeesFree(t) \/ PushSeesFull(t) \/ PushSeesTaken(t)
         \/ PushReload(t) \/ PushClaimFails(t)
  PROVE  IInv'
<1> USE DEF IInv, TypeOK, Goto, Return, Labels, PushLabels, PopLabels, Items
<1>1. CASE \E item \in Tasks : PushStart(t, item)
  <2>1. TypeOK' /\ ThreadInv(t)'
    BY <1>1 DEF PushStart, ThreadInv, Producing, Consuming
  <2> QED
    BY <1>1, <2>1, LocalStep DEF PushStart, Producing, Consuming
<1>2. CASE PushSeesFree(t)
  <2>1. TypeOK' /\ ThreadInv(t)'
    BY <1>2 DEF PushSeesFree, ThreadInv, Producing, Consuming
  <2> QED
    BY <1>2, <2>1, LocalStep DEF PushSeesFree, Producing, Consuming
<1>3. CASE PushSeesFull(t)
  <2>1. TypeOK' /\ ThreadInv(t)'
    BY <1>3 DEF PushSeesFull, ThreadInv, Producing, Consuming
  <2> QED
    BY <1>3, <2>1, LocalStep DEF PushSeesFull, Producing, Consuming
<1>4. CASE PushSeesTaken(t)
  <2>1. TypeOK' /\ ThreadInv(t)'
    BY <1>4 DEF PushSeesTaken, ThreadInv, Producing, Consuming
  <2> QED
    BY <1>4, <2>1, LocalStep DEF PushSeesTaken, Producing, Consuming
<1>5. CASE PushReload(t)
  <2>1. TypeOK' /\ ThreadInv(t)'
    BY <1>5 DEF PushReload, ThreadInv, Producing, Consuming
  <2> QED
    BY <1>5, <2>1, LocalStep DEF PushReload, Producing, Consuming
<1>6. CASE PushClaimFails(t)
  <2>1. TypeOK' /\ ThreadInv(t)'
    BY <1>6 DEF PushClaimFails, ThreadInv, Producing, Consuming
  <2> QED
    BY <1>6, <2>1, LocalStep DEF PushClaimFails, Producing, Consuming
<1> QED
  BY <1>1, <1>2, <1>3, <1>4, <1>5, <1>6

\* And so do those of a pop and of Size.
LEMMA PopLocal ==
  ASSUME IInv, NEW t \in Threads,
         \/ PopStart(t) \/ PopSeesPublished(t) \/ PopSeesEmpty(t) \/ PopSeesTaken(t)
         \/ PopReload(t) \/ PopClaimFails(t) \/ PopRead(t)
         \/ SizeStart(t) \/ SizeReturn(t)
  PROVE  IInv'
<1> USE DEF IInv, TypeOK, Goto, Return, Labels, PushLabels, PopLabels, Items
<1>1. CASE PopStart(t)
  <2>1. TypeOK' /\ ThreadInv(t)'
    BY <1>1 DEF PopStart, ThreadInv, Producing, Consuming
  <2> QED
    BY <1>1, <2>1, LocalStep DEF PopStart, Producing, Consuming
<1>2. CASE PopSeesPublished(t)
  <2>1. TypeOK' /\ ThreadInv(t)'
    BY <1>2 DEF PopSeesPublished, ThreadInv, Producing, Consuming
  <2> QED
    BY <1>2, <2>1, LocalStep DEF PopSeesPublished, Producing, Consuming
<1>3. CASE PopSeesEmpty(t)
  <2>1. TypeOK' /\ ThreadInv(t)'
    BY <1>3 DEF PopSeesEmpty, ThreadInv, Producing, Consuming
  <2> QED
    BY <1>3, <2>1, LocalStep DEF PopSeesEmpty, Producing, Consuming
<1>4. CASE PopSeesTaken(t)
  <2>1. TypeOK' /\ ThreadInv(t)'
    BY <1>4 DEF PopSeesTaken, ThreadInv, Producing, Consuming
  <2> QED
    BY <1>4, <2>1, LocalStep DEF PopSeesTaken, Producing, Consuming
<1>5. CASE PopReload(t)
  <2>1. TypeOK' /\ ThreadInv(t)'
    BY <1>5 DEF PopReload, ThreadInv, Producing, Consuming
  <2> QED
    BY <1>5, <2>1, LocalStep DEF PopReload, Producing, Consuming
<1>6. CASE PopClaimFails(t)
  <2>1. TypeOK' /\ ThreadInv(t)'
    BY <1>6 DEF PopClaimFails, ThreadInv, Producing, Consuming
  <2> QED
    BY <1>6, <2>1, LocalStep DEF PopClaimFails, Producing, Consuming
<1>7. CASE PopRead(t)
  <2>1. TypeOK' /\ ThreadInv(t)'
    BY <1>7, CellInRing DEF PopRead, ThreadInv, Producing, Consuming
  <2> QED
    BY <1>7, <2>1, LocalStep DEF PopRead, Producing, Consuming
<1>8. CASE SizeStart(t)
  <2>1. TypeOK' /\ ThreadInv(t)'
    BY <1>8 DEF SizeStart, ThreadInv, RingInv, NeverOverfull, Producing, Consuming
  <2> QED
    BY <1>8, <2>1, LocalStep DEF SizeStart, Producing, Consuming
<1>9. CASE SizeReturn(t)
  <2>1. TypeOK' /\ ThreadInv(t)'
    BY <1>9 DEF SizeReturn, ThreadInv, Producing, Consuming
  <2> QED
    BY <1>9, <2>1, LocalStep DEF SizeReturn, Producing, Consuming
<1> QED
  BY <1>1, <1>2, <1>3, <1>4, <1>5, <1>6, <1>7, <1>8, <1>9

\* A compare-exchange of Push that can succeed finds room in the ring: the
\* sequence it tested is that of no occupied cell.
LEMMA ClaimFindsRoom ==
  ASSUME IInv, Capacity >= 2, NEW t \in Threads, PushClaim(t)
  PROVE  writePos < readPos + Capacity
<1>1. pos[t] = writePos /\ seq[Cell(writePos)] = writePos
  BY DEF IInv, PushClaim, ThreadInv
<1> SUFFICES ASSUME writePos = readPos + Capacity PROVE FALSE
  BY CapacityAssumption DEF IInv, TypeOK, RingInv, NeverOverfull
<1>2. Cell(writePos) = Cell(readPos)
  BY CellNextLap DEF IInv, TypeOK
<1>3. seq[Cell(readPos)] \in {readPos, readPos + 1}
  BY CapacityAssumption DEF IInv, TypeOK, RingInv
<1> QED
  BY <1>1, <1>2, <1>3, CapacityAssumption DEF IInv, TypeOK

\* A compare-exchange of Pop that can succeed finds a claimed position: a
\* published cell is never the one of writePos.
LEMMA ClaimFindsItem ==
  ASSUME IInv, Capacity >= 2, NEW t \in Threads, PopClaim(t)
  PROVE  readPos < writePos
<1>1. pos[t] = readPos /\ seq[Cell(readPos)] = readPos + 1 /\ Cell(readPos) \in Cells
  BY CellInRing DEF IInv, TypeOK, PopClaim, ThreadInv
<1> SUFFICES ASSUME readPos = writePos PROVE FALSE
  BY DEF IInv, TypeOK, RingInv, NeverOverfull
<1>2. writePos \in Nat /\ Cell(writePos + 1) = Cell(writePos)
  BY <1>1 DEF IInv, TypeOK, RingInv
<1> QED
  BY <1>2, CellsDiffer, CapacityAssumption

\* The compare-exchange of Push: the position it claims had the sequence of a
\* free cell, so it is less than a lap ahead of the oldest position.
LEMMA PushClaimStep ==
  ASSUME IInv, Capacity >= 2, NEW t \in Threads, PushClaim(t)
  PROVE  IInv'
<1> USE CapacityAssumption DEF IInv, Goto
<1>1. /\ pos[t] = writePos /\ seq[Cell(writePos)] = writePos /\ arg[t] \in Tasks
      /\ writePos' = writePos + 1 /\ log' = Append(log, arg[t])
      /\ UNCHANGED <<seq, data, readPos, pos, arg, got>>
      /\ pc' = [pc EXCEPT ![t] = "push_write"]
  BY DEF PushClaim, ThreadInv, PushLabels
<1>2. TypeOK'
  BY <1>1 DEF TypeOK, Labels, PushLabels
<1>3. writePos < readPos + Capacity
  BY ClaimFindsRoom
<1>4. \A p \in 0 .. writePos - 1 : log'[p + 1] = log[p + 1]
  BY <1>1 DEF TypeOK, RingInv
<1>5. log'[writePos + 1] = arg[t]
  BY <1>1 DEF TypeOK, RingInv
<1>6. RingInv'
  <2>1. NeverOverfull' /\ Len(log') = writePos'
    BY <1>1, <1>3 DEF TypeOK, RingInv, NeverOverfull
  <2>2. ASSUME NEW p \in readPos' .. writePos' - 1
        PROVE  /\ seq'[Cell(p)] = p \/ seq'[Cell(p)] = p + 1
               /\ seq'[Cell(p)] = p + 1 => data'[Cell(p)] = log'[p + 1]
    BY <1>1, <1>4 DEF TypeOK, RingInv
  <2>3. \A c \in Cells : Cell(seq'[c]) = c \/ seq'[c] <= writePos'
    BY <1>1 DEF TypeOK, RingInv
  <2> QED
    BY <2>1, <2>2, <2>3 DEF RingInv
<1>7. ASSUME NEW u \in Threads PROVE ThreadInv(u)'
  <2>1. CASE u = t
    BY <1>1, <1>5, <2>1 DEF ThreadInv, TypeOK, RingInv, NeverOverfull, Producing, Consuming, PushLabels
  <2>2. CASE u # t
    <3>1. Producing(u) \/ Consuming(u) => log'[pos[u] + 1] = log[pos[u] + 1]
      <4>1. pos[u] \in Nat /\ writePos \in Nat /\ readPos <= writePos /\ readPos \in Nat
        BY DEF TypeOK, RingInv, NeverOverfull
      <4>2. Producing(u) \/ Consuming(u) => pos[u] < writePos
        <5>1. /\ Producing(u) => pos[u] < writePos
              /\ Consuming(u) => pos[u] < readPos
          BY DEF ThreadInv
        <5> QED
          BY <4>1, <5>1
      <4> QED
        BY <4>1, <4>2, <1>4
    <3>2. ThreadInv(u) /\ pc'[u] = pc[u] /\ pos[u] \in Nat
      BY <1>1, <2>2 DEF TypeOK
    <3> HIDE DEF IInv
    <3>3. writePos \in Nat /\ pos'[u] = pos[u] /\ arg'[u] = arg[u] /\ got'[u] = got[u]
      BY <1>1 DEF IInv, TypeOK
    <3>4. (Producing(u) => arg[u] = log[pos[u] + 1])'
      BY <1>1, <3>1, <3>2, <3>3 DEF ThreadInv, Producing
    <3>5. (/\ pc[u] = "pop_read" => data[Cell(pos[u])] = log[pos[u] + 1]
           /\ pc[u] = "pop_recycle" => got[u] = log[pos[u] + 1])'
      BY <1>1, <3>1, <3>2, <3>3 DEF ThreadInv, Consuming
    <3>6. (/\ pc[u] \in {"push_check", "push_cas"} => pos[u] <= writePos
           /\ pc[u] = "push_cas" /\ pos[u] = writePos => seq[Cell(pos[u])] = pos[u]
           /\ Producing(u) => readPos <= pos[u] /\ pos[u] < writePos)'
      BY <1>1, <3>2, <3>3 DEF ThreadInv, Producing
    <3>7. (/\ pc[u] \in PushLabels => arg[u] \in Tasks
           /\ pc[u] \in {"pop_check", "pop_cas"} => pos[u] <= readPos
           /\ pc[u] = "pop_cas" /\ pos[u] = readPos => seq[Cell(pos[u])] = pos[u] + 1
           /\ pc[u] = "size_read" => pos[u] <= readPos + Capacity
           /\ Producing(u) => seq[Cell(pos[u])] = pos[u]
           /\ pc[u] = "push_publish" => data[Cell(pos[u])] = arg[u]
           /\ Consuming(u) => pos[u] < readPos /\ seq[Cell(pos[u])] = pos[u] + 1)'
      BY <1>1, <3>2, <3>3 DEF ThreadInv, Producing, Consuming
    <3> QED
      BY <3>4, <3>5, <3>6, <3>7 DEF ThreadInv
  <2> QED
    BY <2>1, <2>2
<1>8. OneOwnerPerPosition'
  <2>1. \A u \in Threads : Producing(u) => pos[u] # pos[t]
    BY <1>1 DEF ThreadInv, TypeOK
  <2>2. \A u \in Threads : /\ Consuming(u)' => Consuming(u)
                           /\ Producing(u)' => u = t \/ Producing(u)
    BY <1>1 DEF TypeOK, Producing, Consuming
  <2> QED
    BY <1>1, <2>1, <2>2 DEF OneOwnerPerPosition
<1> QED
  BY <1>2, <1>6, <1>7, <1>8

\* The cell of a position that t owns is the cell of no other position of the
\* ring, of no other owner, and of no thread whose compare-exchange may succeed.
LEMMA OwnerAlone ==
  ASSUME IInv, Capacity >= 2, NEW t \in Threads, Producing(t) \/ Consuming(t)
  PROVE  /\ \A p \in readPos .. writePos - 1 : p # pos[t] => Cell(p) # Cell(pos[t])
         /\ \A u \in Threads \ {t} : Relies(u) => Cell(pos[u]) # Cell(pos[t])
<1> DEFINE s == seq[Cell(pos[t])]
<1> USE CapacityAssumption
<1>1. /\ pos[t] \in Nat /\ readPos \in Nat /\ writePos \in Nat
      /\ readPos <= writePos /\ writePos <= readPos + Capacity
  BY DEF IInv, TypeOK, RingInv, NeverOverfull
<1>2. /\ Producing(t) => readPos <= pos[t] /\ pos[t] < writePos /\ s = pos[t]
      /\ Consuming(t) => pos[t] < readPos /\ s = pos[t] + 1
  BY DEF IInv, ThreadInv
<1>3. \A p \in Nat : p = pos[t] + 1 \/ pos[t] = p + 1 => Cell(p) # Cell(pos[t])
  BY <1>1, CellsDiffer
<1>4. ASSUME NEW p \in readPos .. writePos - 1, p # pos[t]
      PROVE  Cell(p) # Cell(pos[t])
  <2>1. p \in Nat /\ (seq[Cell(p)] = p \/ seq[Cell(p)] = p + 1)
    BY <1>1 DEF IInv, RingInv
  <2>2. CASE Producing(t)
    <3>1. /\ p < pos[t] => pos[t] < p + Capacity
          /\ pos[t] < p => p < pos[t] + Capacity
      BY <1>1, <1>2, <2>1, <2>2
    <3>2. p < pos[t] \/ pos[t] < p
      BY <1>1, <1>4, <2>1
    <3> QED
      BY <1>1, <2>1, <3>1, <3>2, CellsDiffer
  <2>3. CASE Consuming(t)
    <3>1. seq[Cell(p)] = s => p = pos[t] + 1
      <4> HIDE DEF s
      <4> QED
        BY <1>1, <1>2, <2>1, <2>3
    <3> QED
      BY <1>3, <2>1, <3>1
  <2> QED
    BY <2>2, <2>3
<1>5. ASSUME NEW u \in Threads \ {t}, Relies(u)
      PROVE  Cell(pos[u]) # Cell(pos[t])
  <2> DEFINE r == seq[Cell(pos[u])]
  <2>1. /\ pos[u] \in Nat
        /\ Producing(u) => r = pos[u] /\ readPos <= pos[u] /\ pos[u] < writePos
        /\ Consuming(u) => r = pos[u] + 1 /\ pos[u] < readPos
        /\ pc[u] = "push_cas" /\ pos[u] = writePos => r = pos[u]
        /\ pc[u] = "pop_cas" /\ pos[u] = readPos => r = pos[u] + 1
    BY DEF IInv, TypeOK, ThreadInv
  <2>2. /\ Producing(u) /\ Producing(t) => pos[u] # pos[t]
        /\ Consuming(u) /\ Consuming(t) => pos[u] # pos[t]
    BY DEF IInv, OneOwnerPerPosition
  <2>3. r = s => pos[u] # pos[t] /\ (pos[u] = pos[t] + 1 \/ pos[t] = pos[u] + 1)
    <3> HIDE DEF r, s
    <3> QED
      BY <1>1, <1>2, <1>5, <2>1, <2>2 DEF Relies
  <2> QED
    BY <1>3, <2>1, <2>3
<1> QED
  BY <1>4, <1>5

\* A store of thread t into the sequence of the cell it owns, after which t has
\* returned, preserves the invariant if the new number respects the ring's laps.
LEMMA StoreStep ==
  ASSUME IInv, Capacity >= 2, NEW t \in Threads, Producing(t) \/ Consuming(t),
         NEW v \in Nat, seq' = [seq EXCEPT ![Cell(pos[t])] = v],
         Cell(v) = Cell(pos[t]) \/ v <= writePos,
         Producing(t) => v = pos[t] + 1 /\ data[Cell(pos[t])] = log[pos[t] + 1],
         Return(t), UNCHANGED <<data, writePos, readPos, got, log>>
  PROVE  IInv'
<1> USE CapacityAssumption DEF Return, Goto
<1>1. TypeOK'
  BY DEF IInv, TypeOK, Labels, Items
<1>2. /\ pos[t] \in Nat /\ Cell(pos[t]) \in Cells
      /\ \A c \in Cells : seq'[c] = IF c = Cell(pos[t]) THEN v ELSE seq[c]
  BY CellInRing DEF IInv, TypeOK
<1>3. RingInv'
  <2>1. NeverOverfull' /\ Len(log') = writePos'
    BY DEF IInv, RingInv, NeverOverfull
  <2>2. ASSUME NEW p \in readPos .. writePos - 1
        PROVE  /\ seq'[Cell(p)] = p \/ seq'[Cell(p)] = p + 1
               /\ seq'[Cell(p)] = p + 1 => data'[Cell(p)] = log'[p + 1]
    <3>1. p \in Nat /\ Cell(p) \in Cells
      BY CellInRing DEF IInv, TypeOK
    <3>2. CASE p = pos[t]
      <4>1. Producing(t)
        BY <3>2 DEF IInv, ThreadInv, TypeOK
      <4> QED
        BY <1>2, <3>2, <4>1
    <3>3. CASE p # pos[t]
      <4>1. Cell(p) # Cell(pos[t])
        BY <3>3, OwnerAlone
      <4> QED
        BY <1>2, <3>1, <4>1 DEF IInv, RingInv
    <3> QED
      BY <3>2, <3>3
  <2>3. \A c \in Cells : Cell(seq'[c]) = c \/ seq'[c] <= writePos'
    BY <1>2 DEF IInv, RingInv
  <2> QED
    BY <2>1, <2>2, <2>3 DEF RingInv
<1>4. ASSUME NEW u \in Threads PROVE ThreadInv(u)'
  <2>1. CASE u = t
    BY <2>1 DEF IInv, TypeOK, ThreadInv, Producing, Consuming, PushLabels
  <2>2. CASE u # t
    <3>1. /\ ThreadInv(u) /\ pc'[u] = pc[u] /\ pos'[u] = pos[u] /\ arg'[u] = arg[u]
          /\ pos[u] \in Nat /\ Cell(pos[u]) \in Cells
      BY <2>2, CellInRing DEF IInv, TypeOK
    <3>2. Relies(u) => seq'[Cell(pos[u])] = seq[Cell(pos[u])]
      BY <1>2, <2>2, <3>1, OwnerAlone
    <3> HIDE DEF IInv
    <3>3. (/\ pc[u] = "push_cas" /\ pos[u] = writePos => seq[Cell(pos[u])] = pos[u]
           /\ pc[u] = "pop_cas" /\ pos[u] = readPos => seq[Cell(pos[u])] = pos[u] + 1
           /\ Producing(u) => seq[Cell(pos[u])] = pos[u]
           /\ Consuming(u) => seq[Cell(pos[u])] = pos[u] + 1)'
      BY <3>1, <3>2 DEF ThreadInv, Relies, Producing, Consuming
    <3>4. (/\ pc[u] \in PushLabels => arg[u] \in Tasks
           /\ pc[u] \in {"push_check", "push_cas"} => pos[u] <= writePos
           /\ pc[u] \in {"pop_check", "pop_cas"} => pos[u] <= readPos
           /\ pc[u] = "size_read" => pos[u] <= readPos + Capacity
           /\ Producing(u) => /\ readPos <= pos[u] /\ pos[u] < writePos
                              /\ arg[u] = log[pos[u] + 1]
           /\ pc[u] = "push_publish" => data[Cell(pos[u])] = arg[u]
           /\ Consuming(u) => pos[u] < readPos
           /\ pc[u] = "pop_read" => data[Cell(pos[u])] = log[pos[u] + 1]
           /\ pc[u] = "pop_recycle" => got[u] = log[pos[u] + 1])'
      BY <3>1 DEF ThreadInv, Producing, Consuming
    <3> QED
      BY <3>3, <3>4 DEF ThreadInv
  <2> QED
    BY <2>1, <2>2
<1>5. OneOwnerPerPosition'
  <2>1. \A u \in Threads : /\ Producing(u)' => u # t /\ Producing(u)
                           /\ Consuming(u)' => u # t /\ Consuming(u)
    BY DEF IInv, TypeOK, Producing, Consuming
  <2> QED
    BY <2>1 DEF IInv, OneOwnerPerPosition
<1> QED
  BY <1>1, <1>3, <1>4, <1>5 DEF IInv

\* The store of the sequence hands the cell to the pop of the same position.
LEMMA PushPublishStep ==
  ASSUME IInv, Capacity >= 2, NEW t \in Threads, PushPublish(t)
  PROVE  IInv'
<1>1. /\ Producing(t) /\ pos[t] \in Nat /\ pos[t] + 1 <= writePos
      /\ arg[t] = log[pos[t] + 1] /\ data[Cell(pos[t])] = arg[t]
  BY DEF IInv, TypeOK, ThreadInv, PushPublish, Producing
<1>2. ~ Consuming(t) /\ pos[t] + 1 \in Nat
  BY <1>1 DEF PushPublish, Consuming
<1>3. data[Cell(pos[t])] = log[pos[t] + 1]
  BY <1>1
<1>4. /\ seq' = [seq EXCEPT ![Cell(pos[t])] = pos[t] + 1]
      /\ Return(t) /\ UNCHANGED <<data, writePos, readPos, got, log>>
  BY DEF PushPublish
<1> QED
  BY <1>1, <1>2, <1>3, <1>4, StoreStep

\* The store of the sequence hands the cell to the push one lap ahead.
LEMMA PopRecycleStep ==
  ASSUME IInv, Capacity >= 2, NEW t \in Threads, PopRecycle(t)
  PROVE  IInv'
<1>1. Consuming(t) /\ ~ Producing(t) /\ pos[t] \in Nat
  BY DEF IInv, TypeOK, PopRecycle, Producing, Consuming
<1>2. pos[t] + Capacity \in Nat /\ Cell(pos[t] + Capacity) = Cell(pos[t])
  BY <1>1, CellNextLap, CapacityAssumption
<1> QED
  BY <1>1, <1>2, StoreStep DEF PopRecycle

\* The payload is written while the cell belongs to nobody else.
LEMMA PushWriteStep ==
  ASSUME IInv, Capacity >= 2, NEW t \in Threads, PushWrite(t)
  PROVE  IInv'
<1> USE CapacityAssumption DEF Goto
<1>1. /\ Producing(t) /\ pos[t] \in Nat /\ Cell(pos[t]) \in Cells
      /\ seq[Cell(pos[t])] = pos[t] /\ readPos <= pos[t] /\ pos[t] < writePos
      /\ arg[t] = log[pos[t] + 1] /\ arg[t] \in Tasks
  BY CellInRing DEF IInv, TypeOK, ThreadInv, PushWrite, Producing, PushLabels
<1>2. \A c \in Cells : data'[c] = IF c = Cell(pos[t]) THEN arg[t] ELSE data[c]
  BY DEF IInv, TypeOK, PushWrite
<1>3. TypeOK'
  BY <1>1 DEF IInv, TypeOK, PushWrite, Labels, PushLabels, Items
<1>4. RingInv'
  <2>1. ASSUME NEW p \in readPos .. writePos - 1, seq[Cell(p)] = p + 1
        PROVE  data'[Cell(p)] = log[p + 1]
    <3>1. p \in Nat /\ Cell(p) \in Cells
      BY CellInRing DEF IInv, TypeOK
    <3>2. p # pos[t]
      BY <1>1, <2>1
    <3> QED
      BY <1>1, <1>2, <2>1, <3>1, <3>2, OwnerAlone DEF IInv, RingInv
  <2> QED
    BY <2>1 DEF IInv, RingInv, NeverOverfull, PushWrite
<1>5. ASSUME NEW u \in Threads PROVE ThreadInv(u)'
  <2>1. CASE u = t
    BY <1>1, <1>2, <2>1 DEF IInv, TypeOK, ThreadInv, PushWrite, Producing, Consuming
  <2>2. CASE u # t
    <3>1. /\ ThreadInv(u) /\ pc'[u] = pc[u]
          /\ pos[u] \in Nat /\ Cell(pos[u]) \in Cells
      BY <2>2, CellInRing DEF IInv, TypeOK, PushWrite
    <3>2. Producing(u) \/ Consuming(u) => data'[Cell(pos[u])] = data[Cell(pos[u])]
      <4> SUFFICES ASSUME Producing(u) \/ Consuming(u)
                   PROVE  Cell(pos[u]) # Cell(pos[t])
        BY <1>2, <3>1
      <4> QED
        BY <1>1, <2>2, OwnerAlone DEF Relies
    <3> HIDE DEF IInv
    <3> QED
      BY <3>1, <3>2 DEF ThreadInv, PushWrite, Producing, Consuming
  <2> QED
    BY <2>1, <2>2
<1>6. OneOwnerPerPosition'
  <2>1. \A u \in Threads : /\ Producing(u)' => Producing(u)
                           /\ Consuming(u)' => Consuming(u)
    BY <1>1 DEF IInv, TypeOK, PushWrite, Producing, Consuming
  <2> QED
    BY <2>1 DEF IInv, OneOwnerPerPosition, PushWrite
<1> QED
  BY <1>3, <1>4, <1>5, <1>6 DEF IInv

\* The compare-exchange of Pop: the position leaves the ring, its cell does not.
LEMMA PopClaimStep ==
  ASSUME IInv, Capacity >= 2, NEW t \in Threads, PopClaim(t)
  PROVE  IInv'
<1> USE CapacityAssumption DEF Goto
<1>1. /\ pos[t] = readPos /\ readPos' = readPos + 1
      /\ seq[Cell(readPos)] = readPos + 1 /\ Cell(readPos) \in Cells
      /\ UNCHANGED <<seq, data, writePos, pos, arg, got, log>>
      /\ pc' = [pc EXCEPT ![t] = "pop_read"]
  BY CellInRing DEF IInv, TypeOK, ThreadInv, PopClaim
<1>2. TypeOK'
  BY <1>1 DEF IInv, TypeOK, Labels, PopLabels
<1>3. readPos < writePos
  BY ClaimFindsItem
<1>4. RingInv'
  BY <1>1, <1>3 DEF IInv, TypeOK, RingInv, NeverOverfull
<1>5. data[Cell(readPos)] = log[readPos + 1]
  BY <1>1, <1>3 DEF IInv, TypeOK, RingInv
<1>6. \A u \in Threads : Producing(u) => pos[u] # readPos
  BY <1>1 DEF IInv, TypeOK, ThreadInv
<1>7. ASSUME NEW u \in Threads PROVE ThreadInv(u)'
  <2>1. CASE u = t
    BY <1>1, <1>5, <2>1 DEF IInv, TypeOK, ThreadInv, Producing, Consuming, PushLabels
  <2>2. CASE u # t
    <3>1. /\ ThreadInv(u) /\ pc'[u] = pc[u] /\ pos[u] \in Nat /\ readPos \in Nat
          /\ (Producing(u) => pos[u] # readPos)
      BY <1>1, <1>6, <2>2 DEF IInv, TypeOK
    <3> HIDE DEF IInv
    <3>2. (/\ pc[u] \in {"pop_check", "pop_cas"} => pos[u] <= readPos
           /\ pc[u] = "pop_cas" /\ pos[u] = readPos => seq[Cell(pos[u])] = pos[u] + 1
           /\ pc[u] = "size_read" => pos[u] <= readPos + Capacity
           /\ Producing(u) => readPos <= pos[u]
           /\ Consuming(u) => pos[u] < readPos)'
      BY <1>1, <3>1 DEF ThreadInv, Producing, Consuming
    <3>3. (/\ pc[u] \in PushLabels => arg[u] \in Tasks
           /\ pc[u] \in {"push_check", "push_cas"} => pos[u] <= writePos
           /\ pc[u] = "push_cas" /\ pos[u] = writePos => seq[Cell(pos[u])] = pos[u]
           /\ Producing(u) => /\ pos[u] < writePos
                              /\ seq[Cell(pos[u])] = pos[u]
                              /\ arg[u] = log[pos[u] + 1]
           /\ pc[u] = "push_publish" => data[Cell(pos[u])] = arg[u]
           /\ Consuming(u) => seq[Cell(pos[u])] = pos[u] + 1
           /\ pc[u] = "pop_read" => data[Cell(pos[u])] = log[pos[u] + 1]
           /\ pc[u] = "pop_recycle" => got[u] = log[pos[u] + 1])'
      BY <1>1, <3>1 DEF ThreadInv, Producing, Consuming
    <3> QED
      BY <3>2, <3>3 DEF ThreadInv
  <2> QED
    BY <2>1, <2>2
<1>8. OneOwnerPerPosition'
  <2>1. \A u \in Threads : Consuming(u) => pos[u] # pos[t]
    BY <1>1 DEF IInv, TypeOK, ThreadInv
  <2>2. \A u \in Threads : /\ Producing(u)' => Producing(u)
                           /\ Consuming(u)' => u = t \/ Consuming(u)
    BY <1>1 DEF IInv, TypeOK, Producing, Consuming
  <2> QED
    BY <1>1, <2>1, <2>2 DEF IInv, OneOwnerPerPosition
<1> QED
  BY <1>2, <1>4, <1>7, <1>8 DEF IInv

\* Every step keeps the invariant.
LEMMA NextPreservesIInv ==
  ASSUME IInv, Capacity >= 2, [Next]_vars
  PROVE  IInv'
<1>1. ASSUME NEW t \in Threads, PushStep(t) PROVE IInv'
  BY <1>1, PushLocal, PushClaimStep, PushWriteStep, PushPublishStep DEF PushStep
<1>2. ASSUME NEW t \in Threads, PopStep(t) PROVE IInv'
  BY <1>2, PopLocal, PopClaimStep, PopRecycleStep DEF PopStep
<1>3. ASSUME NEW t \in Threads,
             \/ \E item \in Tasks : PushStart(t, item)
             \/ PopStart(t) \/ SizeStart(t) \/ SizeReturn(t)
      PROVE  IInv'
  BY <1>3, PushLocal, PopLocal
<1>4. ASSUME UNCHANGED vars PROVE IInv'
  BY <1>4 DEF vars, IInv, TypeOK, RingInv, NeverOverfull, ThreadInv,
              OneOwnerPerPosition, Producing, Consuming
<1> QED
  BY <1>1, <1>2, <1>3, <1>4 DEF Next

-----------------------------------------------------------------------------
(* The theorems. *)

\* The inductive invariant: what the cells hold and what each thread knows.
THEOREM InductiveInvariant ==
  ASSUME Capacity >= 2
  PROVE  Spec => []IInv
<1>1. Init => IInv
  BY InitIInv
<1>2. IInv /\ [Next]_vars => IInv'
  BY NextPreservesIInv
<1> QED
  BY <1>1, <1>2, PTL DEF Spec

\* Every cell, position and local of Push, Pop and Size keeps its type.
THEOREM TypeCorrect ==
  ASSUME Capacity >= 2
  PROVE  Spec => []TypeOK
<1>1. IInv => TypeOK
  BY DEF IInv
<1> QED
  BY <1>1, InductiveInvariant, PTL

\* Push never claims more positions than the ring has cells, and Pop never
\* claims one that no Push has.
THEOREM RingNeverOverfull ==
  ASSUME Capacity >= 2
  PROVE  Spec => []NeverOverfull
<1>1. IInv => NeverOverfull
  BY DEF IInv, RingInv
<1> QED
  BY <1>1, InductiveInvariant, PTL

\* The compare-exchange loops of Push and Pop give each position to one
\* producer and one consumer.
THEOREM PositionsHaveOneOwner ==
  ASSUME Capacity >= 2
  PROVE  Spec => []OneOwnerPerPosition
<1>1. IInv => OneOwnerPerPosition
  BY DEF IInv
<1> QED
  BY <1>1, InductiveInvariant, PTL

\* The payload of a cell, a plain object, is never written by Push while
\* another Push writes it or a Pop reads it.
THEOREM PayloadRaceFree ==
  ASSUME Capacity >= 2
  PROVE  Spec => []NoPayloadRace
<1>1. IInv => NoPayloadRace
  <2> SUFFICES ASSUME IInv, NEW t \in Threads, NEW u \in Threads, t # u,
                      pc[t] = "push_write", pc[u] \in {"push_write", "pop_read"}
               PROVE  Cell(pos[u]) # Cell(pos[t])
    BY DEF NoPayloadRace
  <2>1. Producing(t) /\ Relies(u)
    BY DEF Producing, Consuming, Relies
  <2> QED
    BY <2>1, OwnerAlone
<1> QED
  BY <1>1, InductiveInvariant, PTL

\* A Pop that claimed a position returns the item given to the Push that
\* claimed it: nothing is lost, duplicated or delivered out of order.
THEOREM PopDelivers ==
  ASSUME Capacity >= 2
  PROVE  Spec => []DeliversClaimedItem
<1>1. IInv => DeliversClaimedItem
  BY DEF IInv, ThreadInv, DeliversClaimedItem
<1> QED
  BY <1>1, InductiveInvariant, PTL

\* The two loads of Size, though not atomic, give a number of cells.
THEOREM SizeInRange ==
  ASSUME Capacity >= 2
  PROVE  Spec => []SizeIsPlausible
<1>1. IInv => SizeIsPlausible
  BY CapacityAssumption DEF IInv, TypeOK, ThreadInv, SizeIsPlausible, SizeResult
<1> QED
  BY <1>1, InductiveInvariant, PTL

-----------------------------------------------------------------------------
(* Honest failures.  A cell that no Push or Pop is at work on shows the     *)
(* position it serves next, and a thread's old position is never ahead of   *)
(* what its cell shows: a test of the sequence that fails means a full or   *)
(* empty ring, or somebody at work on the very cell.                        *)

\* The free positions: their cells are recycled or in the hands of a consumer.
FreeAreRecycled ==
  \A p \in writePos .. readPos + Capacity - 1 :
    seq[Cell(p)] = p \/ \E u \in Threads : Consuming(u) /\ pos[u] = p - Capacity

\* The claimed ones: their cells are published or in the hands of a producer.
ClaimedArePublished ==
  \A p \in readPos .. writePos - 1 :
    seq[Cell(p)] = p + 1 \/ \E u \in Threads : Producing(u) /\ pos[u] = p

\* A thread about to test a cell for a position others have claimed meanwhile.
NotBehind(t) ==
  /\ pc[t] = "push_check" => pos[t] = writePos \/ seq[Cell(pos[t])] >= pos[t]
  /\ pc[t] = "pop_check"  => pos[t] = readPos \/ seq[Cell(pos[t])] >= pos[t] + 1

BlockInv == FreeAreRecycled /\ ClaimedArePublished /\ \A t \in Threads : NotBehind(t)

\* At first every cell is free and nobody is at work.
LEMMA InitBlockInv == Init => BlockInv
<1> SUFFICES ASSUME Init PROVE BlockInv
  OBVIOUS
<1>1. \A p \in 0 .. Capacity - 1 : Cell(p) = p /\ p \in Cells
  BY CapacityAssumption, SMT DEF Cell, Cells
<1> QED
  BY <1>1, CapacityAssumption
  DEF Init, BlockInv, FreeAreRecycled, ClaimedArePublished, NotBehind

\* A step that leaves the sequences and both positions alone, changes no owner,
\* and takes a thread to a test only with a current position.
LEMMA LocalBlock ==
  ASSUME IInv, BlockInv, NEW t \in Threads, UNCHANGED <<seq, writePos, readPos>>,
         \A u \in Threads \ {t} : pc'[u] = pc[u] /\ pos'[u] = pos[u],
         Producing(t)' <=> Producing(t), Consuming(t)' <=> Consuming(t),
         Producing(t) \/ Consuming(t) => pos'[t] = pos[t],
         NotBehind(t)'
  PROVE  BlockInv'
<1>1. \A u \in Threads : /\ Producing(u) => Producing(u)' /\ pos'[u] = pos[u]
                         /\ Consuming(u) => Consuming(u)' /\ pos'[u] = pos[u]
  BY DEF Producing, Consuming
<1>2. FreeAreRecycled' /\ ClaimedArePublished'
  BY <1>1 DEF BlockInv, FreeAreRecycled, ClaimedArePublished
<1>3. ASSUME NEW u \in Threads PROVE NotBehind(u)'
  BY DEF BlockInv, NotBehind
<1> QED
  BY <1>2, <1>3 DEF BlockInv

\* Steps that hand no cell over leave the account of who blocks which cell as it
\* is.
LEMMA LocalActionsBlock ==
  ASSUME IInv, BlockInv, NEW t \in Threads,
         \/ \E item \in Tasks : PushStart(t, item)
         \/ PushSeesFree(t) \/ PushSeesFull(t) \/ PushSeesTaken(t) \/ PushReload(t)
         \/ PushClaimFails(t) \/ PushWrite(t)
         \/ PopStart(t) \/ PopSeesPublished(t) \/ PopSeesEmpty(t) \/ PopSeesTaken(t)
         \/ PopReload(t) \/ PopClaimFails(t) \/ PopRead(t)
         \/ SizeStart(t) \/ SizeReturn(t)
  PROVE  BlockInv'
<1> USE DEF IInv, TypeOK, Goto, Return, Producing, Consuming, NotBehind
<1>1. CASE \E item \in Tasks : PushStart(t, item)
  BY <1>1, LocalBlock DEF PushStart
<1>2. CASE PushSeesFree(t)
  BY <1>2, LocalBlock DEF PushSeesFree
<1>3. CASE PushSeesFull(t)
  BY <1>3, LocalBlock DEF PushSeesFull
<1>4. CASE PushSeesTaken(t)
  BY <1>4, LocalBlock DEF PushSeesTaken
<1>5. CASE PushReload(t)
  BY <1>5, LocalBlock DEF PushReload
<1>6. CASE PushClaimFails(t)
  BY <1>6, LocalBlock DEF PushClaimFails
<1>7. CASE PushWrite(t)
  BY <1>7, LocalBlock DEF PushWrite
<1>8. CASE PopStart(t)
  BY <1>8, LocalBlock DEF PopStart
<1>9. CASE PopSeesPublished(t)
  BY <1>9, LocalBlock DEF PopSeesPublished
<1>10. CASE PopSeesEmpty(t)
  BY <1>10, LocalBlock DEF PopSeesEmpty
<1>11. CASE PopSeesTaken(t)
  BY <1>11, LocalBlock DEF PopSeesTaken
<1>12. CASE PopReload(t)
  BY <1>12, LocalBlock DEF PopReload
<1>13. CASE PopClaimFails(t)
  BY <1>13, LocalBlock DEF PopClaimFails
<1>14. CASE PopRead(t)
  BY <1>14, LocalBlock DEF PopRead
<1>15. CASE SizeStart(t)
  BY <1>15, LocalBlock DEF SizeStart
<1>16. CASE SizeReturn(t)
  BY <1>16, LocalBlock DEF SizeReturn
<1> QED
  BY <1>1, <1>2, <1>3, <1>4, <1>5, <1>6, <1>7, <1>8, <1>9, <1>10, <1>11, <1>12,
     <1>13, <1>14, <1>15, <1>16

\* The claimed position passes from the free ones to the producer's.
LEMMA PushClaimBlock ==
  ASSUME IInv, BlockInv, Capacity >= 2, NEW t \in Threads, PushClaim(t)
  PROVE  BlockInv'
<1>1. /\ pos[t] = writePos /\ seq[Cell(writePos)] = writePos /\ writePos' = writePos + 1
      /\ UNCHANGED <<seq, readPos, pos>> /\ pc' = [pc EXCEPT ![t] = "push_write"]
      /\ pc[t] = "push_cas" /\ writePos \in Nat /\ readPos \in Nat
  BY DEF IInv, TypeOK, PushClaim, ThreadInv, Goto
<1>2. /\ Producing(t)'
      /\ \A u \in Threads : /\ Producing(u) => Producing(u)'
                            /\ Consuming(u) => Consuming(u)'
  BY <1>1 DEF IInv, TypeOK, Producing, Consuming
<1>3. FreeAreRecycled'
  BY <1>1, <1>2, CapacityAssumption DEF BlockInv, FreeAreRecycled
<1>4. ClaimedArePublished'
  BY <1>1, <1>2 DEF BlockInv, ClaimedArePublished
<1>5. ASSUME NEW u \in Threads PROVE NotBehind(u)'
  BY <1>1 DEF IInv, TypeOK, BlockInv, NotBehind
<1> QED
  BY <1>3, <1>4, <1>5 DEF BlockInv

\* The claimed position, one lap later, is free and in the consumer's hands.
LEMMA PopClaimBlock ==
  ASSUME IInv, BlockInv, Capacity >= 2, NEW t \in Threads, PopClaim(t)
  PROVE  BlockInv'
<1>1. /\ pos[t] = readPos /\ seq[Cell(readPos)] = readPos + 1 /\ readPos' = readPos + 1
      /\ UNCHANGED <<seq, writePos, pos>> /\ pc' = [pc EXCEPT ![t] = "pop_read"]
      /\ pc[t] = "pop_cas" /\ writePos \in Nat /\ readPos \in Nat
  BY DEF IInv, TypeOK, PopClaim, ThreadInv, Goto
<1>2. /\ Consuming(t)'
      /\ \A u \in Threads : /\ Producing(u) => Producing(u)'
                            /\ Consuming(u) => Consuming(u)'
  BY <1>1 DEF IInv, TypeOK, Producing, Consuming
<1>3. ASSUME NEW p \in writePos' .. readPos' + Capacity - 1
      PROVE  (seq[Cell(p)] = p \/ \E u \in Threads : Consuming(u) /\ pos[u] = p - Capacity)'
  <2>1. CASE p = readPos + Capacity
    BY <1>1, <1>2, <2>1, CapacityAssumption
  <2>2. CASE p # readPos + Capacity
    <3>1. p \in writePos .. readPos + Capacity - 1
      BY <1>1, <2>2, CapacityAssumption
    <3> QED
      BY <1>1, <1>2, <3>1 DEF BlockInv, FreeAreRecycled
  <2> QED
    BY <2>1, <2>2
<1>4. ClaimedArePublished'
  BY <1>1, <1>2 DEF BlockInv, ClaimedArePublished
<1>5. ASSUME NEW u \in Threads PROVE NotBehind(u)'
  BY <1>1 DEF IInv, TypeOK, BlockInv, NotBehind
<1> QED
  BY <1>3, <1>4, <1>5 DEF BlockInv, FreeAreRecycled

\* Publication moves the sequence of the producer's own cell forward by one.
LEMMA PushPublishBlock ==
  ASSUME IInv, BlockInv, Capacity >= 2, NEW t \in Threads, PushPublish(t)
  PROVE  BlockInv'
<1> DEFINE c == Cell(pos[t])
<1>1. /\ seq' = [seq EXCEPT ![c] = pos[t] + 1] /\ seq[c] = pos[t] /\ c \in Cells
      /\ UNCHANGED <<writePos, readPos>> /\ pc' = [pc EXCEPT ![t] = "idle"]
      /\ pos[t] \in Nat /\ readPos <= pos[t] /\ pos[t] < writePos
      /\ \A u \in Threads \ {t} : pos'[u] = pos[u]
      /\ seq \in [Cells -> Nat] /\ writePos \in Nat /\ readPos \in Nat
      /\ Producing(t)
  BY CellInRing DEF IInv, TypeOK, PushPublish, ThreadInv, Producing, Goto, Return
<1>2. \A u \in Threads \ {t} : /\ Producing(u) => Producing(u)'
                               /\ Consuming(u) => Consuming(u)'
  BY <1>1 DEF IInv, TypeOK, Producing, Consuming
<1>3. ASSUME NEW p \in writePos' .. readPos' + Capacity - 1
      PROVE  (seq[Cell(p)] = p \/ \E u \in Threads : Consuming(u) /\ pos[u] = p - Capacity)'
  <2>1. Cell(p) # c /\ ~Consuming(t)
    BY <1>1, CellsDiffer, CapacityAssumption DEF Producing, Consuming
  <2>2. seq'[Cell(p)] = seq[Cell(p)]
    BY <1>1, <2>1
  <2> QED
    BY <1>1, <1>2, <2>1, <2>2 DEF BlockInv, FreeAreRecycled
<1>4. ASSUME NEW p \in readPos' .. writePos' - 1
      PROVE  (seq[Cell(p)] = p + 1 \/ \E u \in Threads : Producing(u) /\ pos[u] = p)'
  <2>1. CASE p = pos[t]
    BY <1>1, <2>1
  <2>2. CASE p # pos[t]
    <3>1. seq'[Cell(p)] = seq[Cell(p)]
      BY <1>1, <2>2, OwnerAlone
    <3> QED
      BY <1>1, <1>2, <2>2, <3>1 DEF BlockInv, ClaimedArePublished
  <2> QED
    BY <2>1, <2>2
<1>5. ASSUME NEW u \in Threads PROVE NotBehind(u)'
  <2>1. pos[u] \in Nat => Cell(pos[u]) \in Cells
    BY CellInRing
  <2> QED
    BY <1>1, <2>1 DEF IInv, TypeOK, BlockInv, NotBehind
<1> QED
  BY <1>3, <1>4, <1>5 DEF BlockInv, FreeAreRecycled, ClaimedArePublished

\* Recycling moves the sequence of the consumer's own cell to the next lap.
LEMMA PopRecycleBlock ==
  ASSUME IInv, BlockInv, Capacity >= 2, NEW t \in Threads, PopRecycle(t)
  PROVE  BlockInv'
<1> DEFINE c == Cell(pos[t])
<1>1. /\ seq' = [seq EXCEPT ![c] = pos[t] + Capacity] /\ seq[c] = pos[t] + 1 /\ c \in Cells
      /\ UNCHANGED <<writePos, readPos>> /\ pc' = [pc EXCEPT ![t] = "idle"]
      /\ pos[t] \in Nat /\ pos[t] < readPos
      /\ \A u \in Threads \ {t} : pos'[u] = pos[u]
      /\ seq \in [Cells -> Nat] /\ writePos \in Nat /\ readPos \in Nat
      /\ Consuming(t)
  BY CellInRing DEF IInv, TypeOK, PopRecycle, ThreadInv, Consuming, Goto, Return
<1>2. \A u \in Threads \ {t} : /\ Producing(u) => Producing(u)'
                               /\ Consuming(u) => Consuming(u)'
  BY <1>1 DEF IInv, TypeOK, Producing, Consuming
<1>3. ASSUME NEW p \in writePos' .. readPos' + Capacity - 1
      PROVE  (seq[Cell(p)] = p \/ \E u \in Threads : Consuming(u) /\ pos[u] = p - Capacity)'
  <2>1. p \in Nat /\ p \in writePos .. readPos + Capacity - 1
    BY <1>1
  <2>2. CASE p = pos[t] + Capacity
    BY <1>1, <2>1, <2>2, CellNextLap
  <2>3. CASE p # pos[t] + Capacity /\ seq[Cell(p)] = p
    <3>1. p = pos[t] + 1 => Cell(p) # c
      BY <1>1, <2>1, CellsDiffer, CapacityAssumption
    <3>2. Cell(p) # c
      BY <1>1, <2>1, <2>3, <3>1
    <3> QED
      BY <1>1, <2>3, <3>2
  <2>4. CASE \E u \in Threads \ {t} : Consuming(u) /\ pos[u] = p - Capacity
    BY <1>1, <1>2, <2>4
  <2>5. (\E u \in Threads : Consuming(u) /\ pos[u] = p - Capacity) /\ p # pos[t] + Capacity
          => \E u \in Threads \ {t} : Consuming(u) /\ pos[u] = p - Capacity
    BY <1>1, <2>1, CapacityAssumption
  <2> QED
    BY <2>1, <2>2, <2>3, <2>4, <2>5 DEF BlockInv, FreeAreRecycled
<1>4. ASSUME NEW p \in readPos' .. writePos' - 1
      PROVE  (seq[Cell(p)] = p + 1 \/ \E u \in Threads : Producing(u) /\ pos[u] = p)'
  <2>1. seq'[Cell(p)] = seq[Cell(p)] /\ ~Producing(t)
    BY <1>1, OwnerAlone DEF Producing, Consuming
  <2> QED
    BY <1>1, <1>2, <2>1 DEF BlockInv, ClaimedArePublished
<1>5. ASSUME NEW u \in Threads PROVE NotBehind(u)'
  <2>1. pos[u] \in Nat => Cell(pos[u]) \in Cells
    BY CellInRing
  <2> QED
    BY <1>1, <2>1, CapacityAssumption DEF IInv, TypeOK, BlockInv, NotBehind
<1> QED
  BY <1>3, <1>4, <1>5 DEF BlockInv, FreeAreRecycled, ClaimedArePublished

\* Every step keeps that account.
LEMMA NextPreservesBlockInv ==
  ASSUME IInv, BlockInv, Capacity >= 2, [Next]_vars
  PROVE  BlockInv'
<1>1. ASSUME UNCHANGED vars PROVE BlockInv'
  BY <1>1 DEF vars, BlockInv, FreeAreRecycled, ClaimedArePublished, NotBehind,
              Producing, Consuming
<1> QED
  BY <1>1, LocalActionsBlock, PushClaimBlock, PushPublishBlock, PopClaimBlock,
     PopRecycleBlock DEF Next, PushStep, PopStep

\* Push returns false only when the ring is full or a consumer is still reading
\* the cell it needs; Pop only when nothing is queued or a producer is still
\* writing the oldest item: never because of the stale position it tests.
THEOREM FailuresAreHonest ==
  ASSUME Capacity >= 2
  PROVE  Spec => FailsOnlyWhenBlocked
<1>1. ASSUME IInv, BlockInv, NEW t \in Threads, PushSeesFull(t)
      PROVE  \/ writePos - readPos = Capacity
             \/ \E u \in Threads : Consuming(u) /\ pos[u] = writePos - Capacity
  <2>1. pos[t] = writePos /\ seq[Cell(writePos)] # writePos
    <3>1. pc[t] = "push_check" /\ seq[Cell(pos[t])] < pos[t]
      BY <1>1 DEF PushSeesFull
    <3>2. pos[t] \in Nat /\ seq[Cell(pos[t])] \in Nat
      BY <1>1, CellInRing DEF IInv, TypeOK
    <3>3. pos[t] = writePos \/ seq[Cell(pos[t])] >= pos[t]
      BY <1>1, <3>1 DEF BlockInv, NotBehind
    <3> QED BY <3>1, <3>2, <3>3
  <2>2. /\ writePos \in Nat /\ readPos \in Nat /\ writePos <= readPos + Capacity
    BY <1>1 DEF IInv, TypeOK, RingInv, NeverOverfull
  <2> QED
    BY <1>1, <2>1, <2>2, CapacityAssumption DEF BlockInv, FreeAreRecycled
<1>2. ASSUME IInv, BlockInv, NEW t \in Threads, PopSeesEmpty(t)
      PROVE  \/ writePos = readPos
             \/ \E u \in Threads : Producing(u) /\ pos[u] = readPos
  <2>1. pos[t] = readPos /\ seq[Cell(readPos)] # readPos + 1
    <3>1. pc[t] = "pop_check" /\ seq[Cell(pos[t])] < pos[t] + 1
      BY <1>2 DEF PopSeesEmpty
    <3>2. pos[t] \in Nat /\ seq[Cell(pos[t])] \in Nat
      BY <1>2, CellInRing DEF IInv, TypeOK
    <3>3. pos[t] = readPos \/ seq[Cell(pos[t])] >= pos[t] + 1
      BY <1>2, <3>1 DEF BlockInv, NotBehind
    <3> QED BY <3>1, <3>2, <3>3
  <2>2. /\ writePos \in Nat /\ readPos \in Nat /\ readPos <= writePos
    BY <1>2 DEF IInv, TypeOK, RingInv, NeverOverfull
  <2> QED
    BY <1>2, <2>1, <2>2 DEF BlockInv, ClaimedArePublished
<1>3. Init => BlockInv
  BY InitBlockInv
<1>4. IInv /\ BlockInv /\ [Next]_vars => BlockInv'
  BY NextPreservesBlockInv
<1>5. IInv /\ BlockInv =>
        \A t \in Threads :
          /\ PushSeesFull(t) =>
               \/ writePos - readPos = Capacity
               \/ \E u \in Threads : Consuming(u) /\ pos[u] = writePos - Capacity
          /\ PopSeesEmpty(t) =>
               \/ writePos = readPos
               \/ \E u \in Threads : Producing(u) /\ pos[u] = readPos
  BY <1>1, <1>2
<1> QED
  BY <1>3, <1>4, <1>5, InductiveInvariant, PTL DEF Spec, FailsOnlyWhenBlocked

-----------------------------------------------------------------------------
(* Refinement of BoundedFifo. *)

\* What is appended to the log is appended to what of it is not yet popped.
LEMMA SubSeqAppend ==
  ASSUME NEW S, NEW l \in Seq(S), NEW e \in S, NEW r \in Nat, r <= Len(l)
  PROVE  SubSeq(Append(l, e), r + 1, Len(l) + 1) = Append(SubSeq(l, r + 1, Len(l)), e)
<1> DEFINE n  == Len(l)
           lhs == SubSeq(Append(l, e), r + 1, n + 1)
           sub == SubSeq(l, r + 1, n)
<1>1. /\ n \in Nat /\ Append(l, e) \in Seq(S) /\ Len(Append(l, e)) = n + 1
      /\ \A i \in 1 .. n : Append(l, e)[i] = l[i] /\ l[i] \in S
      /\ Append(l, e)[n + 1] = e
  BY AppendProperties, LenProperties, ElementOfSeq
<1>2. /\ sub \in Seq(S) /\ Len(sub) = n - r
      /\ \A i \in 1 .. n - r : sub[i] = l[r + i]
  BY <1>1, SubSeqProperties, SMT
<1>3. /\ Append(sub, e) \in Seq(S) /\ Len(Append(sub, e)) = n - r + 1
      /\ \A i \in 1 .. n - r : Append(sub, e)[i] = sub[i]
      /\ Append(sub, e)[n - r + 1] = e
  BY <1>2, AppendProperties
<1>4. /\ lhs \in Seq(S) /\ Len(lhs) = n - r + 1
      /\ \A i \in 1 .. n - r + 1 : lhs[i] = Append(l, e)[r + i]
  BY <1>1, SubSeqProperties, SMT
<1> HIDE DEF lhs, sub, n
<1>5. ASSUME NEW i \in 1 .. n - r + 1 PROVE lhs[i] = Append(sub, e)[i]
  <2>1. CASE i = n - r + 1
    <3>1. r + i = n + 1
      BY <1>1, <2>1
    <3> QED BY <1>1, <1>3, <1>4, <2>1, <3>1
  <2>2. CASE i # n - r + 1
    <3>1. i \in 1 .. n - r /\ r + i \in 1 .. n
      BY <1>1, <2>2
    <3>2. lhs[i] = l[r + i]
      BY <1>1, <1>4, <3>1
    <3> QED BY <1>2, <1>3, <3>1, <3>2
  <2> QED BY <2>1, <2>2
<1>6. lhs = Append(sub, e)
  BY <1>3, <1>4, <1>5, SeqEqual
<1> QED
  BY <1>6 DEF lhs, sub, n

\* The first of what is not yet popped, and the rest.
LEMMA SubSeqTail ==
  ASSUME NEW S, NEW l \in Seq(S), NEW r \in Nat, r < Len(l)
  PROVE  /\ SubSeq(l, r + 1, Len(l)) # << >>
         /\ Head(SubSeq(l, r + 1, Len(l))) = l[r + 1]
         /\ Tail(SubSeq(l, r + 1, Len(l))) = SubSeq(l, r + 2, Len(l))
<1>1. /\ Len(l) \in Nat /\ r + 1 \in 1 .. Len(l) /\ Len(l) \in r + 1 .. Len(l)
      /\ r + 1 + 1 = r + 2
  BY LenProperties
<1>2. Len(SubSeq(l, r + 1, Len(l))) = Len(l) - r
  BY <1>1, SubSeqProperties, ElementOfSeq
<1>3. SubSeq(l, r + 1, Len(l)) # << >>
  <2>1. \A n \in Nat : r < n => n - r # 0
    OBVIOUS
  <2>2. Len(SubSeq(l, r + 1, Len(l))) # 0
    BY <1>1, <1>2, <2>1, Zenon
  <2>3. Len(<< >>) = 0
    BY EmptySeq
  <2> QED
    BY <2>3, <2>2, Zenon
<1> QED
  BY <1>1, <1>3, HeadTailOfSubSeq

Queue == SubSeq(log, readPos + 1, writePos)
Held == [t \in Threads |-> IF pc[t] = "pop_read" THEN log[pos[t] + 1] ELSE got[t]]

\* The ring is empty at first, as the queue it implements.
LEMMA InitRefines == Init => Fifo!Init
<1> SUFFICES ASSUME Init PROVE Fifo!Init
  OBVIOUS
<1>1. SubSeq(log, readPos + 1, writePos) = << >>
  BY SubSeqEmpty DEF Init
<1> QED
  BY <1>1 DEF Init, Fifo!Init

\* Push takes effect in the abstract queue at its compare-exchange.
LEMMA PushClaimRefines ==
  ASSUME IInv, Capacity >= 2, NEW t \in Threads, PushClaim(t)
  PROVE  \E item \in Tasks : Fifo!Push(item)
<1>1. /\ arg[t] \in Tasks /\ writePos' = writePos + 1 /\ log' = Append(log, arg[t])
      /\ readPos' = readPos /\ pos' = pos /\ got' = got
      /\ pc' = [pc EXCEPT ![t] = "push_write"] /\ pc[t] = "push_cas"
  BY DEF IInv, ThreadInv, PushClaim, PushLabels, Goto
<1>2. /\ log \in Seq(Tasks) /\ Len(log) = writePos /\ readPos <= writePos
      /\ readPos \in Nat /\ writePos \in Nat /\ writePos < readPos + Capacity
  BY ClaimFindsRoom DEF IInv, TypeOK, RingInv, NeverOverfull
<1>3. Queue' = Append(Queue, arg[t])
  BY <1>1, <1>2, SubSeqAppend DEF Queue
<1>4. Len(Queue) = writePos - readPos
  BY <1>2, SubSeqProperties, ElementOfSeq DEF Queue
<1>5. Len(Queue) < Capacity
  BY <1>2, <1>4, CapacityAssumption
<1>6. ASSUME NEW u \in Threads PROVE Held'[u] = Held[u]
  <2>1. pc'[u] = "pop_read" <=> pc[u] = "pop_read"
    BY <1>1 DEF IInv, TypeOK
  <2>2. ASSUME pc[u] = "pop_read" PROVE log'[pos[u] + 1] = log[pos[u] + 1]
    <3>1. pos[u] \in Nat /\ pos[u] + 1 \in 1 .. Len(log)
      BY <1>2, <2>2 DEF IInv, TypeOK, ThreadInv, Consuming
    <3> QED
      BY <1>1, <1>2, <3>1, AppendProperties
  <2> QED
    BY <1>1, <2>1, <2>2 DEF Held
<1>7. Held' = Held
  BY <1>6 DEF Held
<1> QED
  BY <1>1, <1>3, <1>5, <1>7 DEF Fifo!Push, Queue, Held

\* Pop takes effect at its compare-exchange.
LEMMA PopClaimRefines ==
  ASSUME IInv, Capacity >= 2, NEW t \in Threads, PopClaim(t)
  PROVE  Fifo!Pop(t)
<1>1. /\ pos[t] = readPos /\ readPos' = readPos + 1 /\ writePos' = writePos
      /\ log' = log /\ pos' = pos /\ got' = got
      /\ pc' = [pc EXCEPT ![t] = "pop_read"]
  BY DEF PopClaim, Goto
<1>2. /\ log \in Seq(Tasks) /\ Len(log) = writePos /\ readPos < writePos
      /\ readPos \in Nat /\ writePos \in Nat
  BY ClaimFindsItem DEF IInv, TypeOK, RingInv
<1>3. /\ Queue # << >> /\ Head(Queue) = log[readPos + 1]
      /\ Tail(Queue) = SubSeq(log, readPos + 2, writePos)
  BY <1>2, SubSeqTail DEF Queue
<1>4. Queue' = Tail(Queue)
  BY <1>1, <1>2, <1>3 DEF Queue
<1>5. Held' = [Held EXCEPT ![t] = Head(Queue)]
  <2>1. ASSUME NEW u \in Threads
        PROVE  Held'[u] = IF u = t THEN log[readPos + 1] ELSE Held[u]
    BY <1>1 DEF IInv, TypeOK, Held
  <2> QED
    BY <1>3, <2>1 DEF Held
<1> QED
  BY <1>3, <1>4, <1>5 DEF Fifo!Pop, Queue, Held

\* Every other step of a thread is invisible in the abstract queue.
LEMMA QuietStep ==
  ASSUME IInv, NEW t \in Threads,
         UNCHANGED <<writePos, readPos, log>>,
         \A u \in Threads \ {t} : pc'[u] = pc[u] /\ pos'[u] = pos[u] /\ got'[u] = got[u],
         Held'[t] = Held[t]
  PROVE  Queue' = Queue /\ Held' = Held
<1>1. \A u \in Threads : Held'[u] = Held[u]
  BY DEF Held
<1> QED
  BY <1>1 DEF Queue, Held

\* Every step but the two claims is a stutter of the queue.
LEMMA QuietActions ==
  ASSUME IInv, NEW t \in Threads,
         \/ \E item \in Tasks : PushStart(t, item)
         \/ PushSeesFree(t) \/ PushSeesFull(t) \/ PushSeesTaken(t) \/ PushReload(t)
         \/ PushClaimFails(t) \/ PushWrite(t) \/ PushPublish(t)
         \/ PopStart(t) \/ PopSeesPublished(t) \/ PopSeesEmpty(t) \/ PopSeesTaken(t)
         \/ PopReload(t) \/ PopClaimFails(t) \/ PopRead(t) \/ PopRecycle(t)
         \/ SizeStart(t) \/ SizeReturn(t)
  PROVE  Queue' = Queue /\ Held' = Held
<1>1. CASE PopRead(t)
  <2>1. Held'[t] = Held[t]
    BY <1>1 DEF IInv, TypeOK, ThreadInv, PopRead, Goto, Held
  <2> QED
    BY <1>1, <2>1, QuietStep DEF IInv, TypeOK, PopRead, Goto
<1>2. ASSUME pc[t] # "pop_read", pc'[t] # "pop_read", got' = got,
             UNCHANGED <<writePos, readPos, log>>,
             \A u \in Threads \ {t} : pc'[u] = pc[u] /\ pos'[u] = pos[u]
      PROVE  Queue' = Queue /\ Held' = Held
  <2>1. Held'[t] = Held[t]
    BY <1>2 DEF Held
  <2> QED
    BY <1>2, <2>1, QuietStep
<1> USE DEF IInv, TypeOK, Goto, Return
<1>3. CASE \E item \in Tasks : PushStart(t, item)
  BY <1>2, <1>3 DEF PushStart
<1>4. CASE PushSeesFree(t) \/ PushSeesFull(t) \/ PushSeesTaken(t) \/ PushReload(t)
  BY <1>2, <1>4 DEF PushSeesFree, PushSeesFull, PushSeesTaken, PushReload
<1>5. CASE PushClaimFails(t) \/ PushWrite(t) \/ PushPublish(t)
  BY <1>2, <1>5 DEF PushClaimFails, PushWrite, PushPublish
<1>6. CASE PopStart(t) \/ PopSeesPublished(t) \/ PopSeesEmpty(t) \/ PopSeesTaken(t)
  BY <1>2, <1>6 DEF PopStart, PopSeesPublished, PopSeesEmpty, PopSeesTaken
<1>7. CASE PopReload(t) \/ PopClaimFails(t) \/ PopRecycle(t)
  BY <1>2, <1>7 DEF PopReload, PopClaimFails, PopRecycle
<1>8. CASE SizeStart(t) \/ SizeReturn(t)
  BY <1>2, <1>8 DEF SizeStart, SizeReturn
<1> QED
  BY <1>1, <1>3, <1>4, <1>5, <1>6, <1>7, <1>8

\* The ring implements the bounded FIFO queue of module BoundedFifo: every step
\* of a Push, Pop or Size is one abstract Push, one abstract Pop or a stutter.
THEOREM RingImplementsFifo ==
  ASSUME Capacity >= 2
  PROVE  Spec => ImplementsFifo
<1>1. Init => Fifo!Init
  BY InitRefines
<1>2. IInv /\ [Next]_vars => [Fifo!Next]_<<Queue, Held>>
  <2> SUFFICES ASSUME IInv, [Next]_vars PROVE [Fifo!Next]_<<Queue, Held>>
    OBVIOUS
  <2>1. ASSUME NEW t \in Threads, PushClaim(t) PROVE Fifo!Next
    BY <2>1, PushClaimRefines DEF Fifo!Next
  <2>2. ASSUME NEW t \in Threads, PopClaim(t) PROVE Fifo!Next
    BY <2>2, PopClaimRefines DEF Fifo!Next
  <2>3. ASSUME UNCHANGED vars PROVE Queue' = Queue /\ Held' = Held
    BY <2>3 DEF vars, Queue, Held
  <2> QED
    BY <2>1, <2>2, <2>3, QuietActions DEF Next, PushStep, PopStep
<1>3. Spec => []IInv
  BY InductiveInvariant
<1> QED
  BY <1>1, <1>2, <1>3, PTL DEF Spec, ImplementsFifo, Fifo!Spec, Queue, Held
=============================================================================
