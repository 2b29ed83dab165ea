-------------------------- MODULE InsertedCode_proofs --------------------------
(***************************************************************************)
(* The proofs that no thread writes beyond the end of its buffer, that     *)
(* instructions are counted for what the core does, and that running       *)
(* blocks instruction by instruction is running each in one step: whatever *)
(* the blocks of the application and the number of its threads.            *)
(*                                                                         *)
(* For the first, Room(t) is what the blocks without a clean call may have *)
(* put into the buffer since the last clean call.  Inv says how full the   *)
(* buffer is at each step of a block and while a callback is about to run. *)
(***************************************************************************)
EXTENDS InsertedCode, RoofClient_proofs

Room(t) == bare[t] * MaxLen

BetweenBlocks(t) == pc[t] = 0 => buf_ptr[t] <= Room(t) + MaxLen - 1
InBareBlock(t) ==
  pc[t] > 0 /\ bb[t].excl =>
    /\ pc[t] # 2
    /\ pc[t] = 1 => buf_ptr[t] + 1 <= Room(t)
    /\ pc[t] > 2 => buf_ptr[t] + 1 <= Room(t) + pc[t] - 2
InCleanedBlock(t) ==
  pc[t] > 0 /\ ~bb[t].excl =>
    /\ pc[t] = 1 => buf_ptr[t] + 1 <= Room(t) + MaxLen
    /\ pc[t] = 2 => buf_ptr[t] <= Room(t) + MaxLen
    /\ pc[t] > 2 => bare[t] = 0 /\ buf_ptr[t] <= pc[t] - 3
InDelimiter ==
  at # "app" =>
    /\ block \in DelimBlocks /\ pc[Main] = 0
    /\ ~opt.time_run =>
         buf_ptr[Main] + BodyEntries(block) + 1 <= Room(Main) + MaxLen
ThreadInv(t) == BetweenBlocks(t) /\ InBareBlock(t) /\ InCleanedBlock(t)
Inv == TypeOKInserted /\ InDelimiter /\ \A t \in Threads : ThreadInv(t)
-----------------------------------------------------------------------------
\* Products, for the room of a thread that meets a further bare block.
LEMMA Products ==
  ASSUME NEW m \in Nat, NEW n \in Nat, NEW k \in Nat, m <= n
  PROVE  /\ m * k \in Nat /\ (m + 1) * k = m * k + k /\ 0 * k = 0
         /\ m * k <= n * k
<1>1. m * k \in Nat /\ (m + 1) * k = m * k + k /\ 0 * k = 0  OBVIOUS
<1>2. PICK d \in Nat : n = m + d  OBVIOUS
<1>3. n * k = m * k + d * k  BY <1>2
<1>4. d * k \in Nat  OBVIOUS
<1> QED BY <1>1, <1>3, <1>4

\* A block has at least one instruction and at most MaxLen.
LEMMA Lengths ==
  ASSUME NEW b \in Blocks \cup DelimBlocks
  PROVE  Len(Code[b]) \in Nat /\ 1 <= Len(Code[b]) /\ Len(Code[b]) <= MaxLen
<1>1. Len(Code[b]) \in 1 .. MaxLen  BY CodeAssumption
<1> QED BY <1>1, CodeAssumption

\* No more references are recorded for the rest of a block than it has
\* instructions after the first.
LEMMA BodyEntriesBound ==
  ASSUME NEW b \in Blocks \cup DelimBlocks
  PROVE  BodyEntries(b) \in Nat /\ BodyEntries(b) <= Len(Code[b]) - 1
<1> DEFINE n == Len(Code[b])
           S == {k \in 2 .. n : Instrumented(Code[b][k])}
<1>1. n \in Nat /\ 1 <= n  BY Lengths
<1>2. IsFiniteSet(2 .. n) /\ Cardinality(2 .. n) = n - 1
  <2>1. IsFiniteSet(2 .. n)
        /\ Cardinality(2 .. n) = IF 2 > n THEN 0 ELSE n - 2 + 1
    BY <1>1, FS_Interval
  <2> QED BY <2>1, <1>1
<1>3. S \subseteq 2 .. n  OBVIOUS
<1>4. IsFiniteSet(S) /\ Cardinality(S) <= Cardinality(2 .. n)
  BY <1>2, <1>3, FS_Subset
<1>5. Cardinality(S) \in Nat  BY <1>4, FS_CardinalityType
<1> QED BY <1>1, <1>2, <1>4, <1>5 DEF BodyEntries

\* How full a buffer may get, from the capacity that the code relies on.
LEMMA Capacity ==
  ASSUME NEW m \in 0 .. MaxBare
  PROVE  m * MaxLen \in Nat /\ m * MaxLen + MaxLen <= MaxRefs
<1>1. MaxBare \in Nat /\ MaxLen \in Nat /\ m \in Nat /\ m <= MaxBare  BY CodeAssumption
<1>2. m * MaxLen <= MaxBare * MaxLen /\ m * MaxLen \in Nat  BY <1>1, Products
<1>3. (MaxBare + 1) * MaxLen = MaxBare * MaxLen + MaxLen  BY <1>1, Products
<1>4. MaxBare * MaxLen \in Nat  BY <1>1, Products
<1> QED BY <1>1, <1>2, <1>3, <1>4, CapacityAssumption
-----------------------------------------------------------------------------
\* The invariant implies the property.
LEMMA InvImpliesNoOverflow == Inv => NoOverflow
<1> SUFFICES ASSUME Inv, NEW t \in Threads PROVE buf_ptr[t] <= MaxRefs
  BY DEF NoOverflow
<1>1. bare[t] \in 0 .. MaxBare /\ pc[t] \in Nat /\ buf_ptr[t] \in Nat
  BY DEF Inv, TypeOKInserted
<1>2. Room(t) \in Nat /\ Room(t) + MaxLen <= MaxRefs  BY <1>1, Capacity DEF Room
<1>3. MaxLen \in Nat /\ MaxRefs \in Nat  BY CodeAssumption, CapacityAssumption
<1>4. ThreadInv(t)  BY DEF Inv
<1>5. CASE pc[t] = 0  BY <1>1, <1>2, <1>3, <1>4, <1>5 DEF ThreadInv, BetweenBlocks
<1>6. CASE pc[t] > 0
  <2>1. pc[t] <= Len(Code[bb[t]]) + 1 /\ bb[t] \in Blocks
    BY <1>6 DEF Inv, TypeOKInserted
  <2>2. pc[t] <= MaxLen + 1  BY <2>1, <1>1, <1>3, Lengths
  <2>3. CASE bb[t].excl
    BY <1>1, <1>2, <1>3, <1>4, <1>6, <2>2, <2>3 DEF ThreadInv, InBareBlock
  <2>4. CASE ~bb[t].excl
    BY <1>1, <1>2, <1>3, <1>4, <1>6, <2>2, <2>4 DEF ThreadInv, InCleanedBlock
  <2> QED BY <2>3, <2>4
<1> QED BY <1>1, <1>5, <1>6

\* No thread is in a block at first, and no buffer has an entry.
LEMMA InvInit == InitInserted => Inv
<1> SUFFICES ASSUME InitInserted PROVE Inv
  OBVIOUS
<1>1. MaxLen \in Nat /\ MaxLen >= 1 /\ MaxBare \in Nat  BY CodeAssumption
<1>2. 0 * MaxLen = 0  BY <1>1
<1>3. TypeOKInserted  BY <1>1 DEF InitInserted, TypeOKInserted
<1>4. InDelimiter  BY DEF InitInserted, Init, InDelimiter
<1>5. ASSUME NEW t \in Threads PROVE ThreadInv(t)
  BY <1>1, <1>2, <1>5
     DEF InitInserted, ThreadInv, BetweenBlocks, InBareBlock, InCleanedBlock, Room
<1> QED BY <1>3, <1>4, <1>5 DEF Inv
-----------------------------------------------------------------------------
\* A step that leaves a thread's part of the buffer alone keeps its invariant.
LEMMA OtherThreads ==
  ASSUME NEW u \in Threads, ThreadInv(u), bb'[u] = bb[u], pc'[u] = pc[u],
         buf_ptr'[u] = buf_ptr[u], bare'[u] = bare[u]
  PROVE  ThreadInv(u)'
  BY DEF ThreadInv, BetweenBlocks, InBareBlock, InCleanedBlock, Room

\* Where Advance leads from a step of a block.
LEMMA AdvanceStep ==
  ASSUME Inv, NEW t \in Threads, pc[t] > 0, Advance(t)
  PROVE  /\ pc' \in [Threads -> Nat]
         /\ \A u \in Threads : u # t => pc'[u] = pc[u]
         /\ pc'[t] <= Len(Code[bb[t]]) + 1
         /\ \/ pc'[t] = 0 /\ (IF pc[t] = 1 /\ bb[t].excl THEN 3 ELSE pc[t] + 1)
                              > Len(Code[bb[t]]) + 1
            \/ pc'[t] = (IF pc[t] = 1 /\ bb[t].excl THEN 3 ELSE pc[t] + 1)
<1> DEFINE next == IF pc[t] = 1 /\ bb[t].excl THEN 3 ELSE pc[t] + 1
<1>1. pc \in [Threads -> Nat] /\ bb[t] \in Blocks  BY DEF Inv, TypeOKInserted
<1>2. Len(Code[bb[t]]) \in Nat  BY <1>1, Lengths
<1>3. next \in Nat  BY <1>1
<1>4. pc' = [pc EXCEPT ![t] = IF next > Len(Code[bb[t]]) + 1 THEN 0 ELSE next]
  BY DEF Advance
<1> HIDE DEF next
<1>5. pc'[t] = IF next > Len(Code[bb[t]]) + 1 THEN 0 ELSE next  BY <1>1, <1>4
<1>6. pc' \in [Threads -> Nat]  BY <1>1, <1>3, <1>4
<1>7. \A u \in Threads : u # t => pc'[u] = pc[u]  BY <1>1, <1>4
<1>8. pc'[t] <= Len(Code[bb[t]]) + 1  BY <1>2, <1>3, <1>5
<1>9. \/ pc'[t] = 0 /\ next > Len(Code[bb[t]]) + 1
      \/ pc'[t] = next
  BY <1>5
<1> QED BY <1>6, <1>7, <1>8, <1>9 DEF next
-----------------------------------------------------------------------------
\* A thread enters a block.
LEMMA StartBlockKeepsInv ==
  ASSUME Inv, NEW t \in Threads, NEW b \in Blocks, StartBlock(t, b)
  PROVE  Inv'
<1> USE DEF StartBlock
<1>1. /\ bb \in [Threads -> Blocks \cup {NoBlock}] /\ pc \in [Threads -> Nat]
      /\ buf_ptr \in [Threads -> Nat] /\ bare \in [Threads -> 0 .. MaxBare]
  BY DEF Inv, TypeOKInserted
<1>2. MaxLen \in Nat /\ MaxBare \in Nat /\ b.excl \in BOOLEAN
  BY CodeAssumption, BlocksAssumption DEF Block
<1>3. pc[t] = 0 /\ bb'[t] = b /\ pc'[t] = 1 /\ buf_ptr'[t] = buf_ptr[t]
  BY <1>1
<1>4. bare'[t] = IF b.excl THEN bare[t] + 1 ELSE bare[t]  BY <1>1
<1>5. bare[t] \in 0 .. MaxBare /\ bare'[t] \in 0 .. MaxBare  BY <1>1, <1>2, <1>4
<1>6. ASSUME NEW u \in Threads, u # t
      PROVE  bb'[u] = bb[u] /\ pc'[u] = pc[u] /\ buf_ptr'[u] = buf_ptr[u]
             /\ bare'[u] = bare[u]
  BY <1>1, <1>6
<1>7. TypeOKInserted'
  <2>1. bare' \in [Threads -> 0 .. MaxBare]
    <3>1. bare' = [bare EXCEPT ![t] = bare'[t]]  BY <1>1, <1>4
    <3> QED BY <3>1, <1>1, <1>5
  <2>2. bb' \in [Threads -> Blocks \cup {NoBlock}] /\ pc' \in [Threads -> Nat]
        /\ buf_ptr' \in [Threads -> Nat]
    BY <1>1
  <2>3. ASSUME NEW u \in Threads, pc'[u] > 0
        PROVE  bb'[u] \in Blocks /\ pc'[u] <= Len(Code[bb'[u]]) + 1
    <3>1. CASE u = t  BY <3>1, <1>3, Lengths
    <3>2. CASE u # t  BY <3>2, <2>3, <1>6 DEF Inv, TypeOKInserted
    <3> QED BY <3>1, <3>2
  <2> QED BY <2>1, <2>2, <2>3 DEF TypeOKInserted
<1>8. ThreadInv(t)'
  <2>1. Room(t) \in Nat /\ (bare[t] + 1) * MaxLen = Room(t) + MaxLen
    BY <1>2, <1>5, Products DEF Room
  <2>2. buf_ptr[t] + 1 <= Room(t) + MaxLen /\ buf_ptr[t] \in Nat
    BY <1>1, <1>2, <1>3, <2>1 DEF Inv, ThreadInv, BetweenBlocks
  <2>3. Room(t)' = IF b.excl THEN Room(t) + MaxLen ELSE Room(t)
    BY <1>4, <2>1 DEF Room
  <2> QED BY <1>2, <1>3, <2>1, <2>2, <2>3
          DEF ThreadInv, BetweenBlocks, InBareBlock, InCleanedBlock
<1>9. ASSUME NEW u \in Threads PROVE ThreadInv(u)'
  <2>1. CASE u = t  BY <2>1, <1>8
  <2>2. CASE u # t  BY <2>2, <1>6, OtherThreads DEF Inv
  <2> QED BY <2>1, <2>2
<1>10. InDelimiter'
  <2>1. at # "app" => t # Main  BY DEF CanExecute
  <2>2. at # "app" => /\ pc'[Main] = pc[Main]
                      /\ buf_ptr'[Main] = buf_ptr[Main] /\ bare'[Main] = bare[Main]
    BY <2>1, <1>6, ThreadsAssumption
  <2>3. UNCHANGED <<at, block, opt>>  OBVIOUS
  <2> QED BY <2>2, <2>3 DEF Inv, InDelimiter, Room, BodyEntries, Instrumented
<1> QED BY <1>7, <1>9, <1>10 DEF Inv

\* The next instruction of a block runs.
LEMMA RunInstrKeepsInv ==
  ASSUME Inv, NEW t \in Threads, RunInstr(t)
  PROVE  Inv'
<1>1. /\ bb \in [Threads -> Blocks \cup {NoBlock}] /\ pc \in [Threads -> Nat]
      /\ buf_ptr \in [Threads -> Nat] /\ bare \in [Threads -> 0 .. MaxBare]
  BY DEF Inv, TypeOKInserted
<1>2. pc[t] > 0 /\ pc[t] # 2 /\ Advance(t) /\ bb' = bb /\ bare' = bare
  BY DEF RunInstr, InBlock
<1>3. bb[t] \in Blocks /\ pc[t] <= Len(Code[bb[t]]) + 1 /\ bb[t].excl \in BOOLEAN
  BY <1>2, BlocksAssumption DEF Inv, TypeOKInserted, Block
<1>4. /\ Len(Code[bb[t]]) \in Nat /\ 1 <= Len(Code[bb[t]]) /\ Len(Code[bb[t]]) <= MaxLen
      /\ MaxLen \in Nat /\ pc[t] \in Nat /\ bare[t] \in 0 .. MaxBare /\ MaxBare \in Nat
  BY <1>1, <1>3, Lengths, CodeAssumption
<1>5. /\ pc' \in [Threads -> Nat]
      /\ \A u \in Threads : u # t => pc'[u] = pc[u]
      /\ pc'[t] <= Len(Code[bb[t]]) + 1
      /\ \/ pc'[t] = 0 /\ (IF pc[t] = 1 /\ bb[t].excl THEN 3 ELSE pc[t] + 1)
                           > Len(Code[bb[t]]) + 1
         \/ pc'[t] = (IF pc[t] = 1 /\ bb[t].excl THEN 3 ELSE pc[t] + 1)
  BY <1>2, AdvanceStep
<1>6. /\ buf_ptr' \in [Threads -> Nat]
      /\ \A u \in Threads : u # t => buf_ptr'[u] = buf_ptr[u]
      /\ buf_ptr[t] \in Nat /\ buf_ptr'[t] \in Nat /\ buf_ptr'[t] <= buf_ptr[t] + 1
  <2>1. CASE Instrumented(Current(t))
    <3>1. buf_ptr' = [buf_ptr EXCEPT ![t] = @ + 1]  BY <2>1 DEF RunInstr
    <3> QED BY <3>1, <1>1
  <2>2. CASE ~Instrumented(Current(t))
    <3>1. buf_ptr' = buf_ptr  BY <2>2 DEF RunInstr
    <3> QED BY <3>1, <1>1
  <2> QED BY <2>1, <2>2
<1>7. TypeOKInserted'
  <2>1. ASSUME NEW u \in Threads, pc'[u] > 0
        PROVE  bb'[u] \in Blocks /\ pc'[u] <= Len(Code[bb'[u]]) + 1
    <3>1. CASE u = t  BY <3>1, <1>2, <1>3, <1>5
    <3>2. CASE u # t  BY <3>2, <2>1, <1>2, <1>5 DEF Inv, TypeOKInserted
    <3> QED BY <3>1, <3>2
  <2> QED BY <2>1, <1>1, <1>2, <1>5, <1>6 DEF TypeOKInserted
<1>8. ThreadInv(t)'
  <2>1. Room(t)' = Room(t) /\ Room(t) \in Nat
    BY <1>2, <1>4, Products DEF Room
  <2>2. BetweenBlocks(t)'
    <3> SUFFICES ASSUME pc'[t] = 0 PROVE buf_ptr'[t] <= Room(t) + MaxLen - 1
      BY <2>1 DEF BetweenBlocks
    <3>1. (IF pc[t] = 1 /\ bb[t].excl THEN 3 ELSE pc[t] + 1) > Len(Code[bb[t]]) + 1
      BY <1>4, <1>5
    <3>2. CASE bb[t].excl
      <4>1. pc[t] = 1 => buf_ptr[t] + 1 <= Room(t)
        BY <3>2, <1>2 DEF Inv, ThreadInv, InBareBlock
      <4>2. pc[t] > 2 => buf_ptr[t] + 1 <= Room(t) + pc[t] - 2
        BY <3>2, <1>2 DEF Inv, ThreadInv, InBareBlock
      <4>3. pc[t] = 1 \/ pc[t] > 2  BY <1>2, <1>4
      <4>4. buf_ptr[t] \in Nat /\ buf_ptr'[t] \in Nat /\ buf_ptr'[t] <= buf_ptr[t] + 1
        BY <1>6
      <4>5. CASE pc[t] = 1  BY <4>1, <4>4, <4>5, <1>4, <2>1
      <4>6. CASE pc[t] > 2
        <5>1. pc[t] - 2 <= MaxLen - 1  BY <1>3, <1>4
        <5> QED BY <5>1, <4>2, <4>4, <4>6, <1>4, <2>1
      <4> QED BY <4>3, <4>5, <4>6
    <3>3. CASE ~bb[t].excl
      <4>1. pc[t] > 2  BY <3>1, <3>3, <1>2, <1>4
      <4>2. buf_ptr[t] <= pc[t] - 3
        BY <4>1, <3>3, <1>2 DEF Inv, ThreadInv, InCleanedBlock
      <4> QED BY <4>1, <4>2, <1>3, <1>4, <1>6, <2>1
    <3> QED BY <3>2, <3>3
  <2>3. InBareBlock(t)'
    <3> SUFFICES ASSUME pc'[t] > 0, bb[t].excl
                 PROVE  /\ pc'[t] # 2
                        /\ pc'[t] = 1 => buf_ptr'[t] + 1 <= Room(t)
                        /\ pc'[t] > 2 => buf_ptr'[t] + 1 <= Room(t) + pc'[t] - 2
      BY <1>2, <2>1 DEF InBareBlock
    <3>1. pc'[t] = IF pc[t] = 1 THEN 3 ELSE pc[t] + 1  BY <1>5, <1>4
    <3>2. pc[t] = 1 => buf_ptr[t] + 1 <= Room(t)
      BY <1>2 DEF Inv, ThreadInv, InBareBlock
    <3>3. pc[t] > 2 => buf_ptr[t] + 1 <= Room(t) + pc[t] - 2
      BY <1>2 DEF Inv, ThreadInv, InBareBlock
    <3>4. pc[t] \in Nat /\ (pc[t] = 1 \/ pc[t] > 2)  BY <1>2, <1>4
    <3>5. buf_ptr[t] \in Nat /\ buf_ptr'[t] \in Nat /\ buf_ptr'[t] <= buf_ptr[t] + 1
      BY <1>6
    <3>6. CASE pc[t] = 1
      <4>1. pc'[t] = 3 /\ buf_ptr[t] + 1 <= Room(t)  BY <3>1, <3>2, <3>6
      <4> QED BY <4>1, <3>5, <2>1
    <3>7. CASE pc[t] > 2
      <4>1. pc'[t] = pc[t] + 1 /\ buf_ptr[t] + 1 <= Room(t) + pc[t] - 2
        BY <3>1, <3>3, <3>4, <3>7
      <4> QED BY <4>1, <3>4, <3>5, <3>7, <2>1
    <3> QED BY <3>4, <3>6, <3>7
  <2>4. InCleanedBlock(t)'
    <3> SUFFICES ASSUME pc'[t] > 0, ~bb[t].excl
                 PROVE  /\ pc'[t] = 1 => buf_ptr'[t] + 1 <= Room(t) + MaxLen
                        /\ pc'[t] = 2 => buf_ptr'[t] <= Room(t) + MaxLen
                        /\ pc'[t] > 2 => bare[t] = 0 /\ buf_ptr'[t] <= pc'[t] - 3
      BY <1>2, <2>1 DEF InCleanedBlock
    <3>1. pc'[t] = pc[t] + 1  BY <1>4, <1>5
    <3>2. pc[t] = 1 => buf_ptr[t] + 1 <= Room(t) + MaxLen
      BY <1>2 DEF Inv, ThreadInv, InCleanedBlock
    <3>3. pc[t] > 2 => bare[t] = 0 /\ buf_ptr[t] <= pc[t] - 3
      BY <1>2 DEF Inv, ThreadInv, InCleanedBlock
    <3> QED BY <3>1, <3>2, <3>3, <1>2, <1>4, <1>6, <2>1
  <2> QED BY <2>2, <2>3, <2>4 DEF ThreadInv
<1>9. ASSUME NEW u \in Threads PROVE ThreadInv(u)'
  <2>1. CASE u = t  BY <2>1, <1>8
  <2>2. CASE u # t  BY <2>2, <1>2, <1>5, <1>6, OtherThreads DEF Inv
  <2> QED BY <2>1, <2>2
<1>10. InDelimiter'
  <2>1. UNCHANGED <<at, block, opt>>  BY DEF RunInstr, app
  <2>2. at # "app" => t # Main  BY <1>2 DEF Inv, InDelimiter
  <2>3. at # "app" => pc'[Main] = pc[Main] /\ buf_ptr'[Main] = buf_ptr[Main]
    BY <2>2, <1>5, <1>6, ThreadsAssumption
  <2> QED BY <2>1, <2>3, <1>2 DEF Inv, InDelimiter, Room, BodyEntries, Instrumented
<1> QED BY <1>7, <1>9, <1>10 DEF Inv

\* The clean call of a block runs.
LEMMA RunCleanCallKeepsInv ==
  ASSUME Inv, NEW t \in Threads, RunCleanCall(t)
  PROVE  Inv'
<1>1. /\ bb \in [Threads -> Blocks \cup {NoBlock}] /\ pc \in [Threads -> Nat]
      /\ buf_ptr \in [Threads -> Nat] /\ bare \in [Threads -> 0 .. MaxBare]
      /\ MaxBare \in Nat /\ MaxLen \in Nat /\ MaxLen >= 1
  BY CodeAssumption DEF Inv, TypeOKInserted
<1>2. /\ pc[t] = 2 /\ Advance(t) /\ bb' = bb
      /\ buf_ptr' = [buf_ptr EXCEPT ![t] = 0] /\ bare' = [bare EXCEPT ![t] = 0]
  BY DEF RunCleanCall, Rewound
<1>3. bb[t] \in Blocks /\ bb[t].excl \in BOOLEAN /\ pc[t] > 0
  BY <1>2, BlocksAssumption DEF Inv, TypeOKInserted, Block
<1>4. /\ pc' \in [Threads -> Nat]
      /\ \A u \in Threads : u # t => pc'[u] = pc[u]
      /\ pc'[t] <= Len(Code[bb[t]]) + 1
      /\ pc'[t] = 0 \/ pc'[t] = 3
  BY <1>2, <1>3, AdvanceStep
<1>5. buf_ptr' \in [Threads -> Nat] /\ bare' \in [Threads -> 0 .. MaxBare]
      /\ buf_ptr'[t] = 0 /\ bare'[t] = 0
      /\ \A u \in Threads : u # t => buf_ptr'[u] = buf_ptr[u] /\ bare'[u] = bare[u]
  BY <1>1, <1>2
<1>6. TypeOKInserted'
  <2>1. ASSUME NEW u \in Threads, pc'[u] > 0
        PROVE  bb'[u] \in Blocks /\ pc'[u] <= Len(Code[bb'[u]]) + 1
    <3>1. CASE u = t  BY <3>1, <1>2, <1>3, <1>4
    <3>2. CASE u # t  BY <3>2, <2>1, <1>2, <1>4 DEF Inv, TypeOKInserted
    <3> QED BY <3>1, <3>2
  <2> QED BY <2>1, <1>1, <1>2, <1>4, <1>5 DEF TypeOKInserted
<1>7. ThreadInv(t)'
  <2>1. ~bb[t].excl  BY <1>2, <1>3 DEF Inv, ThreadInv, InBareBlock
  <2>2. Room(t)' = 0  BY <1>1, <1>5, Products DEF Room
  <2> QED BY <2>1, <2>2, <1>1, <1>2, <1>4, <1>5
          DEF ThreadInv, BetweenBlocks, InBareBlock, InCleanedBlock
<1>8. ASSUME NEW u \in Threads PROVE ThreadInv(u)'
  <2>1. CASE u = t  BY <2>1, <1>7
  <2>2. CASE u # t  BY <2>2, <1>2, <1>4, <1>5, OtherThreads DEF Inv
  <2> QED BY <2>1, <2>2
<1>9. InDelimiter'
  <2>1. UNCHANGED <<at, block, opt>>  BY DEF RunCleanCall
  <2>2. at # "app" => t # Main  BY <1>2 DEF Inv, InDelimiter
  <2>3. at # "app" => pc'[Main] = pc[Main] /\ buf_ptr'[Main] = buf_ptr[Main]
                      /\ bare'[Main] = bare[Main]
    BY <2>2, <1>4, <1>5, ThreadsAssumption
  <2> QED BY <2>1, <2>3 DEF Inv, InDelimiter, Room, BodyEntries, Instrumented
<1> QED BY <1>6, <1>8, <1>9 DEF Inv

\* Main enters a block that a delimiter's call or return leads to.
LEMMA DelimiterEntryKeepsInv ==
  ASSUME Inv, NEW b \in DelimBlocks, DelimiterEntry(b)
  PROVE  Inv'
<1>1. /\ bb \in [Threads -> Blocks \cup {NoBlock}] /\ pc \in [Threads -> Nat]
      /\ buf_ptr \in [Threads -> Nat] /\ bare \in [Threads -> 0 .. MaxBare]
      /\ MaxBare \in Nat /\ MaxLen \in Nat /\ Main \in Threads
  BY CodeAssumption, ThreadsAssumption DEF Inv, TypeOKInserted
<1>2. b.excl \in BOOLEAN  BY BlocksAssumption DEF Block
<1>3. /\ pc[Main] = 0 /\ bb' = bb /\ pc' = pc
      /\ b.excl => bare[Main] < MaxBare
  BY DEF DelimiterEntry
<1>4. block' = b /\ opt' = opt
  BY DEF DelimiterEntry, EnterStart, EnterEnd
<1>5. HeadEntries(b) \in Nat /\ HeadEntries(b) <= 1  BY DEF HeadEntries
<1>6. BodyEntries(b) \in Nat /\ BodyEntries(b) + 1 <= MaxLen
  BY <1>1, BodyEntriesBound, Lengths
<1>7. BodyEntries(block)' = BodyEntries(b)  BY <1>4 DEF BodyEntries, Instrumented
<1>8. bare[Main] \in 0 .. MaxBare /\ buf_ptr[Main] \in Nat  BY <1>1
<1>9. Room(Main) \in Nat /\ (bare[Main] + 1) * MaxLen = Room(Main) + MaxLen
      /\ 0 * MaxLen = 0
  BY <1>1, <1>8, Products DEF Room
<1>10. buf_ptr[Main] + 1 <= Room(Main) + MaxLen
  BY <1>1, <1>3, <1>8, <1>9 DEF Inv, ThreadInv, BetweenBlocks
<1>11. CASE opt.time_run
  <2>1. buf_ptr' = buf_ptr /\ bare' = bare  BY <1>11 DEF DelimiterEntry
  <2>2. TypeOKInserted'  BY <1>3, <2>1 DEF Inv, TypeOKInserted
  <2>3. ASSUME NEW u \in Threads PROVE ThreadInv(u)'
    BY <1>3, <2>1, OtherThreads DEF Inv
  <2>4. InDelimiter'  BY <1>3, <1>4, <1>11 DEF InDelimiter
  <2> QED BY <2>2, <2>3, <2>4 DEF Inv
<1>12. CASE ~opt.time_run
  <2> DEFINE ptr == buf_ptr[Main] + HeadEntries(b)
             filled == IF b.excl THEN ptr ELSE 0
             passed == IF b.excl THEN bare[Main] + 1 ELSE 0
  <2>1. buf_ptr' = [buf_ptr EXCEPT ![Main] = filled]
        /\ bare' = [bare EXCEPT ![Main] = passed]
    BY <1>1, <1>12 DEF DelimiterEntry, Rewound
  <2>2. filled \in Nat /\ passed \in 0 .. MaxBare
    BY <1>1, <1>2, <1>3, <1>5, <1>8
  <2>3. filled + BodyEntries(b) + 1 <= passed * MaxLen + MaxLen
        /\ passed * MaxLen \in Nat
    <3>1. CASE b.excl
      <4>1. passed * MaxLen = Room(Main) + MaxLen  BY <3>1, <1>9
      <4>2. filled <= Room(Main) + MaxLen  BY <3>1, <1>1, <1>5, <1>8, <1>9, <1>10
      <4> QED BY <4>1, <4>2, <2>2, <1>1, <1>6, <1>9
    <3>2. CASE ~b.excl
      <4>1. passed * MaxLen = 0 /\ filled = 0  BY <3>2, <1>9
      <4> QED BY <4>1, <1>1, <1>6
    <3> QED BY <3>1, <3>2
  <2> HIDE DEF filled, passed
  <2>4. /\ buf_ptr' \in [Threads -> Nat] /\ bare' \in [Threads -> 0 .. MaxBare]
        /\ buf_ptr'[Main] = filled /\ bare'[Main] = passed
        /\ \A u \in Threads : u # Main => buf_ptr'[u] = buf_ptr[u] /\ bare'[u] = bare[u]
    BY <1>1, <2>1, <2>2
  <2>5. TypeOKInserted'  BY <1>3, <2>4 DEF Inv, TypeOKInserted
  <2>6. ThreadInv(Main)'
    <3>1. pc'[Main] = 0 /\ Room(Main)' = passed * MaxLen
      BY <1>3, <2>4 DEF Room
    <3> QED BY <3>1, <2>2, <2>3, <2>4, <1>1, <1>6
            DEF ThreadInv, BetweenBlocks, InBareBlock, InCleanedBlock
  <2>7. ASSUME NEW u \in Threads PROVE ThreadInv(u)'
    <3>1. CASE u = Main  BY <3>1, <2>6
    <3>2. CASE u # Main  BY <3>2, <1>3, <2>4, OtherThreads DEF Inv
    <3> QED BY <3>1, <3>2
  <2>8. InDelimiter'
    BY <1>3, <1>4, <1>7, <2>3, <2>4 DEF InDelimiter, Room
  <2> QED BY <2>5, <2>7, <2>8 DEF Inv
<1> QED BY <1>11, <1>12

\* A callback, and the rest of its block.
LEMMA CallbackKeepsInv ==
  ASSUME Inv, Callback
  PROVE  Inv'
<1>1. /\ bb \in [Threads -> Blocks \cup {NoBlock}] /\ pc \in [Threads -> Nat]
      /\ buf_ptr \in [Threads -> Nat] /\ bare \in [Threads -> 0 .. MaxBare]
      /\ MaxBare \in Nat /\ MaxLen \in Nat /\ Main \in Threads
  BY CodeAssumption, ThreadsAssumption DEF Inv, TypeOKInserted
<1>2. bb' = bb /\ pc' = pc /\ bare' = bare  BY DEF Callback
<1>3. at # "app" /\ at' = "app"
  BY DEF Callback, RoiInitMerged, RoiInitSeparate, RoiInitDelimiter, EventRoiEnd,
         SymbolRoiEndSeparate, SymbolRoiEndMerged, RoiInit, RoiEnd, Resume, InCallback
<1>4. InDelimiter'  BY <1>3 DEF InDelimiter
<1>5. block \in DelimBlocks /\ pc[Main] = 0  BY <1>3 DEF Inv, InDelimiter
<1>6. BodyEntries(block) \in Nat  BY <1>5, BodyEntriesBound
<1>7. CASE opt.time_run
  <2>1. buf_ptr' = buf_ptr  BY <1>7 DEF Callback
  <2>2. ASSUME NEW u \in Threads PROVE ThreadInv(u)'
    BY <1>2, <2>1, OtherThreads DEF Inv
  <2> QED BY <1>2, <1>4, <2>1, <2>2 DEF Inv, TypeOKInserted
<1>8. CASE ~opt.time_run
  <2>1. buf_ptr' = [buf_ptr EXCEPT ![Main] = @ + BodyEntries(block)]
    BY <1>8 DEF Callback
  <2>2. /\ buf_ptr' \in [Threads -> Nat] /\ buf_ptr[Main] \in Nat
        /\ buf_ptr'[Main] = buf_ptr[Main] + BodyEntries(block)
        /\ \A u \in Threads : u # Main => buf_ptr'[u] = buf_ptr[u]
    BY <1>1, <1>6, <2>1
  <2>3. ThreadInv(Main)'
    <3>1. buf_ptr[Main] + BodyEntries(block) + 1 <= Room(Main) + MaxLen
      BY <1>3, <1>8 DEF Inv, InDelimiter
    <3>2. bare[Main] \in Nat /\ Room(Main) \in Nat /\ Room(Main)' = Room(Main)
      BY <1>1, <1>2, Products DEF Room
    <3>3. pc'[Main] = 0  BY <1>2, <1>5
    <3> QED BY <3>1, <3>2, <3>3, <1>1, <1>6, <2>2
            DEF ThreadInv, BetweenBlocks, InBareBlock, InCleanedBlock
  <2>4. ASSUME NEW u \in Threads PROVE ThreadInv(u)'
    <3>1. CASE u = Main  BY <3>1, <2>3
    <3>2. CASE u # Main  BY <3>2, <1>2, <2>2, OtherThreads DEF Inv
    <3> QED BY <3>1, <3>2
  <2>5. TypeOKInserted'  BY <1>2, <2>2 DEF Inv, TypeOKInserted
  <2> QED BY <1>4, <2>4, <2>5 DEF Inv
<1> QED BY <1>7, <1>8

\* What leaves the inserted code, Main's place and the command line alone.
LEMMA UnchangedKeepsInv ==
  ASSUME Inv, UNCHANGED <<inserted, at, block, opt>>
  PROVE  Inv'
<1>1. bb' = bb /\ pc' = pc /\ buf_ptr' = buf_ptr /\ bare' = bare  BY DEF inserted
<1>2. TypeOKInserted'  BY <1>1 DEF Inv, TypeOKInserted
<1>3. ASSUME NEW u \in Threads PROVE ThreadInv(u)'
  BY <1>1, OtherThreads DEF Inv
<1>4. InDelimiter'
  BY <1>1 DEF Inv, InDelimiter, Room, BodyEntries, Instrumented
<1> QED BY <1>2, <1>3, <1>4 DEF Inv

\* Every step keeps the bounds on the buffers.
LEMMA NextKeepsInv == Inv /\ [NextInserted]_allvars => Inv'
<1> SUFFICES ASSUME Inv, [NextInserted]_allvars PROVE Inv'
  OBVIOUS
<1>1. ASSUME NEW t \in Threads, NEW b \in Blocks, StartBlock(t, b) PROVE Inv'
  BY <1>1, StartBlockKeepsInv
<1>2. ASSUME NEW t \in Threads, RunInstr(t) PROVE Inv'
  BY <1>2, RunInstrKeepsInv
<1>3. ASSUME NEW t \in Threads, RunCleanCall(t) PROVE Inv'
  BY <1>3, RunCleanCallKeepsInv
<1>4. ASSUME NEW t \in Threads, Exit(t) PROVE Inv'
  <2>1. UNCHANGED <<inserted, at, block, opt>>
    BY <1>4 DEF Exit, ExitGroup, ThreadExit, app
  <2> QED BY <2>1, UnchangedKeepsInv
<1>5. ASSUME NEW b \in DelimBlocks, DelimiterEntry(b) PROVE Inv'
  BY <1>5, DelimiterEntryKeepsInv
<1>6. CASE Callback
  BY <1>6, CallbackKeepsInv
<1>7. CASE Process
  <2>1. UNCHANGED <<inserted, at, block, opt>>
    BY <1>7 DEF Process, RoiInitAbort, Tick, EventExit, Terminated, ThreadInit, app, vars
  <2> QED BY <2>1, UnchangedKeepsInv
<1>8. CASE UNCHANGED allvars
  <2>1. UNCHANGED <<inserted, at, block, opt>>
    BY <1>8 DEF allvars, vars, app
  <2> QED BY <2>1, UnchangedKeepsInv
<1> QED BY <1>1, <1>2, <1>3, <1>4, <1>5, <1>6, <1>7, <1>8 DEF NextInserted
-----------------------------------------------------------------------------
(***************************************************************************)
(* The added variables keep their types, and no thread runs past the end   *)
(* of its block (event_app_instruction).                                   *)
(***************************************************************************)
THEOREM InsertedTypes == SpecInserted => []TypeOKInserted
<1>1. Inv => TypeOKInserted  BY DEF Inv
<1> QED BY InvInit, NextKeepsInv, <1>1, PTL DEF SpecInserted

(***************************************************************************)
(* No thread writes beyond the end of its buffer, for any application      *)
(* whose blocks and runs of exclusive stores leave the room that           *)
(* CapacityAssumption states (clean_call, save_bytes, clean_buffer).       *)
(***************************************************************************)
THEOREM BufferNeverOverflows == SpecInserted => []NoOverflow
<1> QED BY InvInit, NextKeepsInv, InvImpliesNoOverflow, PTL DEF SpecInserted
-----------------------------------------------------------------------------
(***************************************************************************)
(* Counting.  An element of a register that is 2 ^ width bytes wide starts *)
(* at every multiple of its width, so that a division counts elements.     *)
(***************************************************************************)
Multiples(w) == {k \in 0 .. 15 : k % 2 ^ w = 0}

\* A set with two more elements.
LEMMA Pairs ==
  ASSUME NEW S, IsFiniteSet(S), NEW x, NEW y, x \notin S, y \notin S, x # y
  PROVE  IsFiniteSet(S \cup {x, y}) /\ Cardinality(S \cup {x, y}) = Cardinality(S) + 2
<1>1. Cardinality(S) \in Nat  BY FS_CardinalityType
<1>2. IsFiniteSet(S \cup {x}) /\ Cardinality(S \cup {x}) = Cardinality(S) + 1
  BY FS_AddElement
<1>3. /\ IsFiniteSet((S \cup {x}) \cup {y})
      /\ Cardinality((S \cup {x}) \cup {y}) = Cardinality(S \cup {x}) + 1
  BY <1>2, FS_AddElement
<1>4. (S \cup {x}) \cup {y} = S \cup {x, y}  OBVIOUS
<1> QED BY <1>1, <1>2, <1>3, <1>4

\* Two elements make a set of two.
LEMMA TwoElements ==
  ASSUME NEW x, NEW y, x # y
  PROVE  IsFiniteSet({x, y}) /\ Cardinality({x, y}) = 2
<1> DEFINE none == {}
<1>1. IsFiniteSet(none) /\ Cardinality(none) = 0  BY FS_EmptySet
<1>2. none \cup {x, y} = {x, y} /\ x \notin none /\ y \notin none  OBVIOUS
<1> HIDE DEF none
<1>3. IsFiniteSet(none \cup {x, y}) /\ Cardinality(none \cup {x, y}) = Cardinality(none) + 2
  BY <1>1, <1>2, Pairs
<1> QED BY <1>1, <1>2, <1>3

\* The elements that start in a register are as many as their width leaves room for.
LEMMA ElementsCounted ==
  ASSUME NEW w \in 0 .. 3
  PROVE  Cardinality(Multiples(w)) = 16 \div 2 ^ w
<1> DEFINE two == {0, 8}
           four == two \cup {4, 12}
           six == four \cup {2, 10}
           eight == six \cup {6, 14}
<1>1. /\ 4 \notin two /\ 12 \notin two /\ 2 \notin four /\ 10 \notin four
      /\ 6 \notin six /\ 14 \notin six
  OBVIOUS
<1>2. two = {0, 8} /\ four = {0, 8, 4, 12} /\ eight = {0, 8, 4, 12, 2, 10, 6, 14}
  OBVIOUS
<1>3. IsFiniteSet(two) /\ Cardinality(two) = 2
  <2>1. \A x, y : x # y => IsFiniteSet({x, y}) /\ Cardinality({x, y}) = 2
    BY TwoElements
  <2>2. 0 # 8  OBVIOUS
  <2>3. IsFiniteSet({0, 8}) /\ Cardinality({0, 8}) = 2  BY <2>1, <2>2
  <2> QED BY <2>3
<1> HIDE DEF two
<1>4. IsFiniteSet(four) /\ Cardinality(four) = 4  BY <1>1, <1>3, Pairs
<1> HIDE DEF four
<1>5. IsFiniteSet(six) /\ Cardinality(six) = 6  BY <1>1, <1>4, Pairs
<1> HIDE DEF six
<1>6. Cardinality(eight) = 8  BY <1>1, <1>5, Pairs
<1> HIDE DEF eight
<1>7. Cardinality(0 .. 15) = 16
  <2>1. 0 \in Int /\ 15 \in Int /\ ~(0 > 15) /\ 15 - 0 + 1 = 16  OBVIOUS
  <2> QED BY <2>1, FS_Interval
<1>8. /\ 2 ^ 0 = 1 /\ 2 ^ 1 = 2 /\ 2 ^ 2 = 4 /\ 2 ^ 3 = 8
      /\ 16 \div 1 = 16 /\ 16 \div 2 = 8 /\ 16 \div 4 = 4 /\ 16 \div 8 = 2
  OBVIOUS
<1>9. CASE w = 0
  <2>1. Multiples(w) = 0 .. 15  BY <1>8, <1>9 DEF Multiples
  <2> QED BY <1>7, <1>8, <1>9, <2>1
<1>10. CASE w = 1
  <2>1. Multiples(w) = {0, 8, 4, 12, 2, 10, 6, 14}  BY <1>8, <1>10 DEF Multiples
  <2> QED BY <1>2, <1>6, <1>8, <1>10, <2>1
<1>11. CASE w = 2
  <2>1. Multiples(w) = {0, 8, 4, 12}  BY <1>8, <1>11 DEF Multiples
  <2> QED BY <1>2, <1>4, <1>8, <1>11, <2>1
<1>12. CASE w = 3
  <2>1. Multiples(w) = {0, 8}  BY <1>8, <1>12 DEF Multiples
  <2> QED BY <1>2, <1>3, <1>8, <1>12, <2>1
<1> QED BY <1>9, <1>10, <1>11, <1>12

\* What an operation counts for, once or for every element.
LEMMA InstructionCounted ==
  ASSUME FLOATING_POINTS_ARM, NEW i \in Instr, ~HalfVector(i)
  PROVE  CountFpInstr(i) = Executed(i)
<1>1. /\ i.op \in {"single", "fused", "other"} /\ i.width \in 0 .. 3
      /\ i.dst \in {"s", "d", "q"} /\ i.vector \in BOOLEAN
      /\ i.op # "other" => (i.vector <=> i.dst = "q")
  BY DEF Instr, Instructions, HalfVector
<1>2. /\ IsFiniteSet({}) /\ Cardinality({}) = 0 /\ Cardinality({i.op}) = 1
      /\ Cardinality({"mul", "add"}) = 2
  <2>1. IsFiniteSet({}) /\ Cardinality({}) = 0  BY FS_EmptySet
  <2>2. Cardinality({"mul", "add"}) = 2  BY TwoElements
  <2>3. Cardinality({i.op}) = 1  BY FS_Singleton
  <2> QED BY <2>1, <2>2, <2>3
<1>3. Cardinality(Operations(i)) = CountOperationsPerInstr(i)
  BY <1>1, <1>2 DEF Operations, CountOperationsPerInstr, CountOperationsArm
<1>4. CountOperationsPerInstr(i) \in {0, 1, 2}
  BY <1>1 DEF CountOperationsPerInstr, CountOperationsArm
<1>5. i.dst = "q" => RegSize(i) = 16
  BY DEF RegSize
<1>6. CASE i.op = "other"
  <2>1. Executed(i) = Elements(i) * 0 /\ CountFpInstr(i) = 0
    BY <1>2, <1>3, <1>6 DEF Executed, Operations, CountFpInstr, CountOperationsPerInstr,
       CountOperationsArm
  <2>2. Elements(i) \in Nat
    <3>1. RegSize(i) \in Nat
      BY DEF RegSize
    <3>2. IsFiniteSet(0 .. RegSize(i) - 1)
      BY <3>1, FS_Interval
    <3>3. IsFiniteSet({k \in 0 .. RegSize(i) - 1 : k % 2 ^ i.width = 0})
      BY <3>2, FS_Subset
    <3> QED
      BY <3>3, FS_CardinalityType DEF Elements
  <2> QED BY <2>1, <2>2
<1>7. CASE i.op # "other" /\ i.dst = "q"
  <2>1. Elements(i) = Cardinality(Multiples(i.width))
    BY <1>1, <1>5, <1>7 DEF Elements, Multiples
  <2>2. Elements(i) = 16 \div 2 ^ i.width
    BY <1>1, <2>1, ElementsCounted
  <2>3. CountOperationsPerInstr(i) > 0
    BY <1>1, <1>7 DEF CountOperationsPerInstr, CountOperationsArm
  <2> HIDE DEF Elements
  <2> QED BY <1>3, <1>5, <1>7, <2>2, <2>3 DEF CountFpInstr, Executed, IsVectorInstruction
<1>8. CASE i.op # "other" /\ i.dst # "q"
  <2>1. Elements(i) = 1
    BY <1>1, <1>8 DEF Elements
  <2> QED BY <1>3, <1>4, <1>8, <2>1 DEF CountFpInstr, Executed, IsVectorInstruction
<1> QED BY <1>6, <1>7, <1>8
-----------------------------------------------------------------------------
(***************************************************************************)
(* Sums over the instructions of a block.  They are defined by recursion   *)
(* from the last instruction, and what is said of them is shown in the     *)
(* same order: Downwards is induction over a set of numbers.               *)
(***************************************************************************)
\* What holds after the last element, and of an element if of the next one,
\* holds everywhere.
LEMMA Downwards ==
  ASSUME NEW m \in Nat, NEW S, m + 1 \in S, \A n \in 1 .. m : n + 1 \in S => n \in S
  PROVE  1 .. m + 1 \subseteq S
<1> DEFINE T == {j \in 0 .. m : m + 1 - j \notin S}
<1>1. SUFFICES ASSUME NEW k \in 1 .. m + 1, k \notin S PROVE FALSE
  OBVIOUS
<1>2. m + 1 - k \in T
  <2>1. m + 1 - k \in 0 .. m /\ m + 1 - (m + 1 - k) = k  OBVIOUS
  <2> QED BY <1>1, <2>1
<1>3. PICK j \in T : \A i \in T : j <= i
  <2>1. T \subseteq Nat  OBVIOUS
  <2> HIDE DEF T
  <2> QED BY <1>2, <2>1, LeastNumber
<1>4. j # 0
  <2>1. m + 1 - 0 = m + 1  OBVIOUS
  <2> QED BY <2>1
<1>5. j - 1 \in 0 .. m /\ j - 1 \notin T  BY <1>3, <1>4
<1>6. m + 1 - (j - 1) \in S  BY <1>5
<1>7. m + 1 - (j - 1) = (m + 1 - j) + 1 /\ m + 1 - j \in 1 .. m  BY <1>4
<1> QED BY <1>6, <1>7

\* The sums of a sequence of numbers are numbers, and add up.
LEMMA SumSplit ==
  ASSUME NEW v \in Seq(Nat)
  PROVE  /\ SumFrom(v) \in [1 .. Len(v) + 1 -> Nat]
         /\ SumFrom(v)[Len(v) + 1] = 0
         /\ \A n \in 1 .. Len(v) : SumFrom(v)[n] = v[n] + SumFrom(v)[n + 1]
<1> DEFINE m == Len(v)
           D == 1 .. m + 1
           At_(g, n) == g[n] = IF n > m THEN 0 ELSE v[n] + g[n + 1]
           S == {k \in D : \E g \in [D -> Nat] : \A n \in k .. m + 1 : At_(g, n)}
<1>0. m \in Nat /\ \A n \in 1 .. m : v[n] \in Nat  OBVIOUS
<1> HIDE DEF m
<1>1. m + 1 \in S
  <2>1. [n \in D |-> 0] \in [D -> Nat]  OBVIOUS
  <2>2. \A n \in m + 1 .. m + 1 : At_([i \in D |-> 0], n)  BY <1>0
  <2> QED BY <1>0, <2>1, <2>2
<1>2. ASSUME NEW k \in 1 .. m, k + 1 \in S PROVE k \in S
  <2>1. PICK g \in [D -> Nat] : \A n \in k + 1 .. m + 1 : At_(g, n)  BY <1>2
  <2> DEFINE h == [g EXCEPT ![k] = v[k] + g[k + 1]]
  <2>2. k \in D /\ k + 1 \in D /\ v[k] + g[k + 1] \in Nat  BY <1>0
  <2>3. h \in [D -> Nat]  BY <2>2
  <2>4. ASSUME NEW n \in k .. m + 1 PROVE At_(h, n)
    <3>1. CASE n = k  BY <3>1, <1>0, <2>2
    <3>2. CASE n # k
      <4>1. n \in k + 1 .. m + 1 /\ n \in D /\ n + 1 # k  BY <3>2, <1>0
      <4>2. h[n] = g[n] /\ (n <= m => h[n + 1] = g[n + 1])  BY <4>1, <3>2, <1>0
      <4>3. At_(g, n)  BY <2>1, <4>1
      <4> QED BY <4>1, <4>2, <4>3, <1>0
    <3> QED BY <3>1, <3>2
  <2> QED BY <2>2, <2>3, <2>4
<1>3. 1 \in S
  <2> HIDE DEF S
  <2>1. 1 .. m + 1 \subseteq S  BY <1>0, <1>1, <1>2, Downwards
  <2> QED BY <2>1, <1>0
<1>4. PICK g \in [D -> Nat] : \A n \in D : At_(g, n)  BY <1>3
<1>5. g = [n \in D |-> IF n > m THEN 0 ELSE v[n] + g[n + 1]]  BY <1>4
<1> DEFINE f == SumFrom(v)
<1>6. f = CHOOSE sum : sum = [n \in D |-> IF n > m THEN 0 ELSE v[n] + sum[n + 1]]
  BY DEF SumFrom, m
<1>7. f = [n \in D |-> IF n > m THEN 0 ELSE v[n] + f[n + 1]]  BY <1>5, <1>6
<1> HIDE DEF f
<1>8. f[m + 1] = 0 /\ \A n \in 1 .. m : f[n] = v[n] + f[n + 1]  BY <1>7, <1>0
<1> DEFINE N == {n \in D : f[n] \in Nat}
<1>9. m + 1 \in N /\ \A n \in 1 .. m : n + 1 \in N => n \in N
  BY <1>8, <1>0
<1>10. D \subseteq N
  <2> HIDE DEF N
  <2> QED BY <1>0, <1>9, Downwards
<1> QED BY <1>7, <1>8, <1>10 DEF m, f

\* The sums of a sequence that is the sum of two others at each place.
LEMMA SumsAdd ==
  ASSUME NEW u \in Seq(Nat), NEW v \in Seq(Nat), NEW w \in Seq(Nat), Len(v) = Len(u),
         Len(w) = Len(u), \A n \in 1 .. Len(u) : u[n] = v[n] + w[n]
  PROVE  \A k \in 1 .. Len(u) + 1 : SumFrom(u)[k] = SumFrom(v)[k] + SumFrom(w)[k]
<1> DEFINE m == Len(u)
           S == {k \in 1 .. m + 1 : SumFrom(u)[k] = SumFrom(v)[k] + SumFrom(w)[k]}
<1>1. m + 1 \in S  BY SumSplit
<1>2. ASSUME NEW n \in 1 .. m, n + 1 \in S PROVE n \in S
  <2>1. /\ SumFrom(u)[n] = u[n] + SumFrom(u)[n + 1]
        /\ SumFrom(v)[n] = v[n] + SumFrom(v)[n + 1]
        /\ SumFrom(w)[n] = w[n] + SumFrom(w)[n + 1]
    BY SumSplit
  <2>2. n + 1 \in 1 .. m + 1 /\ n \in 1 .. m + 1  BY <1>2
  <2>3. v[n] \in Nat /\ w[n] \in Nat /\ u[n] = v[n] + w[n]  BY <1>2
  <2>4. SumFrom(v)[n + 1] \in Nat /\ SumFrom(w)[n + 1] \in Nat
    <3>1. SumFrom(v) \in [1 .. m + 1 -> Nat] /\ SumFrom(w) \in [1 .. m + 1 -> Nat]  BY SumSplit
    <3> QED BY <2>2, <3>1
  <2>5. SumFrom(u)[n + 1] = SumFrom(v)[n + 1] + SumFrom(w)[n + 1]  BY <1>2
  <2>6. SumFrom(u)[n] = SumFrom(v)[n] + SumFrom(w)[n]
    <3> DEFINE a == SumFrom(v)[n + 1]
               b == SumFrom(w)[n + 1]
               x == v[n]
               y == w[n]
    <3>1. a \in Nat /\ b \in Nat /\ x \in Nat /\ y \in Nat  BY <2>3, <2>4
    <3>2. /\ SumFrom(u)[n] = (x + y) + (a + b)
          /\ SumFrom(v)[n] = x + a /\ SumFrom(w)[n] = y + b
      BY <2>1, <2>3, <2>5
    <3> HIDE DEF a, b, x, y
    <3>3. (x + y) + (a + b) = (x + a) + (y + b)  BY <3>1
    <3> QED BY <3>2, <3>3
  <2> QED BY <2>2, <2>6
<1>3. 1 .. m + 1 \subseteq S
  <2>1. m \in Nat  OBVIOUS
  <2> HIDE DEF S
  <2> QED BY <1>1, <1>2, <2>1, Downwards
<1> QED BY <1>3

\* A sum of nothing but zeros.
LEMMA SumsZero ==
  ASSUME NEW v \in Seq(Nat), \A n \in 1 .. Len(v) : v[n] = 0
  PROVE  \A k \in 1 .. Len(v) + 1 : SumFrom(v)[k] = 0
<1>1. \A k \in 1 .. Len(v) + 1 : SumFrom(v)[k] = SumFrom(v)[k] + SumFrom(v)[k]
  <2>1. \A n \in 1 .. Len(v) : v[n] = v[n] + v[n]  OBVIOUS
  <2> QED BY <2>1, SumsAdd
<1> QED BY <1>1, SumSplit
-----------------------------------------------------------------------------
(***************************************************************************)
(* What is recorded for the instructions of a block, and for the block.    *)
(***************************************************************************)
\* The entries of one instruction are those of its references.
LEMMA RecordedForInstr ==
  ASSUME opt \in Option, NEW i \in Instr
  PROVE  /\ AppRefsOf(i) \in AppRefs /\ RecordedFor(i) \in Refs
         /\ RecordedFor(i) = Recorded(opt, AppRefsOf(i))
<1>1. /\ i.reads \in BOOLEAN /\ i.writes \in BOOLEAN /\ i.size \in Nat
      /\ opt.read_bytes_only \in BOOLEAN /\ opt.write_bytes_only \in BOOLEAN
  BY DEF Instr, Instructions, Option
<1>2. AppRefsOf(i) \in AppRefs  BY <1>1 DEF AppRefsOf, AppRefs
<1>3. RecordedFor(i) = Recorded(opt, AppRefsOf(i))
  BY <1>1 DEF RecordedFor, Instrumented, Entry, NoRefs, Recorded, AppRefsOf
<1> QED BY <1>2, <1>3, RecordedType

\* What is recorded from an instruction on, is so for the references from it on.
LEMMA RefsOfCode ==
  ASSUME opt \in Option, NEW code \in Seq(Instr)
  PROVE  /\ RefsFrom(code, Len(code) + 1) = NoRefs
         /\ \A k \in 1 .. Len(code) :
              RefsFrom(code, k) = AddRefs(RecordedFor(code[k]), RefsFrom(code, k + 1))
         /\ \A k \in 1 .. Len(code) + 1 :
              /\ RefsFrom(code, k) \in Refs
              /\ RefsFrom(code, k) = Recorded(opt, AppRefsFrom(code, k))
<1> DEFINE rd == [n \in DOMAIN code |-> RecordedFor(code[n]).rd]
           wr == [n \in DOMAIN code |-> RecordedFor(code[n]).wr]
           loads == [n \in DOMAIN code |-> AppRefsOf(code[n]).loads]
           stores == [n \in DOMAIN code |-> AppRefsOf(code[n]).stores]
           updates == [n \in DOMAIN code |-> AppRefsOf(code[n]).updates]
           m == Len(code)
<1>1. m \in Nat /\ DOMAIN code = 1 .. m  OBVIOUS
<1>2. ASSUME NEW n \in 1 .. m
      PROVE  /\ rd[n] = RecordedFor(code[n]).rd /\ wr[n] = RecordedFor(code[n]).wr
             /\ rd[n] \in Nat /\ wr[n] \in Nat
             /\ loads[n] \in Nat /\ stores[n] \in Nat /\ updates[n] \in Nat
             /\ rd[n] = updates[n] + IF opt.write_bytes_only /\ ~opt.read_bytes_only THEN 0
                                     ELSE loads[n]
             /\ wr[n] = IF opt.read_bytes_only THEN 0 ELSE stores[n]
  <2>1. code[n] \in Instr  OBVIOUS
  <2>2. /\ AppRefsOf(code[n]) \in AppRefs /\ RecordedFor(code[n]) \in Refs
        /\ RecordedFor(code[n]) = Recorded(opt, AppRefsOf(code[n]))
    BY <2>1, RecordedForInstr
  <2> QED BY <2>2 DEF AppRefs, Refs, Recorded
<1>9. /\ rd \in [1 .. m -> Nat] /\ loads \in [1 .. m -> Nat] /\ wr \in [1 .. m -> Nat]
      /\ stores \in [1 .. m -> Nat] /\ updates \in [1 .. m -> Nat]
  BY <1>1, <1>2
<1>3. /\ rd \in Seq(Nat) /\ Len(rd) = m /\ wr \in Seq(Nat) /\ Len(wr) = m
      /\ loads \in Seq(Nat) /\ Len(loads) = m /\ stores \in Seq(Nat) /\ Len(stores) = m
      /\ updates \in Seq(Nat) /\ Len(updates) = m
  BY <1>1, <1>2
<1>4. \A k \in 1 .. m + 1 :
        /\ RefsFrom(code, k) = [rd |-> SumFrom(rd)[k], wr |-> SumFrom(wr)[k]]
        /\ AppRefsFrom(code, k) = [loads |-> SumFrom(loads)[k], stores |-> SumFrom(stores)[k],
                                   updates |-> SumFrom(updates)[k]]
  BY DEF RefsFrom, AppRefsFrom
<1> HIDE DEF rd, wr, loads, stores, updates
<1>5. /\ SumFrom(rd) \in [1 .. m + 1 -> Nat] /\ SumFrom(wr) \in [1 .. m + 1 -> Nat]
      /\ SumFrom(rd)[m + 1] = 0 /\ SumFrom(wr)[m + 1] = 0
      /\ \A n \in 1 .. m : /\ SumFrom(rd)[n] = rd[n] + SumFrom(rd)[n + 1]
                           /\ SumFrom(wr)[n] = wr[n] + SumFrom(wr)[n + 1]
  BY <1>3, SumSplit
<1>6. RefsFrom(code, m + 1) = NoRefs  BY <1>1, <1>4, <1>5 DEF NoRefs
<1>7. ASSUME NEW k \in 1 .. m
      PROVE  RefsFrom(code, k) = AddRefs(RecordedFor(code[k]), RefsFrom(code, k + 1))
  <2>1. k \in 1 .. m + 1 /\ k + 1 \in 1 .. m + 1  BY <1>1
  <2> QED BY <2>1, <1>2, <1>4, <1>5 DEF AddRefs
<1>8. ASSUME NEW k \in 1 .. m + 1
      PROVE  /\ SumFrom(rd)[k] = SumFrom(updates)[k]
                  + IF opt.write_bytes_only /\ ~opt.read_bytes_only THEN 0 ELSE SumFrom(loads)[k]
             /\ SumFrom(wr)[k] = IF opt.read_bytes_only THEN 0 ELSE SumFrom(stores)[k]
  <2>1. ASSUME opt.write_bytes_only /\ ~opt.read_bytes_only
        PROVE  SumFrom(rd)[k] = SumFrom(updates)[k] + 0
    <3>1. \A n \in 1 .. m : rd[n] = updates[n]  BY <1>2, <2>1
    <3>2. rd = updates  BY <1>9, <3>1
    <3>3. SumFrom(updates)[k] \in Nat
      <4>1. SumFrom(updates) \in [1 .. m + 1 -> Nat]  BY <1>3, SumSplit
      <4> QED BY <1>8, <4>1
    <3> QED BY <1>8, <2>1, <3>2, <3>3
  <2>2. ASSUME ~(opt.write_bytes_only /\ ~opt.read_bytes_only)
        PROVE  SumFrom(rd)[k] = SumFrom(updates)[k] + SumFrom(loads)[k]
    <3>1. \A n \in 1 .. Len(rd) : rd[n] = updates[n] + loads[n]  BY <1>2, <1>3, <2>2
    <3>2. /\ Len(updates) = Len(rd) /\ Len(loads) = Len(rd) /\ k \in 1 .. Len(rd) + 1
          /\ rd \in Seq(Nat) /\ updates \in Seq(Nat) /\ loads \in Seq(Nat)
      BY <1>3, <1>8
    <3>3. \A i \in 1 .. Len(rd) + 1 : SumFrom(rd)[i] = SumFrom(updates)[i] + SumFrom(loads)[i]
      BY <3>1, <3>2, SumsAdd
    <3> QED BY <3>2, <3>3
  <2>3. ASSUME opt.read_bytes_only PROVE SumFrom(wr)[k] = 0
    <3>1. \A n \in 1 .. Len(wr) : wr[n] = 0  BY <1>2, <1>3, <2>3
    <3>2. SumFrom(wr)[k] = 0  BY <1>3, <1>8, <3>1, SumsZero
    <3> QED BY <2>3, <3>2
  <2>4. ASSUME ~opt.read_bytes_only PROVE SumFrom(wr)[k] = SumFrom(stores)[k]
    <3>1. \A n \in 1 .. m : wr[n] = stores[n]  BY <1>2, <2>4
    <3>2. wr = stores  BY <1>9, <3>1
    <3> QED BY <2>4, <3>2
  <2> QED BY <2>1, <2>2, <2>3, <2>4
<1>10. ASSUME NEW k \in 1 .. m + 1
       PROVE  /\ RefsFrom(code, k) \in Refs
              /\ RefsFrom(code, k) = Recorded(opt, AppRefsFrom(code, k))
  BY <1>4, <1>5, <1>8 DEF Refs, Recorded
<1> QED BY <1>6, <1>7, <1>10

\* A client for Arm, and an application without vectors in half a register.
Countable ==
  /\ FLOATING_POINTS_ARM
  /\ \A b \in Blocks \cup DelimBlocks : \A n \in DOMAIN Code[b] : ~HalfVector(Code[b][n])

\* The flops that are counted for a block are those that the core does.
LEMMA BlockCounted ==
  ASSUME FLOATING_POINTS_ARM, NEW code \in Seq(Instr),
         \A n \in DOMAIN code : ~HalfVector(code[n])
  PROVE  FpInstrCount(code) = Summary(code).fp
<1>1. \A n \in DOMAIN code : CountFpInstr(code[n]) = Executed(code[n])
  BY InstructionCounted
<1>2. [n \in DOMAIN code |-> CountFpInstr(code[n])] = [n \in DOMAIN code |-> Executed(code[n])]
  BY <1>1
<1> QED BY <1>2 DEF FpInstrCount, Summary

\* A block and its code.
LEMMA BlockCode ==
  ASSUME opt \in Option, NEW b \in Blocks \cup DelimBlocks
  PROVE  /\ Code[b] \in Seq(Instr) /\ Len(Code[b]) \in Nat /\ Len(Code[b]) >= 1
         /\ b \in Block /\ b.fp \in Nat /\ b.excl \in BOOLEAN
         /\ Countable => FpInstrCount(Code[b]) = b.fp
         /\ RecordedFor(Code[b][1]) = Recorded(opt, b.head)
         /\ RefsFrom(Code[b], 2) = Recorded(opt, b.body)
         /\ b.excl = Code[b][1].exclusive_store
<1>1. Code[b] \in Seq(Instr) /\ Summary(Code[b]) = b /\ b \in Block
  BY CodeAssumption, SummaryAssumption, BlocksAssumption
<1>2. Len(Code[b]) \in Nat /\ Len(Code[b]) >= 1 /\ Code[b][1] \in Instr  BY <1>1, Lengths
<1>3. 2 \in 1 .. Len(Code[b]) + 1  BY <1>2
<1>4. /\ b.head = AppRefsOf(Code[b][1]) /\ b.body = AppRefsFrom(Code[b], 2)
      /\ b.excl = Code[b][1].exclusive_store
  BY <1>1 DEF Summary
<1>5. Countable => FpInstrCount(Code[b]) = b.fp  BY <1>1, BlockCounted DEF Countable
<1>6. RecordedFor(Code[b][1]) = Recorded(opt, b.head)  BY <1>2, <1>4, RecordedForInstr
<1>7. RefsFrom(Code[b], 2) = Recorded(opt, b.body)  BY <1>1, <1>3, <1>4, RefsOfCode
<1> QED BY <1>1, <1>2, <1>4, <1>5, <1>6, <1>7 DEF Block
-----------------------------------------------------------------------------
(***************************************************************************)
(* The mapping to RoofClient, which replaces what a thread's buffer holds  *)
(* and the number of blocks, leaves the operators on a thread's data as    *)
(* they are.                                                               *)
(***************************************************************************)
\* Inserted code, clean calls, and what Main executes.
LEMMA SameCode ==
  /\ \A d, b : Coarse!BlockEntry(d, b) = BlockEntry(d, b)
  /\ \A d, b : Coarse!BlockRest(d, b) = BlockRest(d, b)
  /\ \A b : Coarse!RanEntry(b) = RanEntry(b)
  /\ \A b : Coarse!RanRest(b) = RanRest(b)
  /\ \A b : Coarse!RanBlock(b) = RanBlock(b)
  /\ Coarse!NewThreadData = NewThreadData /\ Coarse!NoBlock = NoBlock
<1>1. ASSUME NEW d, NEW b
      PROVE  /\ Coarse!BlockEntry(d, b) = BlockEntry(d, b)
             /\ Coarse!BlockRest(d, b) = BlockRest(d, b)
  BY DEF BlockEntry, BlockRest, CleanCall, Record, Recorded, SaveBytes, SaveFloatingPoints,
         CleanBuffer, UpdateBytes, UpdateFpCount, AddRefs, NoRefs,
         Coarse!BlockEntry, Coarse!BlockRest, Coarse!CleanCall, Coarse!Record,
         Coarse!Recorded, Coarse!SaveBytes, Coarse!SaveFloatingPoints,
         Coarse!CleanBuffer, Coarse!UpdateBytes, Coarse!UpdateFpCount, Coarse!AddRefs,
         Coarse!NoRefs
<1>2. ASSUME NEW b
      PROVE  /\ Coarse!RanEntry(b) = RanEntry(b) /\ Coarse!RanRest(b) = RanRest(b)
             /\ Coarse!RanBlock(b) = RanBlock(b)
  BY DEF RanEntry, RanRest, RanBlock, Wanted,
         Coarse!RanEntry, Coarse!RanRest, Coarse!RanBlock, Coarse!Wanted
<1>3. Coarse!NewThreadData = NewThreadData /\ Coarse!NoBlock = NoBlock
  BY DEF NewThreadData, InitPoint, NoRefs, NoBlock, NoAppRefs, Coarse!NewThreadData,
         Coarse!InitPoint, Coarse!NoRefs, Coarse!NoBlock, Coarse!NoAppRefs
<1> QED BY <1>1, <1>2, <1>3

\* The callbacks' operations on a point, and on the list of points.
LEMMA SamePointOps ==
  /\ \A d, label : Coarse!NewPoint(d, label) = NewPoint(d, label)
  /\ \A d, label : Coarse!SavePoint(d, label) = SavePoint(d, label)
  /\ \A d : Coarse!StartTime(d) = StartTime(d)
  /\ \A d : Coarse!StopTime(d) = StopTime(d)
  /\ \A d : Coarse!FinalData(d) = FinalData(d)
  /\ \A label, arg : Coarse!GetLabel(label, arg) = GetLabel(label, arg)
  /\ Coarse!AssignedLabel = AssignedLabel /\ Coarse!AssignId = AssignId
  /\ Coarse!Merged(opt) = Merged(opt)
<1>1. ASSUME NEW d, NEW label, NEW arg
      PROVE  /\ Coarse!NewPoint(d, label) = NewPoint(d, label)
             /\ Coarse!SavePoint(d, label) = SavePoint(d, label)
             /\ Coarse!StartTime(d) = StartTime(d) /\ Coarse!StopTime(d) = StopTime(d)
             /\ Coarse!FinalData(d) = FinalData(d)
             /\ Coarse!GetLabel(label, arg) = GetLabel(label, arg)
  BY DEF NewPoint, SavePoint, StartTime, StopTime, FinalData, GetLabel,
         Merged, Reset, SetTimeStart, SetTimeEnd,
         Coarse!NewPoint, Coarse!SavePoint, Coarse!StartTime, Coarse!StopTime,
         Coarse!FinalData, Coarse!GetLabel, Coarse!Merged,
         Coarse!Reset, Coarse!SetTimeStart, Coarse!SetTimeEnd
<1>2. Coarse!AssignedLabel = AssignedLabel /\ Coarse!Merged(opt) = Merged(opt)
  BY DEF AssignedLabel, Merged, WithNumber, Numeral, Coarse!AssignedLabel, Coarse!Merged,
         Coarse!WithNumber, Coarse!Numeral
<1>3. Coarse!AssignId = AssignId  BY <1>2 DEF AssignId, Coarse!AssignId
<1> QED BY <1>1, <1>2, <1>3

\* The document of a thread.
LEMMA SameDocument ==
  \A list, timing : Coarse!SaveToFile(list, timing) = SaveToFile(list, timing)
<1> SUFFICES ASSUME NEW list, NEW timing
             PROVE  Coarse!SaveToFile(list, timing) = SaveToFile(list, timing)
  OBVIOUS
<1>1. \A i : Coarse!ExecutionCount(list, i) = ExecutionCount(list, i)
  <2>1. \A S : Coarse!Cardinality(S) = Cardinality(S)  BY DEF Cardinality, Coarse!Cardinality
  <2> QED BY <2>1 DEF ExecutionCount, Coarse!ExecutionCount
<1>2. \A i : Coarse!DumpName(list, i) = DumpName(list, i)
  BY <1>1 DEF DumpName, Coarse!DumpName, WithNumber, Coarse!WithNumber, Numeral, Coarse!Numeral
<1>3. \A p, name : Coarse!DumpInfo(p, name, timing) = DumpInfo(p, name, timing)
  BY DEF DumpInfo, Coarse!DumpInfo
<1> QED BY <1>2, <1>3 DEF SaveToFile, Coarse!SaveToFile
-----------------------------------------------------------------------------
(***************************************************************************)
(* What the mapping needs: blocks are entered by threads that have begun,  *)
(* in runs that are not for timing, and those in progress are few.         *)
(***************************************************************************)
InProgress == {t \in Threads : Pending(t)}
Grain ==
  /\ IsFiniteSet(InProgress) /\ blocks <= MaxBlocks
  /\ \A t \in Threads : pc[t] > 0 => phase[t] # "unborn" /\ ~opt.time_run
Fine == TypeOK /\ InCallbackOpen /\ Inv /\ Grain

\* Buffers are added to and taken from.
LEMMA AddRefsFacts ==
  ASSUME NEW r \in Refs, NEW s \in Refs
  PROVE  /\ AddRefs(r, s) \in Refs /\ NoRefs \in Refs
         /\ Without(AddRefs(r, s), s) = r /\ AddRefs(Without(r, s), s) = r
         /\ AddRefs(r, NoRefs) = r /\ AddRefs(NoRefs, r) = r
<1>1. /\ r.rd \in Nat /\ r.wr \in Nat /\ s.rd \in Nat /\ s.wr \in Nat
      /\ r = [rd |-> r.rd, wr |-> r.wr]
  BY DEF Refs
<1>2. AddRefs(r, s) \in Refs /\ NoRefs \in Refs  BY <1>1 DEF AddRefs, NoRefs, Refs
<1>3. /\ r.rd + s.rd - s.rd = r.rd /\ r.wr + s.wr - s.wr = r.wr
      /\ r.rd - s.rd + s.rd = r.rd /\ r.wr - s.wr + s.wr = r.wr
      /\ r.rd + 0 = r.rd /\ r.wr + 0 = r.wr /\ 0 + r.rd = r.rd /\ 0 + r.wr = r.wr
  BY <1>1
<1>4. /\ Without(AddRefs(r, s), s) = r /\ AddRefs(Without(r, s), s) = r
      /\ AddRefs(r, NoRefs) = r /\ AddRefs(NoRefs, r) = r
  BY <1>1, <1>3 DEF AddRefs, Without, NoRefs
<1> QED BY <1>2, <1>4

\* In which order does not matter.
LEMMA AddRefsInTurn ==
  ASSUME NEW r \in Refs, NEW s \in Refs, NEW q \in Refs
  PROVE  AddRefs(AddRefs(r, s), q) = AddRefs(r, AddRefs(s, q))
BY DEF AddRefs, Refs

\* A thread between blocks has the buffer that it has in RoofClient.
LEMMA MappedBetween ==
  ASSUME TypeOK, NEW t \in Threads, pc[t] = 0
  PROVE  MappedData[t] = td[t]
<1>1. td[t] \in ThreadDataType  BY DEF TypeOK
<1>2. MappedBuffer(t) = td[t].buffer  BY DEF MappedBuffer
<1> QED BY <1>1, <1>2 DEF MappedData, ThreadDataType

\* What is recorded depends on the command line only.
LEMMA RecordingKept ==
  ASSUME opt' = opt
  PROVE  /\ \A i : RecordedFor(i)' = RecordedFor(i)
         /\ \A code, k : RefsFrom(code, k)' = RefsFrom(code, k)
<1>1. \A i : RecordedFor(i)' = RecordedFor(i)  BY DEF RecordedFor, Instrumented
<1>2. \A code : /\ [n \in DOMAIN code |-> RecordedFor(code[n]).rd]'
                     = [n \in DOMAIN code |-> RecordedFor(code[n]).rd]
                /\ [n \in DOMAIN code |-> RecordedFor(code[n]).wr]'
                     = [n \in DOMAIN code |-> RecordedFor(code[n]).wr]
  BY <1>1
<1> QED BY <1>1, <1>2 DEF RefsFrom

\* What a step of one thread does to the mapped data ...
LEMMA MappedStep ==
  ASSUME TypeOK, NEW t \in Threads, NEW d, td' = [td EXCEPT ![t] = d], opt' = opt,
         \A u \in Threads : u # t => pc'[u] = pc[u] /\ bb'[u] = bb[u]
  PROVE  MappedData' = [MappedData EXCEPT ![t] = [d EXCEPT !.buffer = MappedBuffer(t)']]
<1>1. td'[t] = d /\ \A u \in Threads : u # t => td'[u] = td[u]  BY DEF TypeOK
<1>2. ASSUME NEW u \in Threads, u # t PROVE MappedBuffer(u)' = MappedBuffer(u)
  BY <1>1, <1>2, RecordingKept DEF MappedBuffer, Pending
<1> DEFINE e == [d EXCEPT !.buffer = MappedBuffer(t)']
<1>3. /\ MappedData' = [u \in Threads |-> [td'[u] EXCEPT !.buffer = MappedBuffer(u)']]
      /\ MappedData = [u \in Threads |-> [td[u] EXCEPT !.buffer = MappedBuffer(u)]]
  BY DEF MappedData
<1>4. [td'[t] EXCEPT !.buffer = MappedBuffer(t)'] = e  BY <1>1
<1> HIDE DEF e
<1>5. \A u \in Threads : [td'[u] EXCEPT !.buffer = MappedBuffer(u)']
                         = IF u = t THEN e ELSE MappedData[u]
  BY <1>1, <1>2, <1>3, <1>4
<1>6. MappedData' = [MappedData EXCEPT ![t] = e]  BY <1>3, <1>5
<1> QED BY <1>6 DEF e

\* ... and to the blocks in progress.
LEMMA ProgressStep ==
  ASSUME Grain, NEW t \in Threads,
         \A u \in Threads : u # t => pc'[u] = pc[u] /\ bb'[u] = bb[u]
  PROVE  /\ IsFiniteSet(InProgress') /\ Cardinality(InProgress) \in Nat
         /\ Cardinality(InProgress') \in Nat
         /\ (Pending(t)' <=> Pending(t)) => Cardinality(InProgress') = Cardinality(InProgress)
         /\ ~Pending(t) /\ Pending(t)' => Cardinality(InProgress') = Cardinality(InProgress) + 1
         /\ Pending(t) /\ ~Pending(t)' => Cardinality(InProgress') = Cardinality(InProgress) - 1
<1>1. IsFiniteSet(InProgress)  BY DEF Grain
<1>2. \A u \in Threads : u # t => (Pending(u)' <=> Pending(u))  BY DEF Pending
<1>3. InProgress \subseteq Threads /\ InProgress' \subseteq Threads
      /\ (t \in InProgress <=> Pending(t)) /\ (t \in InProgress' <=> Pending(t)')
      /\ \A u \in Threads : u # t => (u \in InProgress' <=> u \in InProgress)
  BY <1>2 DEF InProgress
<1> DEFINE S == InProgress
           T == InProgress'
<1> HIDE DEF S, T
<1>4. S = InProgress /\ T = InProgress'  BY DEF S, T
<1>5. Cardinality(S) \in Nat /\ IsFiniteSet(S)  BY <1>1, <1>4, FS_CardinalityType
<1>6. CASE Pending(t)' <=> Pending(t)
  <2>1. T = S  BY <1>3, <1>4, <1>6
  <2> QED BY <2>1, <1>4, <1>5, <1>6
<1>7. CASE ~Pending(t) /\ Pending(t)'
  <2>1. T = S \cup {t} /\ t \notin S  BY <1>3, <1>4, <1>7
  <2>2. IsFiniteSet(T) /\ Cardinality(T) = Cardinality(S) + 1  BY <2>1, <1>5, FS_AddElement
  <2> QED BY <2>2, <1>4, <1>5, <1>7
<1>8. CASE Pending(t) /\ ~Pending(t)'
  <2>1. T = S \ {t} /\ t \in S  BY <1>3, <1>4, <1>8
  <2>2. IsFiniteSet(T) /\ Cardinality(T) = Cardinality(S) - 1  BY <2>1, <1>5, FS_RemoveElement
  <2>3. Cardinality(T) \in Nat  BY <2>2, FS_CardinalityType
  <2> QED BY <2>2, <2>3, <1>4, <1>5, <1>8
<1> QED BY <1>6, <1>7, <1>8

\* A thread's instruction is recorded, if it is.
RunData(t) == IF Instrumented(Current(t)) THEN Record(td[t], Entry(Current(t))) ELSE td[t]

\* What the next instruction of a block does to its thread's data.
LEMMA RunInstrData ==
  ASSUME Fine, NEW t \in Threads, RunInstr(t)
  PROVE  /\ Current(t) \in Instr /\ RecordedFor(Current(t)) \in Refs
         /\ td' = [td EXCEPT ![t] = RunData(t)] /\ RunData(t) \in ThreadDataType
         /\ RunData(t).buffer = AddRefs(td[t].buffer, RecordedFor(Current(t)))
         /\ RunData(t) = [td[t] EXCEPT !.buffer = AddRefs(td[t].buffer, RecordedFor(Current(t)))]
<1>1. /\ pc[t] \in Nat /\ pc[t] > 0 /\ bb[t] \in Blocks
      /\ pc[t] <= Len(Code[bb[t]]) + 1
  BY DEF Fine, Inv, TypeOKInserted, RunInstr, InBlock
<1>2. Code[bb[t]] \in Seq(Instr) /\ Len(Code[bb[t]]) \in Nat /\ 1 <= Len(Code[bb[t]])
  BY <1>1, Lengths, CodeAssumption
<1>3. (IF pc[t] = 1 THEN 1 ELSE pc[t] - 1) \in 1 .. Len(Code[bb[t]])
  BY <1>1, <1>2
<1>4. Current(t) \in Instr  BY <1>2, <1>3 DEF Current
<1>5. opt \in Option /\ td \in [Threads -> ThreadDataType] /\ td[t] \in ThreadDataType
  BY ConstantTypes DEF Fine, TypeOK
<1>6. RecordedFor(Current(t)) \in Refs  BY <1>4, <1>5, RecordedForInstr
<1>7. td[t].buffer \in Refs /\ AddRefs(td[t].buffer, NoRefs) = td[t].buffer
  BY <1>5, AddRefsFacts DEF ThreadDataType
<1>8. RunData(t) = [td[t] EXCEPT !.buffer = AddRefs(td[t].buffer, RecordedFor(Current(t)))]
  <2>1. CASE Instrumented(Current(t))  BY <2>1 DEF RunData, RecordedFor, Record
  <2>2. CASE ~Instrumented(Current(t))
    <3>1. RunData(t) = td[t] /\ RecordedFor(Current(t)) = NoRefs
      BY <2>2 DEF RunData, RecordedFor
    <3> QED BY <3>1, <1>5, <1>7 DEF ThreadDataType
  <2> QED BY <2>1, <2>2
<1>9. AddRefs(td[t].buffer, RecordedFor(Current(t))) \in Refs  BY <1>6, <1>7, AddRefsFacts
<1>10. RunData(t) \in ThreadDataType
       /\ RunData(t).buffer = AddRefs(td[t].buffer, RecordedFor(Current(t)))
  BY <1>5, <1>8, <1>9 DEF ThreadDataType
<1>11. td' = [td EXCEPT ![t] = RunData(t)]
  <2>1. CASE Instrumented(Current(t))  BY <2>1 DEF RunInstr, RunData
  <2>2. CASE ~Instrumented(Current(t))
    <3>1. td' = td /\ RunData(t) = td[t]  BY <2>2 DEF RunInstr, RunData
    <3> QED BY <3>1, <1>5
  <2> QED BY <2>1, <2>2
<1> QED BY <1>4, <1>6, <1>8, <1>10, <1>11

\* The clean call of a block, and its thread's data.
LEMMA RunCleanCallData ==
  ASSUME Countable, Fine, NEW t \in Threads, RunCleanCall(t)
  PROVE  /\ bb[t] \in Blocks /\ ~bb[t].excl
         /\ td' = [td EXCEPT ![t] = CleanCall(td[t], bb[t].fp)]
         /\ CleanCall(td[t], bb[t].fp) \in ThreadDataType
         /\ CleanCall(td[t], bb[t].fp).buffer = NoRefs
<1>1. pc[t] = 2 /\ bb[t] \in Blocks
  BY DEF Fine, Inv, TypeOKInserted, RunCleanCall, InBlock
<1>2. ThreadInv(t) /\ bb[t].excl \in BOOLEAN
  BY <1>1, BlocksAssumption DEF Fine, Inv, Block
<1>3. ~bb[t].excl  BY <1>1, <1>2 DEF ThreadInv, InBareBlock
<1>4. opt \in Option /\ td \in [Threads -> ThreadDataType] /\ td[t] \in ThreadDataType
  BY ConstantTypes DEF Fine, TypeOK
<1>5. FpInstrCount(Code[bb[t]]) = bb[t].fp /\ bb[t].fp \in Nat  BY <1>1, <1>4, BlockCode
<1>6. td' = [td EXCEPT ![t] = CleanCall(td[t], bb[t].fp)]  BY <1>5 DEF RunCleanCall
<1>7. SaveFloatingPoints(td[t], bb[t].fp) \in ThreadDataType  BY <1>4, <1>5, SaveType
<1>8. /\ SaveBytes(SaveFloatingPoints(td[t], bb[t].fp)) \in ThreadDataType
      /\ CleanBuffer(td[t]) \in ThreadDataType
  BY <1>4, <1>5, <1>7, SaveType
<1>9. /\ SaveBytes(SaveFloatingPoints(td[t], bb[t].fp)).buffer = NoRefs
      /\ CleanBuffer(td[t]).buffer = NoRefs
  BY <1>4, <1>7 DEF SaveBytes, CleanBuffer, ThreadDataType
<1> QED BY <1>1, <1>3, <1>6, <1>8, <1>9 DEF CleanCall
-----------------------------------------------------------------------------
\* Which steps are steps of RoofClient.
Whole ==
  \/ \E b \in DelimBlocks : DelimiterEntry(b)
  \/ Callback \/ Process \/ \E t \in Threads : Exit(t)

\* They are among RoofClient's, on the variables they share.
LEMMA WholeIsNext == Whole => Next
BY DEF Whole, DelimiterEntry, Callback, Process, Exit, Next

\* A step of the inserted code leaves most of the client alone.
LEMMA CodeSteps ==
  ASSUME NEW t \in Threads, NEW b,
         StartBlock(t, b) \/ RunInstr(t) \/ RunCleanCall(t)
  PROVE  /\ UNCHANGED <<opt, process, in_roi, roi_start_detected, roi_end_detected,
                        new_point_only_once, id, last_seen, phase, at, block, open,
                        out_file, now>>
         /\ process = "running" /\ phase[t] = "running"
BY DEF StartBlock, RunInstr, RunCleanCall, CanExecute, InBlock, statics, app

\* The inserted code keeps the types.
LEMMA CodeStepTypes ==
  ASSUME Countable, Fine, NEW t \in Threads, NEW b \in Blocks,
         StartBlock(t, b) \/ RunInstr(t) \/ RunCleanCall(t)
  PROVE  TypeOK' /\ InCallbackOpen'
<1>1. UNCHANGED <<opt, process, in_roi, roi_start_detected, roi_end_detected,
                  new_point_only_once, id, last_seen, phase, at, block, open, out_file, now>>
  BY CodeSteps
<1>2. InCallbackOpen'  BY <1>1 DEF Fine, InCallbackOpen
<1>3. /\ opt \in Option /\ b \in Block /\ ran \in [flops : Nat, bytes : Nat] /\ blocks \in Nat
      /\ td \in [Threads -> ThreadDataType]
  BY ConstantTypes DEF Fine, TypeOK
<1>4. CASE StartBlock(t, b)
  <2>1. ran' \in [flops : Nat, bytes : Nat]  BY <1>3, <1>4, RanType DEF StartBlock
  <2>2. td' = td /\ blocks' \in Nat  BY <1>3, <1>4 DEF StartBlock
  <2> QED BY <1>1, <1>2, <2>1, <2>2 DEF Fine, TypeOK
<1>5. CASE RunInstr(t)
  <2>1. ran' = ran /\ blocks' = blocks  BY <1>5 DEF RunInstr, app
  <2>2. td' \in [Threads -> ThreadDataType]  BY <1>3, <1>5, RunInstrData
  <2> QED BY <1>1, <1>2, <2>1, <2>2 DEF Fine, TypeOK
<1>6. CASE RunCleanCall(t)
  <2>1. bb[t] \in Block  BY <1>6, RunCleanCallData, ConstantTypes
  <2>2. ran' \in [flops : Nat, bytes : Nat]  BY <1>3, <1>6, <2>1, RanType DEF RunCleanCall
  <2>3. blocks' = blocks  BY <1>6 DEF RunCleanCall
  <2>4. td' \in [Threads -> ThreadDataType]  BY <1>3, <1>6, RunCleanCallData
  <2> QED BY <1>1, <1>2, <2>2, <2>3, <2>4 DEF Fine, TypeOK
<1> QED BY <1>4, <1>5, <1>6

\* A step of the inserted code leaves the other threads where they are.
LEMMA OthersStay ==
  ASSUME Inv, NEW t \in Threads, NEW b,
         StartBlock(t, b) \/ RunInstr(t) \/ RunCleanCall(t)
  PROVE  \A u \in Threads : u # t => pc'[u] = pc[u] /\ bb'[u] = bb[u]
<1>1. pc \in [Threads -> Nat] /\ bb \in [Threads -> Blocks \cup {NoBlock}]
  BY DEF Inv, TypeOKInserted
<1>2. CASE StartBlock(t, b)
  <2>1. pc' = [pc EXCEPT ![t] = 1] /\ bb' = [bb EXCEPT ![t] = b]  BY <1>2 DEF StartBlock
  <2> QED BY <1>1, <2>1
<1>3. CASE RunInstr(t) \/ RunCleanCall(t)
  <2>1. Advance(t) /\ bb' = bb /\ pc[t] > 0  BY <1>3 DEF RunInstr, RunCleanCall, InBlock
  <2>2. \A u \in Threads : u # t => pc'[u] = pc[u]  BY <2>1, AdvanceStep
  <2> QED BY <2>1, <2>2
<1> QED BY <1>2, <1>3

\* What the mapping needs is kept by the inserted code ...
LEMMA CodeStepGrain ==
  ASSUME Fine, NEW t \in Threads, NEW b,
         StartBlock(t, b) \/ RunInstr(t) \/ RunCleanCall(t)
  PROVE  Grain'
<1>1. \A u \in Threads : u # t => pc'[u] = pc[u] /\ bb'[u] = bb[u]
  BY OthersStay DEF Fine
<1>2. IsFiniteSet(InProgress')  BY <1>1, ProgressStep DEF Fine
<1>3. blocks' <= MaxBlocks
  <2>1. blocks \in Nat /\ MaxBlocks \in Nat /\ blocks <= MaxBlocks
    BY BoundsAssumption DEF Fine, TypeOK, Grain
  <2>2. CASE StartBlock(t, b)  BY <2>1, <2>2 DEF StartBlock, CanExecute
  <2>3. CASE RunInstr(t) \/ RunCleanCall(t)  BY <2>1, <2>3 DEF RunInstr, RunCleanCall
  <2> QED BY <2>2, <2>3
<1>4. ASSUME NEW u \in Threads, pc'[u] > 0 PROVE phase'[u] # "unborn" /\ ~opt'.time_run
  <2>1. opt' = opt /\ phase' = phase /\ phase[t] = "running"  BY CodeSteps
  <2>2. ~opt.time_run
    <3>1. CASE StartBlock(t, b)  BY <3>1 DEF StartBlock
    <3>2. CASE RunInstr(t) \/ RunCleanCall(t)
      BY <3>2 DEF RunInstr, RunCleanCall, InBlock, Fine, Grain
    <3> QED BY <3>1, <3>2
  <2>3. CASE u = t  BY <2>1, <2>2, <2>3
  <2>4. CASE u # t  BY <1>1, <1>4, <2>1, <2>4 DEF Fine, Grain
  <2> QED BY <2>3, <2>4
<1> QED BY <1>2, <1>3, <1>4 DEF Grain

\* ... and by the steps of RoofClient.
LEMMA WholeStepGrain ==
  ASSUME Fine, Whole
  PROVE  Grain' /\ InProgress' = InProgress /\ pc' = pc /\ bb' = bb /\ opt' = opt
<1>1. pc' = pc /\ bb' = bb
  BY DEF Whole, DelimiterEntry, Callback, Process, Exit, inserted
<1>2. InProgress' = InProgress  BY <1>1 DEF InProgress, Pending
<1>3. \/ \E b \in DelimBlocks : (\E l \in Labels : EnterStart(b, l)) \/ EnterEnd(b)
      \/ \E d : RoiInit(d) \/ RoiEnd(d)
      \/ \E t \in Threads : ThreadInit(t) \/ ExitGroup(t) \/ ThreadExit(t)
      \/ RoiInitAbort \/ Tick \/ EventExit \/ UNCHANGED vars
  BY DEF Whole, DelimiterEntry, Callback, Process, Exit, Terminated, RoiInitMerged,
         RoiInitSeparate, RoiInitDelimiter, EventRoiEnd, SymbolRoiEndSeparate,
         SymbolRoiEndMerged
<1>4. blocks \in Nat /\ MaxBlocks \in Nat /\ blocks <= MaxBlocks
      /\ phase \in [Threads -> {"unborn", "running", "exited"}]
  BY BoundsAssumption DEF Fine, TypeOK, Grain
<1>5. opt' = opt /\ (blocks' = blocks \/ (blocks < MaxBlocks /\ blocks' = blocks + 1))
  <2>1. ASSUME NEW b, NEW l, EnterStart(b, l) \/ EnterEnd(b)
        PROVE  opt' = opt /\ (blocks' = blocks \/ (blocks < MaxBlocks /\ blocks' = blocks + 1))
    BY <2>1 DEF EnterStart, EnterEnd, CanExecute
  <2>2. ASSUME NEW d, RoiInit(d) \/ RoiEnd(d) PROVE opt' = opt /\ blocks' = blocks
    BY <2>2 DEF RoiInit, RoiEnd
  <2>3. ASSUME NEW t, ThreadInit(t) \/ ExitGroup(t) \/ ThreadExit(t)
        PROVE  opt' = opt /\ blocks' = blocks
    BY <2>3 DEF ThreadInit, ExitGroup, ThreadExit
  <2>4. RoiInitAbort \/ Tick \/ EventExit \/ UNCHANGED vars => opt' = opt /\ blocks' = blocks
    BY DEF RoiInitAbort, Tick, EventExit, vars
  <2> QED BY <1>3, <2>1, <2>2, <2>3, <2>4
<1>6. \A t \in Threads : phase[t] # "unborn" => phase'[t] # "unborn"
  BY <1>3, <1>4 DEF EnterStart, EnterEnd, RoiInit, RoiEnd, ThreadInit, ExitGroup,
         ThreadExit, RoiInitAbort, Tick, EventExit, vars
<1>7. blocks' <= MaxBlocks  BY <1>4, <1>5
<1> QED BY <1>1, <1>2, <1>5, <1>6, <1>7 DEF Fine, Grain

\* Every step keeps all of it.
LEMMA FineStep ==
  ASSUME Countable
  PROVE  Fine /\ [NextInserted]_allvars => Fine'
<1> SUFFICES ASSUME Fine, [NextInserted]_allvars PROVE Fine'
  OBVIOUS
<1>1. Inv'  BY NextKeepsInv DEF Fine
<1>2. ASSUME NEW t \in Threads, NEW b \in Blocks,
             StartBlock(t, b) \/ RunInstr(t) \/ RunCleanCall(t)
      PROVE  Fine'
  BY <1>1, <1>2, CodeStepTypes, CodeStepGrain DEF Fine
<1>3. CASE Whole
  <2>1. [Next]_vars  BY <1>3, WholeIsNext
  <2> QED BY <1>1, <1>3, <2>1, TypeStep, InCallbackOpenStep, WholeStepGrain DEF Fine
<1>4. CASE UNCHANGED allvars
  <2>1. [Next]_vars  BY <1>4 DEF allvars
  <2>2. pc' = pc /\ bb' = bb /\ opt' = opt /\ blocks' = blocks /\ phase' = phase
    BY <1>4 DEF allvars, vars, inserted
  <2>3. Grain'  BY <2>2 DEF Fine, Grain, InProgress, Pending
  <2> QED BY <1>1, <2>1, <2>3, TypeStep, InCallbackOpenStep DEF Fine
<1>5. ASSUME NEW t \in Threads, RunInstr(t) \/ RunCleanCall(t) PROVE Fine'
  <2>1. bb[t] \in Blocks
    BY <1>5 DEF Fine, Inv, TypeOKInserted, RunInstr, RunCleanCall, InBlock
  <2> QED BY <1>2, <1>5, <2>1
<1> QED BY <1>2, <1>3, <1>4, <1>5 DEF NextInserted, Whole

\* It holds at first, as no thread is in a block.
LEMMA FineInit == InitInserted => Fine
<1> SUFFICES ASSUME InitInserted PROVE Fine
  OBVIOUS
<1>1. TypeOK /\ Inv  BY TypeInit, InvInit DEF InitInserted
<1>2. InCallbackOpen  BY DEF InitInserted, Init, InCallbackOpen
<1>3. \A t \in Threads : pc[t] = 0  BY DEF InitInserted
<1>4. InProgress = {}  BY <1>3 DEF InProgress, Pending
<1>5. IsFiniteSet(InProgress)
  <2>1. IsFiniteSet({})  BY FS_EmptySet
  <2> QED BY <1>4, <2>1
<1>6. blocks <= MaxBlocks  BY BoundsAssumption DEF InitInserted, Init
<1>7. Grain  BY <1>3, <1>5, <1>6 DEF Grain
<1> QED BY <1>1, <1>2, <1>7 DEF Fine
-----------------------------------------------------------------------------
(***************************************************************************)
(* The steps of the inserted code, seen from RoofClient.                   *)
(***************************************************************************)
\* A block without a clean call, in one step.
LEMMA BareBlockData ==
  ASSUME opt \in Option, ~opt.time_run, NEW d \in ThreadDataType, NEW b \in Blocks, b.excl
  PROVE  BlockRest(BlockEntry(d, b), b) = [d EXCEPT !.buffer = AddRefs(@, RefsFrom(Code[b], 1))]
<1>1. /\ Code[b] \in Seq(Instr) /\ 1 \in 1 .. Len(Code[b])
      /\ RecordedFor(Code[b][1]) = Recorded(opt, b.head)
      /\ RefsFrom(Code[b], 2) = Recorded(opt, b.body)
  BY BlockCode
<1> DEFINE head == Recorded(opt, b.head)
           body == Recorded(opt, b.body)
<1>2. head \in Refs /\ body \in Refs
  <2>1. b.head \in AppRefs /\ b.body \in AppRefs  BY BlocksAssumption DEF Block
  <2> QED BY <2>1, RecordedType
<1>3. RefsFrom(Code[b], 1) = AddRefs(head, body)
  <2>1. 1 + 1 = 2  OBVIOUS
  <2> QED BY <1>1, <2>1, RefsOfCode
<1>4. BlockRest(BlockEntry(d, b), b) = Record(Record(d, head), body)
  BY DEF BlockRest, BlockEntry
<1> HIDE DEF head, body
<1>5. d.buffer \in Refs  BY DEF ThreadDataType
<1>6. AddRefs(AddRefs(d.buffer, head), body) = AddRefs(d.buffer, AddRefs(head, body))
  BY <1>2, <1>5, AddRefsInTurn
<1>7. Record(Record(d, head), body) = [d EXCEPT !.buffer = AddRefs(AddRefs(@, head), body)]
  BY DEF Record, ThreadDataType
<1> QED BY <1>3, <1>4, <1>6, <1>7

\* A block with one, whose first instruction has been recorded, in one step.
LEMMA CleanedBlockData ==
  ASSUME opt \in Option, ~opt.time_run, NEW d \in ThreadDataType, NEW b \in Blocks, ~b.excl,
         NEW m, m = [d EXCEPT !.buffer = Without(@, RecordedFor(Code[b][1]))]
  PROVE  BlockRest(BlockEntry(m, b), b)
           = [CleanCall(d, b.fp) EXCEPT !.buffer = AddRefs(@, RefsFrom(Code[b], 2))]
<1>1. /\ RecordedFor(Code[b][1]) = Recorded(opt, b.head)
      /\ RefsFrom(Code[b], 2) = Recorded(opt, b.body)
  BY BlockCode
<1> DEFINE head == Recorded(opt, b.head)
<1>2. head \in Refs
  <2>1. b.head \in AppRefs  BY BlocksAssumption DEF Block
  <2> QED BY <2>1, RecordedType
<1>3. BlockEntry(m, b) = CleanCall(Record(m, head), b.fp)  BY DEF BlockEntry
<1>4. m = [d EXCEPT !.buffer = Without(@, head)]  BY <1>1
<1> HIDE DEF head
<1>5. d.buffer \in Refs  BY DEF ThreadDataType
<1>6. AddRefs(Without(d.buffer, head), head) = d.buffer  BY <1>2, <1>5, AddRefsFacts
<1>7. Record(m, head) = d
  <2>1. Record(m, head) = [d EXCEPT !.buffer = AddRefs(Without(@, head), head)]
    BY <1>4 DEF Record, ThreadDataType
  <2> QED BY <1>6, <2>1 DEF ThreadDataType
<1> QED BY <1>1, <1>3, <1>7 DEF BlockRest, Record

\* The step of RoofClient that runs a block.
LEMMA RunsBlock ==
  ASSUME NEW t \in Threads, NEW b \in Blocks, process = "running", phase[t] = "running",
         t = Main => at = "app", MappedBlocks < MaxBlocks, ~opt.time_run,
         MappedData' = [MappedData EXCEPT ![t] = BlockRest(BlockEntry(MappedData[t], b), b)],
         ran' = IF t = Main THEN RanBlock(b) ELSE ran,
         MappedBlocks' = MappedBlocks + 1,
         UNCHANGED <<opt, process, in_roi, roi_start_detected, roi_end_detected,
                     new_point_only_once, id, last_seen, phase, at, block, open, out_file, now>>
  PROVE  Coarse!Next
<1>1. Coarse!ExecuteBlock(t, b)
  BY SameCode DEF Coarse!ExecuteBlock, Coarse!CanExecute, Coarse!statics
<1> QED BY <1>1 DEF Coarse!Next

\* No step of RoofClient.
LEMMA RunsNothing ==
  ASSUME MappedData' = MappedData, MappedBlocks' = MappedBlocks, ran' = ran,
         UNCHANGED <<opt, process, in_roi, roi_start_detected, roi_end_detected,
                     new_point_only_once, id, last_seen, phase, at, block, open, out_file, now>>
  PROVE  UNCHANGED Coarse!vars
BY DEF Coarse!vars, Coarse!statics, Coarse!app

\* The blocks of RoofClient are those executed here, without those in progress.
LEMMA BlocksMapped ==
  ASSUME Fine
  PROVE  /\ MappedBlocks = blocks - Cardinality(InProgress)
         /\ MappedBlocks' = blocks' - Cardinality(InProgress')
         /\ Cardinality(InProgress) \in Nat /\ blocks \in Nat /\ MaxBlocks \in Nat
         /\ blocks <= MaxBlocks
         /\ \A t \in Threads : Pending(t) => Cardinality(InProgress) >= 1
<1>1. IsFiniteSet(InProgress) /\ blocks <= MaxBlocks /\ blocks \in Nat /\ MaxBlocks \in Nat
  BY BoundsAssumption DEF Fine, Grain, TypeOK
<1>2. Cardinality(InProgress) \in Nat  BY <1>1, FS_CardinalityType
<1>3. ASSUME NEW t \in Threads, Pending(t) PROVE Cardinality(InProgress) >= 1
  <2>1. InProgress # {}  BY <1>3 DEF InProgress
  <2>2. Cardinality(InProgress) # 0  BY <1>1, <2>1, FS_EmptySet
  <2> QED BY <1>2, <2>2
<1>4. /\ MappedBlocks = blocks - Cardinality(InProgress)
      /\ MappedBlocks' = blocks' - Cardinality(InProgress')
  BY DEF MappedBlocks, InProgress
<1> QED BY <1>1, <1>2, <1>3, <1>4

\* A thread enters a block: a step of RoofClient if it has no clean call.
LEMMA StartBlockMaps ==
  ASSUME Fine, NEW t \in Threads, NEW b \in Blocks, StartBlock(t, b)
  PROVE  Coarse!Next \/ UNCHANGED Coarse!vars
<1>1. /\ opt \in Option /\ td \in [Threads -> ThreadDataType] /\ td[t] \in ThreadDataType
      /\ pc \in [Threads -> Nat] /\ bb \in [Threads -> Blocks \cup {NoBlock}]
  BY ConstantTypes DEF Fine, TypeOK, Inv, TypeOKInserted
<1>2. /\ pc[t] = 0 /\ pc'[t] = 1 /\ bb'[t] = b /\ ~opt.time_run /\ blocks' = blocks + 1
      /\ td' = [td EXCEPT ![t] = td[t]] /\ td' = td /\ (t = Main => at = "app")
      /\ blocks < MaxBlocks
  BY <1>1 DEF StartBlock, CanExecute
<1>3. UNCHANGED <<opt, process, in_roi, roi_start_detected, roi_end_detected,
                  new_point_only_once, id, last_seen, phase, at, block, open, out_file, now>>
      /\ process = "running" /\ phase[t] = "running"
  BY CodeSteps
<1>4. \A u \in Threads : u # t => pc'[u] = pc[u] /\ bb'[u] = bb[u]
  BY OthersStay DEF Fine
<1>5. MappedData[t] = td[t]  BY <1>2, MappedBetween DEF Fine
<1>6. MappedData' = [MappedData EXCEPT ![t] = [td[t] EXCEPT !.buffer = MappedBuffer(t)']]
  BY <1>2, <1>3, <1>4, MappedStep DEF Fine
<1>7. ~Pending(t) /\ (Pending(t)' <=> ~b.excl)  BY <1>2 DEF Pending
<1>8. CASE b.excl
  <2>1. MappedBuffer(t)' = AddRefs(td[t].buffer, RefsFrom(Code[b], 1))
    <3>1. MappedBuffer(t)' = AddRefs(td'[t].buffer, RefsFrom(Code[b], 1)')
      BY <1>2, <1>7, <1>8 DEF MappedBuffer
    <3> QED BY <3>1, <1>2, <1>3, RecordingKept
  <2>2. MappedData' = [MappedData EXCEPT ![t] = BlockRest(BlockEntry(MappedData[t], b), b)]
    <3>1. BlockRest(BlockEntry(td[t], b), b)
            = [td[t] EXCEPT !.buffer = AddRefs(@, RefsFrom(Code[b], 1))]
      BY <1>1, <1>2, <1>8, BareBlockData
    <3>2. BlockRest(BlockEntry(td[t], b), b) = [td[t] EXCEPT !.buffer = MappedBuffer(t)']
      BY <2>1, <3>1
    <3> QED BY <3>2, <1>5, <1>6
  <2>3. MappedBlocks' = MappedBlocks + 1 /\ MappedBlocks < MaxBlocks
    <3>1. Cardinality(InProgress') = Cardinality(InProgress)
      BY <1>4, <1>7, <1>8, ProgressStep DEF Fine
    <3> QED BY <3>1, <1>2, BlocksMapped
  <2>4. ran' = IF t = Main THEN RanBlock(b) ELSE ran  BY <1>8 DEF StartBlock
  <2> QED BY <1>2, <1>3, <2>2, <2>3, <2>4, RunsBlock
<1>9. CASE ~b.excl
  <2>1. MappedBuffer(t)' = td[t].buffer
    BY <1>2, <1>7, <1>9 DEF MappedBuffer
  <2>2. MappedData' = MappedData
    <3>1. [td[t] EXCEPT !.buffer = MappedBuffer(t)'] = MappedData[t]
      BY <1>1, <1>5, <2>1 DEF ThreadDataType
    <3>2. MappedData \in [Threads -> {MappedData[u] : u \in Threads}]  BY DEF MappedData
    <3> QED BY <1>6, <3>1, <3>2
  <2>3. MappedBlocks' = MappedBlocks
    <3>1. Cardinality(InProgress') = Cardinality(InProgress) + 1
      BY <1>4, <1>7, <1>9, ProgressStep DEF Fine
    <3> QED BY <3>1, <1>2, BlocksMapped
  <2>4. ran' = ran  BY <1>9 DEF StartBlock
  <2> QED BY <1>3, <2>2, <2>3, <2>4, RunsNothing
<1> QED BY <1>8, <1>9

\* An instruction: no step of RoofClient.
LEMMA RunInstrMaps ==
  ASSUME Fine, NEW t \in Threads, RunInstr(t)
  PROVE  UNCHANGED Coarse!vars
<1>1. /\ opt \in Option /\ td \in [Threads -> ThreadDataType] /\ td[t] \in ThreadDataType
      /\ pc[t] \in Nat /\ pc[t] > 0 /\ pc[t] # 2 /\ bb[t] \in Blocks /\ bb' = bb
      /\ pc[t] <= Len(Code[bb[t]]) + 1 /\ Advance(t)
  BY ConstantTypes DEF Fine, TypeOK, Inv, TypeOKInserted, RunInstr, InBlock
<1>2. UNCHANGED <<opt, process, in_roi, roi_start_detected, roi_end_detected,
                  new_point_only_once, id, last_seen, phase, at, block, open, out_file, now>>
  BY CodeSteps
<1>3. \A u \in Threads : u # t => pc'[u] = pc[u] /\ bb'[u] = bb[u]
  BY OthersStay DEF Fine
<1> DEFINE code == Code[bb[t]]
           k == IF pc[t] = 1 THEN 1 ELSE pc[t] - 1
           i == RecordedFor(Current(t))
           old == td[t].buffer
<1>4. /\ code \in Seq(Instr) /\ Len(code) \in Nat /\ Len(code) >= 1
      /\ bb[t].excl \in BOOLEAN
  BY <1>1, BlockCode
<1>5. k \in 1 .. Len(code) /\ Current(t) = code[k]  BY <1>1, <1>4 DEF Current
<1>6. /\ i \in Refs /\ td' = [td EXCEPT ![t] = RunData(t)] /\ RunData(t) \in ThreadDataType
      /\ RunData(t) = [td[t] EXCEPT !.buffer = AddRefs(old, i)]
      /\ RunData(t).buffer = AddRefs(old, i)
  BY RunInstrData
<1>7. td'[t].buffer = AddRefs(old, i) /\ old \in Refs  BY <1>1, <1>6 DEF ThreadDataType
<1>8. /\ RefsFrom(code, k) = AddRefs(i, RefsFrom(code, k + 1))
      /\ RefsFrom(code, k + 1) \in Refs /\ RefsFrom(code, Len(code) + 1) = NoRefs
  <2>1. k + 1 \in 1 .. Len(code) + 1  BY <1>4, <1>5
  <2> QED BY <1>1, <1>4, <1>5, <2>1, RefsOfCode
<1>9. \/ pc'[t] = 0 /\ (IF pc[t] = 1 /\ bb[t].excl THEN 3 ELSE pc[t] + 1) > Len(code) + 1
      \/ pc'[t] = (IF pc[t] = 1 /\ bb[t].excl THEN 3 ELSE pc[t] + 1)
  BY <1>1, AdvanceStep DEF Fine
<1>10. MappedData' = [MappedData EXCEPT ![t] = [RunData(t) EXCEPT !.buffer = MappedBuffer(t)']]
  BY <1>2, <1>3, <1>6, MappedStep DEF Fine
<1>11. MappedBuffer(t)' = MappedBuffer(t) /\ (Pending(t)' <=> Pending(t))
  <2>1. CASE pc[t] = 1 /\ ~bb[t].excl
    <3>1. pc'[t] = 2  BY <1>4, <1>9, <2>1
    <3>2. Pending(t) /\ Pending(t)'  BY <1>1, <2>1, <3>1 DEF Pending
    <3>3. MappedBuffer(t) = old  BY <2>1, <3>2 DEF MappedBuffer
    <3>4. i = RecordedFor(Code[bb[t]][1])  BY <1>5, <2>1
    <3>5. MappedBuffer(t)' = Without(AddRefs(old, i), i)
      <4>1. \A c : RecordedFor(c)' = RecordedFor(c)  BY <1>2, RecordingKept
      <4>2. MappedBuffer(t)' = Without(td'[t].buffer, RecordedFor(Code[bb[t]][1]))
        BY <1>1, <3>1, <3>2, <4>1 DEF MappedBuffer
      <4> QED BY <4>2, <3>4, <1>7
    <3> QED BY <3>2, <3>3, <3>5, <1>6, <1>7, AddRefsFacts
  <2>2. CASE ~(pc[t] = 1 /\ ~bb[t].excl)
    <3>1. ~Pending(t)  BY <1>1, <2>2 DEF Pending
    <3>2. MappedBuffer(t) = AddRefs(old, AddRefs(i, RefsFrom(code, k + 1)))
      <4>1. MappedBuffer(t) = AddRefs(old, RefsFrom(code, k))
        BY <1>1, <3>1 DEF MappedBuffer
      <4> QED BY <4>1, <1>8
    <3>3. \/ pc'[t] = 0 /\ k = Len(code)
          \/ pc'[t] > 2 /\ pc'[t] \in Nat /\ pc'[t] - 1 = k + 1
      BY <1>1, <1>4, <1>9, <2>2
    <3>4. ~Pending(t)'  BY <3>3 DEF Pending
    <3>5. MappedBuffer(t)' = AddRefs(AddRefs(old, i), RefsFrom(code, k + 1))
      <4>1. CASE pc'[t] = 0 /\ k = Len(code)
        <5>1. MappedBuffer(t)' = AddRefs(old, i)  BY <4>1, <1>7 DEF MappedBuffer
        <5>2. AddRefs(old, i) \in Refs  BY <1>6, <1>7, AddRefsFacts
        <5> QED BY <5>1, <5>2, <4>1, <1>8, AddRefsFacts
      <4>2. CASE pc'[t] > 2 /\ pc'[t] \in Nat /\ pc'[t] - 1 = k + 1
        <5>1. \A c, n : RefsFrom(c, n)' = RefsFrom(c, n)  BY <1>2, RecordingKept
        <5>2. MappedBuffer(t)' = AddRefs(td'[t].buffer, RefsFrom(code, pc'[t] - 1))
          BY <1>1, <4>2, <3>4, <5>1 DEF MappedBuffer
        <5> QED BY <5>2, <4>2, <1>7
      <4> QED BY <3>3, <4>1, <4>2
    <3> QED BY <3>1, <3>2, <3>4, <3>5, <1>6, <1>7, <1>8, AddRefsInTurn
  <2> QED BY <2>1, <2>2
<1>12. MappedData' = MappedData
  <2>1. [RunData(t) EXCEPT !.buffer = MappedBuffer(t)'] = MappedData[t]
    BY <1>1, <1>6, <1>11 DEF MappedData, ThreadDataType
  <2>2. MappedData \in [Threads -> {MappedData[u] : u \in Threads}]  BY DEF MappedData
  <2> QED BY <1>10, <2>1, <2>2
<1>13. MappedBlocks' = MappedBlocks
  <2>1. Cardinality(InProgress') = Cardinality(InProgress)
    BY <1>3, <1>11, ProgressStep DEF Fine
  <2>2. blocks' = blocks  BY DEF RunInstr
  <2> QED BY <2>1, <2>2, BlocksMapped
<1>14. ran' = ran  BY DEF RunInstr, app
<1> QED BY <1>2, <1>12, <1>13, <1>14, RunsNothing

\* The clean call of a block: the step of RoofClient that runs the block.
LEMMA RunCleanCallMaps ==
  ASSUME Countable, Fine, NEW t \in Threads, RunCleanCall(t)
  PROVE  Coarse!Next
<1> DEFINE b == bb[t]
           d == CleanCall(td[t], b.fp)
           code == Code[b]
<1>1. /\ opt \in Option /\ td \in [Threads -> ThreadDataType] /\ td[t] \in ThreadDataType
      /\ pc[t] = 2 /\ bb' = bb /\ Advance(t) /\ blocks' = blocks /\ pc[t] \in Nat
      /\ ~opt.time_run
  BY ConstantTypes
     DEF Fine, Grain, TypeOK, Inv, TypeOKInserted, RunCleanCall, InBlock
<1>2. UNCHANGED <<opt, process, in_roi, roi_start_detected, roi_end_detected,
                  new_point_only_once, id, last_seen, phase, at, block, open, out_file, now>>
      /\ process = "running" /\ phase[t] = "running"
  BY CodeSteps
<1>3. \A u \in Threads : u # t => pc'[u] = pc[u] /\ bb'[u] = bb[u]
  BY OthersStay DEF Fine
<1>4. /\ b \in Blocks /\ ~b.excl /\ td' = [td EXCEPT ![t] = d] /\ d \in ThreadDataType
      /\ d.buffer = NoRefs
  BY RunCleanCallData
<1>5. code \in Seq(Instr) /\ Len(code) \in Nat /\ Len(code) >= 1  BY <1>1, <1>4, BlockCode
<1>6. RefsFrom(code, 2) \in Refs /\ RefsFrom(code, Len(code) + 1) = NoRefs
  <2>1. 2 \in 1 .. Len(code) + 1  BY <1>5
  <2> QED BY <1>1, <1>5, <2>1, RefsOfCode
<1>7. \/ pc'[t] = 0 /\ Len(code) = 1
      \/ pc'[t] = 3
  <2>1. \/ pc'[t] = 0 /\ pc[t] + 1 > Len(code) + 1
        \/ pc'[t] = pc[t] + 1
    BY <1>1, AdvanceStep DEF Fine
  <2> DEFINE n == Len(code)
  <2>2. n \in Nat /\ n >= 1 /\ pc[t] + 1 = 3 /\ (pc[t] + 1 > n + 1 => 3 > n + 1)  BY <1>1, <1>5
  <2> HIDE DEF n
  <2>3. 3 > n + 1 => n = 1  BY <2>2
  <2> QED BY <2>1, <2>2, <2>3 DEF n
<1>8. Pending(t) /\ ~Pending(t)'  BY <1>1, <1>4, <1>7 DEF Pending
<1>9. MappedData' = [MappedData EXCEPT ![t] = [d EXCEPT !.buffer = MappedBuffer(t)']]
  BY <1>2, <1>3, <1>4, MappedStep DEF Fine
<1>10. MappedBuffer(t)' = AddRefs(NoRefs, RefsFrom(code, 2))
  <2>1. td'[t].buffer = NoRefs  BY <1>1, <1>4
  <2>2. CASE pc'[t] = 0 /\ Len(code) = 1
    <3>1. MappedBuffer(t)' = NoRefs  BY <2>1, <2>2 DEF MappedBuffer
    <3>2. RefsFrom(code, 2) = NoRefs
      <4>1. Len(code) + 1 = 2  BY <2>2
      <4> QED BY <4>1, <1>6
    <3> QED BY <3>1, <3>2, <1>6, AddRefsFacts
  <2>3. CASE pc'[t] = 3
    <3>1. \A c, n : RefsFrom(c, n)' = RefsFrom(c, n)  BY <1>2, RecordingKept
    <3>2. MappedBuffer(t)' = AddRefs(td'[t].buffer, RefsFrom(code, pc'[t] - 1))
      BY <1>1, <1>8, <2>3, <3>1 DEF MappedBuffer
    <3>3. pc'[t] - 1 = 2  BY <2>3
    <3> QED BY <2>1, <3>2, <3>3
  <2> QED BY <1>7, <2>2, <2>3
<1>11. MappedData[t] = [td[t] EXCEPT !.buffer = Without(@, RecordedFor(code[1]))]
  <2>1. MappedBuffer(t) = Without(td[t].buffer, RecordedFor(code[1]))
    BY <1>1, <1>8 DEF MappedBuffer
  <2> QED BY <2>1 DEF MappedData
<1>12. BlockRest(BlockEntry(MappedData[t], b), b) = [d EXCEPT !.buffer = MappedBuffer(t)']
  <2>1. BlockRest(BlockEntry(MappedData[t], b), b)
          = [d EXCEPT !.buffer = AddRefs(@, RefsFrom(code, 2))]
    BY <1>1, <1>4, <1>11, CleanedBlockData
  <2> HIDE DEF d
  <2> QED BY <2>1, <1>4, <1>10 DEF ThreadDataType
<1>13. MappedData' = [MappedData EXCEPT ![t] = BlockRest(BlockEntry(MappedData[t], b), b)]
  BY <1>9, <1>12
<1>14. MappedBlocks' = MappedBlocks + 1 /\ MappedBlocks < MaxBlocks
  <2>1. Cardinality(InProgress') = Cardinality(InProgress) - 1
    BY <1>3, <1>8, ProgressStep DEF Fine
  <2>2. Cardinality(InProgress) >= 1  BY <1>8, BlocksMapped
  <2> QED BY <1>1, <2>1, <2>2, BlocksMapped
<1>15. ran' = IF t = Main THEN RanBlock(b) ELSE ran  BY DEF RunCleanCall
<1>16. t = Main => at = "app"
  BY <1>1 DEF Fine, Inv, InDelimiter
<1> QED BY <1>1, <1>2, <1>4, <1>13, <1>14, <1>15, <1>16, RunsBlock
-----------------------------------------------------------------------------
(***************************************************************************)
(* The steps of RoofClient are steps of it under the mapping, too.         *)
(***************************************************************************)
\* What they do to the data of a thread between blocks, they do to it mapped.
LEMMA WholeStep ==
  ASSUME Fine, TypeOK', Whole, NEW t \in Threads, pc[t] = 0, NEW d, td' = [td EXCEPT ![t] = d]
  PROVE  /\ MappedData[t] = td[t] /\ MappedData' = [MappedData EXCEPT ![t] = d]
         /\ MappedBlocks' - MappedBlocks = blocks' - blocks
<1>1. pc' = pc /\ bb' = bb /\ opt' = opt /\ InProgress' = InProgress  BY WholeStepGrain
<1>2. td'[t] = d /\ d \in ThreadDataType /\ blocks' \in Nat  BY DEF Fine, TypeOK
<1>3. MappedData[t] = td[t]  BY MappedBetween DEF Fine
<1>4. MappedData' = [MappedData EXCEPT ![t] = [d EXCEPT !.buffer = MappedBuffer(t)']]
  BY <1>1, MappedStep DEF Fine
<1>5. MappedBuffer(t)' = d.buffer  BY <1>1, <1>2 DEF MappedBuffer
<1>6. [d EXCEPT !.buffer = MappedBuffer(t)'] = d  BY <1>2, <1>5 DEF ThreadDataType
<1>7. MappedBlocks' - MappedBlocks = blocks' - blocks  BY <1>1, <1>2, BlocksMapped
<1> QED BY <1>3, <1>4, <1>6, <1>7

\* Those that leave all data alone.
LEMMA WholeUnchanged ==
  ASSUME Fine, Whole, td' = td, blocks' = blocks
  PROVE  MappedData' = MappedData /\ MappedBlocks' = MappedBlocks
<1>1. pc' = pc /\ bb' = bb /\ opt' = opt /\ InProgress' = InProgress  BY WholeStepGrain
<1>2. \A t \in Threads : MappedBuffer(t)' = MappedBuffer(t)
  BY <1>1, RecordingKept DEF MappedBuffer, Pending
<1>3. MappedData' = MappedData  BY <1>2 DEF MappedData
<1> QED BY <1>1, <1>3, BlocksMapped

\* Main enters a delimiter, or the block that a call returns to.
LEMMA DelimiterEntryMaps ==
  ASSUME Fine, TypeOK', NEW b \in DelimBlocks, DelimiterEntry(b)
  PROVE  Coarse!Next
<1>1. Main \in Threads /\ pc[Main] = 0 /\ Whole
  BY ThreadsAssumption DEF DelimiterEntry, Whole
<1>2. td' = [td EXCEPT ![Main] = BlockEntry(td[Main], b)] /\ ran' = RanEntry(b)
  BY DEF DelimiterEntry, EnterStart, EnterEnd
<1>3. /\ MappedData[Main] = td[Main]
      /\ MappedData' = [MappedData EXCEPT ![Main] = BlockEntry(td[Main], b)]
      /\ MappedBlocks' - MappedBlocks = blocks' - blocks
  BY <1>1, <1>2, WholeStep
<1>4. MappedData' = [MappedData EXCEPT ![Main] = Coarse!BlockEntry(@, b)]
      /\ ran' = Coarse!RanEntry(b)
  BY <1>2, <1>3, SameCode
<1>5. blocks' \in Nat  BY DEF TypeOK
<1>6. ASSUME NEW l \in Labels, EnterStart(b, l) PROVE Coarse!EnterStart(b, l)
  <2>1. MappedBlocks' = MappedBlocks + 1 /\ MappedBlocks < MaxBlocks
    <3>1. blocks' = blocks + 1 /\ blocks < MaxBlocks  BY <1>6 DEF EnterStart, CanExecute
    <3>2. MappedBlocks \in Int /\ MappedBlocks' \in Int /\ MappedBlocks <= blocks
      <4>1. Cardinality(InProgress') \in Nat
        BY <1>1, WholeStepGrain, BlocksMapped
      <4> QED BY <4>1, <1>5, BlocksMapped
    <3> QED BY <3>1, <3>2, <1>3, BlocksMapped
  <2> QED BY <1>4, <1>6, <2>1
          DEF EnterStart, CanExecute, statics, Coarse!EnterStart, Coarse!CanExecute,
              Coarse!statics
<1>7. ASSUME EnterEnd(b) PROVE Coarse!EnterEnd(b)
  <2>1. MappedBlocks' = MappedBlocks
    <3>1. blocks' = blocks  BY <1>7 DEF EnterEnd
    <3> QED BY <3>1, <1>1, BlocksMapped, WholeStepGrain
  <2> QED BY <1>4, <1>7, <2>1 DEF EnterEnd, statics, Coarse!EnterEnd, Coarse!statics
<1> QED BY <1>6, <1>7 DEF DelimiterEntry, Coarse!Next

\* The common part of the start callbacks ...
LEMMA RoiInitMaps ==
  ASSUME Fine, TypeOK', Callback, NEW d, RoiInit(d)
  PROVE  MappedData[Main] = td[Main] /\ Coarse!RoiInit(d)
<1>1. Main \in Threads /\ pc[Main] = 0 /\ Whole
  <2>1. at # "app"
    BY DEF Callback, RoiInitMerged, RoiInitSeparate, RoiInitDelimiter, EventRoiEnd,
           SymbolRoiEndSeparate, SymbolRoiEndMerged, InCallback
  <2> QED BY <2>1, ThreadsAssumption DEF Fine, Inv, InDelimiter, Whole
<1>2. td' = [td EXCEPT ![Main] = BlockRest(StartTime(d), block)] /\ blocks' = blocks
  BY DEF RoiInit
<1>3. /\ MappedData[Main] = td[Main]
      /\ MappedData' = [MappedData EXCEPT ![Main] = BlockRest(StartTime(d), block)]
  BY <1>1, <1>2, WholeStep
<1>4. MappedBlocks' = MappedBlocks  BY <1>1, <1>2, BlocksMapped, WholeStepGrain
<1>5. MappedData' = [MappedData EXCEPT
                       ![Main] = Coarse!BlockRest(Coarse!StartTime(d), block)]
  BY <1>3, SameCode, SamePointOps
<1>6. Coarse!Resume  BY SameCode DEF RoiInit, Resume, Coarse!Resume
<1> QED BY <1>3, <1>4, <1>5, <1>6 DEF RoiInit, Coarse!RoiInit

\* ... and of the end callbacks.
LEMMA RoiEndMaps ==
  ASSUME Fine, TypeOK', Callback, NEW d, RoiEnd(d)
  PROVE  MappedData[Main] = td[Main] /\ Coarse!RoiEnd(d)
<1>1. Main \in Threads /\ pc[Main] = 0 /\ Whole
  <2>1. at # "app"
    BY DEF Callback, RoiInitMerged, RoiInitSeparate, RoiInitDelimiter, EventRoiEnd,
           SymbolRoiEndSeparate, SymbolRoiEndMerged, InCallback
  <2> QED BY <2>1, ThreadsAssumption DEF Fine, Inv, InDelimiter, Whole
<1>2. td' = [td EXCEPT ![Main] = BlockRest(d, block)] /\ blocks' = blocks
  BY DEF RoiEnd
<1>3. /\ MappedData[Main] = td[Main]
      /\ MappedData' = [MappedData EXCEPT ![Main] = BlockRest(d, block)]
  BY <1>1, <1>2, WholeStep
<1>4. MappedBlocks' = MappedBlocks  BY <1>1, <1>2, BlocksMapped, WholeStepGrain
<1>5. MappedData' = [MappedData EXCEPT ![Main] = Coarse!BlockRest(d, block)]
  BY <1>3, SameCode
<1>6. Coarse!Resume  BY SameCode DEF RoiEnd, Resume, Coarse!Resume
<1> QED BY <1>3, <1>4, <1>5, <1>6 DEF RoiEnd, Coarse!RoiEnd

\* Each callback, with its guard and its label.
LEMMA CallbackMaps ==
  ASSUME Fine, TypeOK', Callback
  PROVE  Coarse!Next
<1>1. \A s : Coarse!InCallback(s) <=> InCallback(s)  BY DEF InCallback, Coarse!InCallback
<1>2. CASE RoiInitMerged
  <2> DEFINE d == IF new_point_only_once THEN td[Main]
                  ELSE NewPoint(td[Main], GetLabel(opt.trace_f, Head(open)))
  <2>1. RoiInit(d)  BY <1>2 DEF RoiInitMerged
  <2>2. MappedData[Main] = td[Main] /\ Coarse!RoiInit(d)  BY <2>1, RoiInitMaps
  <2>3. d = IF new_point_only_once THEN MappedData[Main]
            ELSE Coarse!NewPoint(MappedData[Main],
                                 Coarse!GetLabel(opt.trace_f, Head(open)))
    BY <2>2, SamePointOps
  <2> HIDE DEF d
  <2> QED BY <1>1, <1>2, <2>2, <2>3, SamePointOps
          DEF RoiInitMerged, Coarse!RoiInitMerged, Coarse!Next
<1>3. CASE RoiInitSeparate
  <2>1. RoiInit(NewPoint(td[Main], AssignedLabel))  BY <1>3 DEF RoiInitSeparate
  <2>2. MappedData[Main] = td[Main] /\ Coarse!RoiInit(NewPoint(td[Main], AssignedLabel))
    BY <2>1, RoiInitMaps
  <2>3. Coarse!RoiInit(Coarse!NewPoint(MappedData[Main], Coarse!AssignedLabel))
    BY <2>2, SamePointOps
  <2> QED BY <1>1, <1>3, <2>3, SamePointOps
          DEF RoiInitSeparate, Coarse!RoiInitSeparate, Coarse!Next
<1>4. CASE RoiInitDelimiter
  <2> DEFINE d == NewPoint(td[Main], GetLabel(opt.roi_start, Head(open)))
  <2>1. RoiInit(d)  BY <1>4 DEF RoiInitDelimiter
  <2>2. MappedData[Main] = td[Main] /\ Coarse!RoiInit(d)  BY <2>1, RoiInitMaps
  <2>3. d = Coarse!NewPoint(MappedData[Main], Coarse!GetLabel(opt.roi_start, Head(open)))
    BY <2>2, SamePointOps
  <2> HIDE DEF d
  <2> QED BY <1>1, <1>4, <2>2, <2>3 DEF RoiInitDelimiter, Coarse!RoiInitDelimiter, Coarse!Next
<1>5. CASE EventRoiEnd
  <2> DEFINE d == SavePoint(StopTime(td[Main]), GetLabel(opt.roi_start, Head(open)))
  <2>1. RoiEnd(d)  BY <1>5 DEF EventRoiEnd
  <2>2. MappedData[Main] = td[Main] /\ Coarse!RoiEnd(d)  BY <2>1, RoiEndMaps
  <2>3. d = Coarse!SavePoint(Coarse!StopTime(MappedData[Main]),
                             Coarse!GetLabel(opt.roi_start, Head(open)))
    BY <2>2, SamePointOps
  <2> HIDE DEF d
  <2> QED BY <1>1, <1>5, <2>2, <2>3 DEF EventRoiEnd, Coarse!EventRoiEnd, Coarse!Next
<1>6. CASE SymbolRoiEndSeparate
  <2> DEFINE d == SavePoint(StopTime(td[Main]), AssignedLabel)
  <2>1. RoiEnd(d)  BY <1>6 DEF SymbolRoiEndSeparate
  <2>2. MappedData[Main] = td[Main] /\ Coarse!RoiEnd(d)  BY <2>1, RoiEndMaps
  <2>3. d = Coarse!SavePoint(Coarse!StopTime(MappedData[Main]), Coarse!AssignedLabel)
    BY <2>2, SamePointOps
  <2> HIDE DEF d
  <2> QED BY <1>1, <1>6, <2>2, <2>3, SamePointOps
          DEF SymbolRoiEndSeparate, Coarse!SymbolRoiEndSeparate, Coarse!Next
<1>7. CASE SymbolRoiEndMerged
  <2> DEFINE d == StopTime(td[Main])
  <2>1. RoiEnd(d)  BY <1>7 DEF SymbolRoiEndMerged
  <2>2. MappedData[Main] = td[Main] /\ Coarse!RoiEnd(d)  BY <2>1, RoiEndMaps
  <2>3. d = Coarse!StopTime(MappedData[Main])  BY <2>2, SamePointOps
  <2> HIDE DEF d
  <2> QED BY <1>1, <1>7, <2>2, <2>3, SamePointOps
          DEF SymbolRoiEndMerged, Coarse!SymbolRoiEndMerged, Coarse!Next
<1> QED BY <1>2, <1>3, <1>4, <1>5, <1>6, <1>7 DEF Callback

\* A thread's exit, which may come within a block when the process is stopped.
LEMMA ExitMaps ==
  ASSUME Fine, NEW t \in Threads, Exit(t)
  PROVE  Coarse!Next
<1>1. Whole /\ blocks' = blocks /\ ran' = ran /\ UNCHANGED <<at, block, open>>
  BY DEF Whole, Exit, ExitGroup, ThreadExit, app
<1>2. CASE ExitGroup(t)
  <2>1. td' = td  BY <1>2 DEF ExitGroup
  <2>2. MappedData' = MappedData /\ MappedBlocks' = MappedBlocks
    BY <1>1, <2>1, WholeUnchanged
  <2>3. Coarse!ExitGroup(t)
    BY <1>1, <1>2, <2>2 DEF ExitGroup, statics, Coarse!ExitGroup, Coarse!statics, Coarse!app
  <2> QED BY <2>3 DEF Coarse!Next
<1>3. CASE ThreadExit(t)
  <2> DEFINE d == td[t]
             r == MappedBuffer(t)
  <2>1. d \in ThreadDataType /\ td \in [Threads -> ThreadDataType]  BY DEF Fine, TypeOK
  <2>2. td' = [td EXCEPT ![t] = FinalData(d)]  BY <1>3 DEF ThreadExit
  <2>3. pc' = pc /\ bb' = bb /\ opt' = opt /\ InProgress' = InProgress
    BY <1>1, WholeStepGrain
  <2>4. MappedData' = [MappedData EXCEPT ![t] = [FinalData(d) EXCEPT !.buffer = MappedBuffer(t)']]
    BY <2>2, <2>3, MappedStep DEF Fine
  <2>5. FinalData(d).buffer = d.buffer
    BY <2>1 DEF FinalData, SavePoint, ThreadDataType
  <2>6. td'[t].buffer = d.buffer  BY <2>1, <2>2, <2>5
  <2>7. MappedBuffer(t)' = r
    BY <2>3, <2>6, RecordingKept DEF MappedBuffer, Pending
  <2>8. MappedData[t] = [d EXCEPT !.buffer = r]  BY DEF MappedData
  <2> HIDE DEF d, r
  <2>9. /\ FinalData(MappedData[t]) = [FinalData(d) EXCEPT !.buffer = r]
        /\ FinalData(MappedData[t]).point_list = FinalData(d).point_list
    BY <2>1, <2>8 DEF FinalData, SavePoint, ThreadDataType
  <2>10. MappedData' = [MappedData EXCEPT ![t] = Coarse!FinalData(@)]
    BY <2>4, <2>7, <2>9, SamePointOps
  <2>11. out_file' = Append(out_file,
           [tid |-> t, points |-> Coarse!SaveToFile(Coarse!FinalData(MappedData[t]).point_list,
                                                    opt.time_run)])
    <3>1. out_file' = Append(out_file,
            [tid |-> t, points |-> SaveToFile(FinalData(d).point_list, opt.time_run)])
      BY <1>3 DEF ThreadExit, d
    <3> QED BY <3>1, <2>9, SamePointOps, SameDocument
  <2>12. MappedBlocks' = MappedBlocks  BY <1>1, <2>3, BlocksMapped
  <2>13. Coarse!ThreadExit(t)
    BY <1>1, <1>3, <2>10, <2>11, <2>12
       DEF ThreadExit, statics, Coarse!ThreadExit, Coarse!statics, Coarse!app
  <2> QED BY <2>13 DEF Coarse!Next
<1> QED BY <1>2, <1>3 DEF Exit

\* The clock, the first event of a thread and the last ones of the process.
LEMMA ProcessMaps ==
  ASSUME Fine, TypeOK', Process
  PROVE  Coarse!Next
<1>1. Whole  BY DEF Whole
<1>2. ASSUME NEW t \in Threads, ThreadInit(t) PROVE Coarse!Next
  <2>1. pc[t] = 0
    BY <1>2 DEF ThreadInit, Fine, Grain, Inv, TypeOKInserted
  <2>2. td' = [td EXCEPT ![t] = NewThreadData] /\ blocks' = blocks  BY <1>2 DEF ThreadInit
  <2>3. MappedData' = [MappedData EXCEPT ![t] = Coarse!NewThreadData]
    BY <1>1, <2>1, <2>2, WholeStep, SameCode
  <2>4. MappedBlocks' = MappedBlocks  BY <1>1, <2>2, BlocksMapped, WholeStepGrain
  <2>5. Coarse!ThreadInit(t)
    BY <1>2, <2>3, <2>4 DEF ThreadInit, statics, app, Coarse!ThreadInit, Coarse!statics, Coarse!app
  <2> QED BY <2>5 DEF Coarse!Next
<1>3. CASE RoiInitAbort \/ Tick \/ EventExit \/ Terminated
  <2>1. td' = td /\ blocks' = blocks
    BY <1>3 DEF RoiInitAbort, Tick, EventExit, Terminated, vars
  <2>2. MappedData' = MappedData /\ MappedBlocks' = MappedBlocks
    BY <1>1, <2>1, WholeUnchanged
  <2>3. CASE RoiInitAbort
    <3>1. Coarse!RoiInitAbort
      BY <2>2, <2>3 DEF RoiInitAbort, InCallback, app, Coarse!RoiInitAbort,
                        Coarse!InCallback, Coarse!app
    <3> QED BY <3>1 DEF Coarse!Next
  <2>4. CASE Tick
    <3>1. Coarse!Tick
      BY <2>2, <2>4 DEF Tick, statics, app, Coarse!Tick, Coarse!statics, Coarse!app
    <3> QED BY <3>1 DEF Coarse!Next
  <2>5. CASE EventExit
    <3>1. Coarse!EventExit
      BY <2>2, <2>5 DEF EventExit, ExitAssertions, statics, app, Coarse!EventExit,
                        Coarse!ExitAssertions, Coarse!statics, Coarse!app
    <3> QED BY <3>1 DEF Coarse!Next
  <2>6. CASE Terminated
    <3>1. Coarse!Terminated
      BY <2>2, <2>6 DEF Terminated, vars, statics, app, Coarse!Terminated, Coarse!vars,
                        Coarse!statics, Coarse!app
    <3> QED BY <3>1 DEF Coarse!Next
  <2> QED BY <1>3, <2>3, <2>4, <2>5, <2>6
<1> QED BY <1>2, <1>3 DEF Process

\* At first, no thread is in a block.
LEMMA InitMaps == InitInserted => Coarse!Init
<1> SUFFICES ASSUME InitInserted PROVE Coarse!Init
  OBVIOUS
<1>1. Init /\ Fine  BY FineInit DEF InitInserted
<1>2. \A t \in Threads : pc[t] = 0  BY DEF InitInserted
<1>3. \A t \in Threads : MappedData[t] = NewThreadData
  <2>1. \A t \in Threads : td[t] = NewThreadData  BY <1>1 DEF Init
  <2> QED BY <1>1, <1>2, <2>1, MappedBetween DEF Fine
<1>4. MappedData = [t \in Threads |-> Coarse!NewThreadData]
  BY <1>3, SameCode DEF MappedData
<1>5. MappedBlocks = 0
  <2>1. {t \in Threads : Pending(t)} = {}  BY <1>2 DEF Pending
  <2>2. Cardinality({}) = 0  BY FS_EmptySet
  <2>3. MappedBlocks = blocks - 0  BY <2>1, <2>2 DEF MappedBlocks
  <2> QED BY <1>1, <2>3 DEF Init
<1> QED BY <1>1, <1>4, <1>5, SameCode DEF Init, Coarse!Init

\* Every step is a step of RoofClient, or none.
LEMMA NextMaps ==
  ASSUME Countable
  PROVE  Fine /\ [NextInserted]_allvars => [Coarse!Next]_(Coarse!vars)
<1> SUFFICES ASSUME Fine, [NextInserted]_allvars
             PROVE  Coarse!Next \/ UNCHANGED Coarse!vars
  OBVIOUS
<1>1. TypeOK'  BY FineStep DEF Fine
<1>2. ASSUME NEW t \in Threads, NEW b \in Blocks, StartBlock(t, b)
      PROVE  Coarse!Next \/ UNCHANGED Coarse!vars
  BY <1>2, StartBlockMaps
<1>3. ASSUME NEW t \in Threads, RunInstr(t) PROVE UNCHANGED Coarse!vars
  BY <1>3, RunInstrMaps
<1>4. ASSUME NEW t \in Threads, RunCleanCall(t) PROVE Coarse!Next
  BY <1>4, RunCleanCallMaps
<1>5. ASSUME NEW t \in Threads, Exit(t) PROVE Coarse!Next
  BY <1>5, ExitMaps
<1>6. ASSUME NEW b \in DelimBlocks, DelimiterEntry(b) PROVE Coarse!Next
  BY <1>1, <1>6, DelimiterEntryMaps
<1>7. CASE Callback  BY <1>1, <1>7, CallbackMaps
<1>8. CASE Process  BY <1>1, <1>8, ProcessMaps
<1>9. CASE UNCHANGED allvars
  <2>1. UNCHANGED vars /\ pc' = pc /\ bb' = bb  BY <1>9 DEF allvars, inserted
  <2>2. td' = td /\ blocks' = blocks /\ opt' = opt  BY <2>1 DEF vars
  <2>3. MappedData' = MappedData /\ MappedBlocks' = MappedBlocks
    <3>1. \A t \in Threads : MappedBuffer(t)' = MappedBuffer(t)
      BY <2>1, <2>2, RecordingKept DEF MappedBuffer, Pending
    <3> QED BY <2>1, <2>2, <3>1 DEF MappedData, MappedBlocks, Pending
  <2> QED BY <2>1, <2>3 DEF vars, statics, app, Coarse!vars, Coarse!statics, Coarse!app
<1> QED BY <1>2, <1>3, <1>4, <1>5, <1>6, <1>7, <1>8, <1>9 DEF NextInserted

(***************************************************************************)
(* On Arm, running blocks instruction by instruction is running each in    *)
(* one step: whatever the blocks of the application, except that they have *)
(* no vectors in d registers, and wherever other threads and the callbacks *)
(* of Main come between two instructions, every flop and byte goes to the  *)
(* point that it would go to if the block ran at its clean call            *)
(* (event_app_instruction, clean_call, count_fp_instr).                    *)
(***************************************************************************)
THEOREM BlocksAreSteps ==
  ASSUME Countable
  PROVE  SpecInserted => CoarseSpec
<1> QED BY InitMaps, FineInit, FineStep, NextMaps, PTL
        DEF SpecInserted, CoarseSpec, Coarse!Spec
===============================================================================
