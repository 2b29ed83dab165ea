----------------------------- MODULE InsertedCode -----------------------------
(***************************************************************************)
(* The code inserted in an ordinary basic block (client/main.cpp,          *)
(* event_app_instruction), one instruction at a time.  RoofClient runs a   *)
(* block in one step; here other threads and the callbacks of Main come    *)
(* between any two steps, and the pointer into a thread's buffer, which    *)
(* nothing checks against the end of the buffer, is modelled.              *)
(*                                                                         *)
(* The blocks that delimiters and returns lead to still run as in          *)
(* RoofClient.  A string loop is a block that runs once for every          *)
(* iteration (event_bb_app2app).                                           *)
(***************************************************************************)
EXTENDS RoofClient, CountFp

CONSTANTS
  Code,      \* Code[b]: the instructions of block b
  MaxRefs,   \* MAX_NUM_MEM_REFS: entries that a buffer has room for
  MaxLen,    \* instructions of the longest block
  MaxBare    \* bound: consecutive blocks that start with an exclusive store

\* The application's references in an instruction.
AppRefsOf(i) ==
  [loads |-> IF i.reads /\ ~i.writes THEN i.size ELSE 0,
   stores |-> IF i.writes /\ ~i.reads THEN i.size ELSE 0,
   updates |-> IF i.reads /\ i.writes THEN i.size ELSE 0]

\* SumFrom(v)[k]: the sum of the numbers v[k], v[k + 1], ... of a sequence.
SumFrom(v) ==
  LET sum[n \in 1 .. Len(v) + 1] == IF n > Len(v) THEN 0 ELSE v[n] + sum[n + 1]
  IN sum
AppRefsFrom(code, k) ==
  [loads |-> SumFrom([n \in DOMAIN code |-> AppRefsOf(code[n]).loads])[k],
   stores |-> SumFrom([n \in DOMAIN code |-> AppRefsOf(code[n]).stores])[k],
   updates |-> SumFrom([n \in DOMAIN code |-> AppRefsOf(code[n]).updates])[k]]

\* The count for a block is the sum over its instructions.
FpInstrCount(code) == SumFrom([n \in DOMAIN code |-> CountFpInstr(code[n])])[1]
\* What the core does in a block: its flops, references, and first instruction.
Summary(code) ==
  [fp |-> SumFrom([n \in DOMAIN code |-> Executed(code[n])])[1],
   head |-> AppRefsOf(code[1]), body |-> AppRefsFrom(code, 2),
   excl |-> code[1].exclusive_store]

ASSUME CodeAssumption ==
  /\ MaxLen \in Nat \ {0} /\ MaxBare \in Nat
  /\ Code \in [Blocks \cup DelimBlocks -> Seq(Instr)]
  /\ \A b \in DOMAIN Code : Len(Code[b]) \in 1 .. MaxLen
ASSUME SummaryAssumption == \A b \in DOMAIN Code : Summary(Code[b]) = b
\* The buffer is to hold all entries between clean calls.
ASSUME CapacityAssumption == MaxRefs \in Nat /\ MaxRefs >= (MaxBare + 1) * MaxLen

VARIABLES
  bb, pc,    \* the block that a thread is in, and its next step: 0 if it is in
             \* none, 1 for the first instruction, 2 for the clean call, and
             \* k + 1 for instruction k
  buf_ptr,   \* entries between buf_base and the buffer pointer
  bare       \* consecutive blocks without a clean call

inserted == <<bb, pc, buf_ptr, bare>>
allvars == <<vars, inserted>>
-----------------------------------------------------------------------------
\* event_app_instruction: is an instruction's reference recorded?
Instrumented(i) ==
  \/ i.reads /\ ~(opt.write_bytes_only /\ ~opt.read_bytes_only)
  \/ i.writes /\ ~opt.read_bytes_only

\* instrument_instr if it asked for writes first.
Entry_WritesFirst(i) == IF i.writes THEN [rd |-> 0, wr |-> i.size] ELSE [rd |-> i.size, wr |-> 0]
\* instrument_instr: the entry, of type 0 if the instruction reads.
Entry(i) == IF i.reads THEN [rd |-> i.size, wr |-> 0] ELSE [rd |-> 0, wr |-> i.size]

\* The pointer after clean_call, if it were put one entry before the buffer.
Rewound_BeforeBase(ptr) == -1
\* The pointer after clean_call, if only save_bytes moved it back.
Rewound_InRegion(ptr) == IF in_roi THEN 0 ELSE ptr
\* The pointer after clean_call: save_bytes and clean_buffer move it back.
Rewound(ptr) == 0

\* References recorded for the instructions of b after the first.
BodyEntries(b) == Cardinality({k \in 2 .. Len(Code[b]) : Instrumented(Code[b][k])})
HeadEntries(b) == IF Instrumented(Code[b][1]) THEN 1 ELSE 0

InitInserted ==
  /\ Init
  /\ bb = [t \in Threads |-> NoBlock] /\ pc = [t \in Threads |-> 0]
  /\ buf_ptr = [t \in Threads |-> 0] /\ bare = [t \in Threads |-> 0]

\* A thread enters a block.  One without a clean call has its place in the
\* order of blocks here, and any other at its clean call.
StartBlock(t, b) ==
  /\ CanExecute(t) /\ ~opt.time_run /\ pc[t] = 0
  /\ b.excl => bare[t] < MaxBare
  /\ bb' = [bb EXCEPT ![t] = b] /\ pc' = [pc EXCEPT ![t] = 1]
  /\ bare' = [bare EXCEPT ![t] = IF b.excl THEN @ + 1 ELSE @]
  /\ ran' = IF b.excl /\ t = Main THEN RanBlock(b) ELSE ran
  /\ blocks' = blocks + 1
  /\ UNCHANGED <<opt, process, in_roi, statics, phase, td, at, block, open, out_file, now, buf_ptr>>

InBlock(t) == process = "running" /\ phase[t] = "running" /\ pc[t] > 0
Advance(t) ==
  LET next == IF pc[t] = 1 /\ bb[t].excl THEN 3 ELSE pc[t] + 1
  IN pc' = [pc EXCEPT ![t] = IF next > Len(Code[bb[t]]) + 1 THEN 0 ELSE next]

\* The instruction that is next, and the code that records its reference.
Current(t) == Code[bb[t]][IF pc[t] = 1 THEN 1 ELSE pc[t] - 1]
RunInstr(t) ==
  /\ InBlock(t) /\ pc[t] # 2
  /\ IF Instrumented(Current(t))
     THEN /\ td' = [td EXCEPT ![t] = Record(@, Entry(Current(t)))]
          /\ buf_ptr' = [buf_ptr EXCEPT ![t] = @ + 1]
     ELSE UNCHANGED <<td, buf_ptr>>
  /\ Advance(t)
  /\ UNCHANGED <<opt, process, in_roi, statics, phase, app, out_file, now, blocks, bb, bare>>

\* The clean call, which comes after the first instruction's record.
RunCleanCall(t) ==
  /\ InBlock(t) /\ pc[t] = 2
  /\ td' = [td EXCEPT ![t] = CleanCall(@, FpInstrCount(Code[bb[t]]))]
  /\ buf_ptr' = [buf_ptr EXCEPT ![t] = Rewound(@)]
  /\ bare' = [bare EXCEPT ![t] = 0]
  /\ ran' = IF t = Main THEN RanBlock(bb[t]) ELSE ran
  /\ Advance(t)
  /\ UNCHANGED <<opt, process, in_roi, statics, phase, at, block, open, out_file, now, blocks, bb>>
-----------------------------------------------------------------------------
\* The blocks that delimiters and returns lead to: up to the callback ...
DelimiterEntry(b) ==
  /\ pc[Main] = 0
  /\ b.excl => bare[Main] < MaxBare
  /\ (\E l \in Labels : EnterStart(b, l)) \/ EnterEnd(b)
  /\ IF opt.time_run THEN UNCHANGED <<buf_ptr, bare>>
     ELSE LET ptr == buf_ptr[Main] + HeadEntries(b) IN
          /\ buf_ptr' = [buf_ptr EXCEPT ![Main] = IF b.excl THEN ptr ELSE Rewound(ptr)]
          /\ bare' = [bare EXCEPT ![Main] = IF b.excl THEN @ + 1 ELSE 0]
  /\ UNCHANGED <<bb, pc>>

\* ... and after it.
Callback ==
  /\ \/ RoiInitMerged \/ RoiInitSeparate \/ RoiInitDelimiter
     \/ EventRoiEnd \/ SymbolRoiEndSeparate \/ SymbolRoiEndMerged
  /\ buf_ptr' = IF opt.time_run THEN buf_ptr
                ELSE [buf_ptr EXCEPT ![Main] = @ + BodyEntries(block)]
  /\ UNCHANGED <<bb, pc, bare>>

\* A thread calls exit between two blocks, but may be stopped within one.
Exit(t) ==
  /\ process = "running" => pc[t] = 0
  /\ ExitGroup(t) \/ ThreadExit(t)
  /\ UNCHANGED inserted

Process ==
  /\ RoiInitAbort \/ Tick \/ EventExit \/ Terminated \/ \E t \in Threads : ThreadInit(t)
  /\ UNCHANGED inserted

NextInserted ==
  \/ \E t \in Threads : \/ \E b \in Blocks : StartBlock(t, b)
                        \/ RunInstr(t) \/ RunCleanCall(t) \/ Exit(t)
  \/ (\E b \in DelimBlocks : DelimiterEntry(b)) \/ Callback
  \/ Process

SpecInserted == InitInserted /\ [][NextInserted]_allvars
-----------------------------------------------------------------------------
(***************************************************************************)
(* The variables added to RoofClient hold values of their types: what the  *)
(* inserted code writes is at or after the base of the buffer, and the     *)
(* instruction that is next is one of the block.                           *)
(***************************************************************************)
TypeOKInserted ==
  /\ bb \in [Threads -> Blocks \cup {NoBlock}]
  /\ pc \in [Threads -> Nat]
  /\ buf_ptr \in [Threads -> Nat] /\ bare \in [Threads -> 0 .. MaxBare]
  /\ \A t \in Threads : pc[t] > 0 => bb[t] \in Blocks /\ pc[t] <= Len(Code[bb[t]]) + 1

(***************************************************************************)
(* No thread writes beyond the end of its buffer (thread_data.hpp: the     *)
(* buffer is big enough for all entries between clean calls), although the *)
(* inserted code does not check, the pointer is moved back by clean calls  *)
(* only, and a block that starts with an exclusive store has none.         *)
(***************************************************************************)
NoOverflow == \A t \in Threads : buf_ptr[t] <= MaxRefs

(***************************************************************************)
(* The mapping to RoofClient: a block whose clean call is still to come    *)
(* has not begun, and any other has recorded all of its references.        *)
(***************************************************************************)
Pending(t) == pc[t] \in {1, 2} /\ ~bb[t].excl

\* What is recorded for an instruction, and for instruction k and those after it.
RecordedFor(i) == IF Instrumented(i) THEN Entry(i) ELSE NoRefs
RefsFrom(code, k) ==
  [rd |-> SumFrom([n \in DOMAIN code |-> RecordedFor(code[n]).rd])[k],
   wr |-> SumFrom([n \in DOMAIN code |-> RecordedFor(code[n]).wr])[k]]
Without(r, s) == [rd |-> r.rd - s.rd, wr |-> r.wr - s.wr]

MappedBuffer(t) ==
  LET buffer == td[t].buffer IN
  IF pc[t] = 0 \/ (Pending(t) /\ pc[t] = 1) THEN buffer
  ELSE IF Pending(t) THEN Without(buffer, RecordedFor(Code[bb[t]][1]))
  ELSE AddRefs(buffer, RefsFrom(Code[bb[t]], IF pc[t] = 1 THEN 1 ELSE pc[t] - 1))

MappedData == [t \in Threads |-> [td[t] EXCEPT !.buffer = MappedBuffer(t)]]
MappedBlocks == blocks - Cardinality({t \in Threads : Pending(t)})

Coarse == INSTANCE RoofClient WITH td <- MappedData, blocks <- MappedBlocks

(***************************************************************************)
(* Blocks that run instruction by instruction, interleaved with those of   *)
(* other threads and with the callbacks that raise and lower in_roi, are   *)
(* counted as if each ran in one step at its clean call, and with the      *)
(* flops that the core does (event_app_instruction, clean_call).           *)
(***************************************************************************)
CoarseSpec == Coarse!Spec
===============================================================================
