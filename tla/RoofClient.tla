------------------------------ MODULE RoofClient ------------------------------
(***************************************************************************)
(* The DynamoRIO client (client/main.cpp): the callbacks the framework and *)
(* drwrap run, the code inserted in the application's basic blocks, and    *)
(* the static data they share.                                             *)
(*                                                                         *)
(* The application is any sequence of basic blocks, calls of the delimiter *)
(* functions and exits.  Main is the one thread that calls the delimiters  *)
(* (or the traced function); the others only execute blocks, but in_roi is *)
(* shared and they read it.                                                *)
(*                                                                         *)
(* External, as the client relies on it: the inserted code of the client   *)
(* runs before the code drwrap inserts in the same block, so that clean_   *)
(* call precedes the pre callback in the first block of a wrapped function *)
(* and the post callback in the block its call returns to.  DR_ASSERT      *)
(* aborts in a debug build and does nothing in a release build.            *)
(***************************************************************************)
EXTENDS ThreadData

CONSTANTS
  Threads,      \* the application's threads
  Main,         \* the thread that calls the delimiters
  DebugBuild,   \* is the client built with DR_ASSERT?
  Options,      \* the command lines of the client
  Labels,       \* the labels that the application gives to its regions
  Blocks,       \* the basic blocks of the application
  DelimBlocks,  \* the blocks that a delimiter's call or return leads to
  MaxDepth,     \* bound: regions that may be open at the same time
  MaxBlocks,    \* bound: basic blocks executed
  MaxTime       \* bound: the clock

AppRefs == [loads : Nat, stores : Nat, updates : Nat]   \* bytes; updates do both
Block == [fp : Nat, head : AppRefs, body : AppRefs, excl : BOOLEAN]
NoAppRefs == [loads |-> 0, stores |-> 0, updates |-> 0]
NoBlock == [fp |-> 0, head |-> NoAppRefs, body |-> NoAppRefs, excl |-> FALSE]
Option == [trace_f : Text, roi_start : Text, roi_end : Text,
           calls_as_separate_roi : BOOLEAN, time_run : BOOLEAN,
           read_bytes_only : BOOLEAN, write_bytes_only : BOOLEAN]

\* The assertions of dr_client_main on its command line.
Consistent(o) ==
  /\ o.roi_start # <<>> \/ o.roi_end # <<>>
       => o.roi_start # <<>> /\ o.roi_end # <<>> /\ o.trace_f = <<>>
  /\ o.trace_f # <<>> => o.roi_start = <<>> /\ o.roi_end = <<>>

ASSUME ThreadsAssumption == Main \in Threads
ASSUME OptionsAssumption ==
  /\ DebugBuild \in BOOLEAN
  /\ Options \subseteq {o \in Option : DebugBuild => Consistent(o)}
ASSUME LabelsAssumption == Labels \subseteq Text
ASSUME BlocksAssumption == Blocks \subseteq Block /\ DelimBlocks \subseteq Block
ASSUME BoundsAssumption == MaxDepth \in Nat /\ MaxBlocks \in Nat /\ MaxTime \in Nat

VARIABLES
  opt,                 \* the command line, fixed when the client starts
  process,             \* "running", "exiting", "exited" or "aborted"
  in_roi, roi_start_detected, roi_end_detected,
  new_point_only_once, \* static variable of event_roi_init
  id, last_seen,       \* static variables of get_label_and_assign_id
  phase,               \* phase[t]: "unborn", "running" or "exited"
  td,                  \* td[t]: the ThreadData of t
  at, block,           \* Main is in the application, or in a block that ran
                       \* clean_call and is about to run the callback
  open,                \* the labels of Main's open regions, innermost first
  ran,                 \* flops and wanted bytes Main has really executed
  out_file,            \* the documents written so far
  now, blocks          \* the clock; blocks executed by the application

statics == <<roi_start_detected, roi_end_detected, new_point_only_once, id, last_seen>>
app == <<at, block, open, ran>>
vars == <<opt, process, in_roi, statics, phase, td, app, out_file, now, blocks>>
-----------------------------------------------------------------------------
(***************************************************************************)
(* The inserted code.  event_app_instruction instruments the references    *)
(* that the options ask for; instrument_instr gives an instruction that    *)
(* both reads and writes the type 0, read.                                 *)
(***************************************************************************)
Recorded(o, r) ==
  [rd |-> r.updates + IF o.write_bytes_only /\ ~o.read_bytes_only THEN 0 ELSE r.loads,
   wr |-> IF o.read_bytes_only THEN 0 ELSE r.stores]

\* What the options ask for, in terms of the application.
Wanted(o, r) ==
  r.updates + (IF o.write_bytes_only /\ ~o.read_bytes_only THEN 0 ELSE r.loads)
            + (IF o.read_bytes_only THEN 0 ELSE r.stores)

\* clean_call as it would be if it left the buffer alone outside a region.
CleanCall_KeepsBuffer(d, n) ==
  IF in_roi THEN SaveBytes(SaveFloatingPoints(d, n)) ELSE d

\* clean_call.
CleanCall(d, n) ==
  IF in_roi THEN SaveBytes(SaveFloatingPoints(d, n)) ELSE CleanBuffer(d)

(***************************************************************************)
(* A block up to its clean call, and the rest of it.  The first            *)
(* instruction's reference is recorded before the clean call, which is not *)
(* inserted before an exclusive store (AArch64).  A timing run inserts     *)
(* nothing.                                                                *)
(***************************************************************************)
BlockEntry(d, b) ==
  IF opt.time_run THEN d
  ELSE LET d1 == Record(d, Recorded(opt, b.head))
       IN IF b.excl THEN d1 ELSE CleanCall(d1, b.fp)

BlockRest(d, b) == IF opt.time_run THEN d ELSE Record(d, Recorded(opt, b.body))

RanEntry(b) == [ran EXCEPT !.bytes = @ + Wanted(opt, b.head)]
RanRest(b) == [ran EXCEPT !.bytes = @ + Wanted(opt, b.body), !.flops = @ + b.fp]
RanBlock(b) == [ran EXCEPT !.bytes = @ + Wanted(opt, b.head) + Wanted(opt, b.body),
                           !.flops = @ + b.fp]
-----------------------------------------------------------------------------
Init ==
  /\ opt \in Options
  /\ process = "running"
  /\ in_roi = FALSE /\ roi_start_detected = 0 /\ roi_end_detected = 0
  /\ new_point_only_once = FALSE /\ id = 1 /\ last_seen = <<>>
  /\ phase = [t \in Threads |-> "unborn"]
  /\ td = [t \in Threads |-> NewThreadData]
  /\ at = "app" /\ block = NoBlock /\ open = <<>>
  /\ ran = [flops |-> 0, bytes |-> 0]
  /\ out_file = <<>> /\ now = 1 /\ blocks = 0

\* event_thread_init.  The first thread is Main; threads create the others.
ThreadInit(t) ==
  /\ process = "running" /\ phase[t] = "unborn"
  /\ t = Main \/ \E u \in Threads : phase[u] = "running"
  /\ phase' = [phase EXCEPT ![t] = "running"]
  /\ td' = [td EXCEPT ![t] = NewThreadData]
  /\ UNCHANGED <<opt, process, in_roi, statics, app, out_file, now, blocks>>

\* gettimeofday moves on.
Tick ==
  /\ process = "running" /\ opt.time_run /\ now < MaxTime
  /\ now' = now + 1
  /\ UNCHANGED <<opt, process, in_roi, statics, phase, td, app, out_file, blocks>>

CanExecute(t) == /\ process = "running" /\ phase[t] = "running"
                 /\ t = Main => at = "app"
                 /\ blocks < MaxBlocks

\* An ordinary basic block of the application.
ExecuteBlock(t, b) ==
  /\ CanExecute(t) /\ ~opt.time_run
  /\ td' = [td EXCEPT ![t] = BlockRest(BlockEntry(@, b), b)]
  /\ ran' = IF t = Main THEN RanBlock(b) ELSE ran
  /\ blocks' = blocks + 1
  /\ UNCHANGED <<opt, process, in_roi, statics, phase, at, block, open, out_file, now>>

\* Main enters the start delimiter, or the traced function.
EnterStart(b, label) ==
  /\ CanExecute(Main) /\ Len(open) < MaxDepth
  /\ td' = [td EXCEPT ![Main] = BlockEntry(@, b)]
  /\ ran' = RanEntry(b)
  /\ at' = "init" /\ block' = b /\ open' = <<label>> \o open
  /\ blocks' = blocks + 1
  /\ UNCHANGED <<opt, process, in_roi, statics, phase, out_file, now>>

\* Main enters the end delimiter, or the block the traced function returns to.
EnterEnd(b) ==
  /\ process = "running" /\ phase[Main] = "running" /\ at = "app"
  /\ open # <<>>
  /\ td' = [td EXCEPT ![Main] = BlockEntry(@, b)]
  /\ ran' = RanEntry(b)
  /\ at' = "end" /\ block' = b
  /\ UNCHANGED <<opt, process, in_roi, statics, phase, open, out_file, now, blocks>>
-----------------------------------------------------------------------------
Merged(o) == ~o.calls_as_separate_roi /\ o.trace_f # <<>>

\* get_label: the option's value, or the string the application passed.
GetLabel(user_defined, arg) == IF user_defined # <<>> THEN user_defined ELSE arg

\* get_label_and_assign_id: the label it returns and what it does to its
\* static variables.
AssignedLabel == WithNumber(opt.trace_f, id)
\* The static variables as they would be if every call took a new number.
AssignId_Always ==
  /\ last_seen' = AssignedLabel
  /\ id' = id + 1
AssignId ==
  IF last_seen = AssignedLabel THEN id' = id + 1 /\ UNCHANGED last_seen
                               ELSE last_seen' = AssignedLabel /\ UNCHANGED id

\* Back in the application after a callback: the rest of the block runs.
Resume == at' = "app" /\ ran' = RanRest(block) /\ block' = NoBlock

StartTime(d) == IF opt.time_run THEN SetTimeStart(d, now) ELSE d
StopTime(d) == IF opt.time_run THEN SetTimeEnd(d, now) ELSE d

InCallback(pc) == process = "running" /\ phase[Main] = "running" /\ at = pc

\* The whole of event_roi_init when d is Main's data with its point started.
RoiInit(d) ==
  /\ in_roi' = TRUE /\ roi_start_detected' = roi_start_detected + 1
  /\ td' = [td EXCEPT ![Main] = BlockRest(StartTime(d), block)]
  /\ Resume
  /\ UNCHANGED <<opt, process, roi_end_detected, phase, open, out_file, now, blocks>>

\* event_roi_init when all calls of the traced function are one region: the
\* point is initialised the first time only.
RoiInitMerged ==
  /\ InCallback("init") /\ Merged(opt)
  /\ RoiInit(IF new_point_only_once THEN td[Main]
             ELSE NewPoint(td[Main], GetLabel(opt.trace_f, Head(open))))
  /\ new_point_only_once' = TRUE
  /\ UNCHANGED <<id, last_seen>>

\* event_roi_init when every call is a region of its own.
RoiInitSeparate ==
  /\ InCallback("init") /\ opt.calls_as_separate_roi
  /\ DebugBuild => opt.trace_f # <<>>
  /\ RoiInit(NewPoint(td[Main], AssignedLabel))
  /\ AssignId
  /\ UNCHANGED new_point_only_once

\* The assertion of get_label_and_assign_id fails.
RoiInitAbort ==
  /\ InCallback("init") /\ opt.calls_as_separate_roi
  /\ DebugBuild /\ opt.trace_f = <<>>
  /\ process' = "aborted" /\ in_roi' = TRUE
  /\ roi_start_detected' = roi_start_detected + 1
  /\ UNCHANGED <<opt, roi_end_detected, new_point_only_once, id, last_seen,
                 phase, td, app, out_file, now, blocks>>

\* event_roi_init for the delimiter functions.
RoiInitDelimiter ==
  /\ InCallback("init") /\ ~opt.calls_as_separate_roi /\ opt.trace_f = <<>>
  /\ RoiInit(NewPoint(td[Main], GetLabel(opt.roi_start, Head(open))))
  /\ UNCHANGED <<new_point_only_once, id, last_seen>>

\* symbol_roi_end and event_roi_end if they left the flag up.
RoiEnd_KeepsFlag(d) ==
  /\ UNCHANGED in_roi /\ roi_end_detected' = roi_end_detected + 1
  /\ td' = [td EXCEPT ![Main] = BlockRest(d, block)]
  /\ open' = Tail(open)
  /\ Resume
  /\ UNCHANGED <<opt, process, roi_start_detected, new_point_only_once, phase,
                 out_file, now, blocks>>

\* The whole of symbol_roi_end and event_roi_end when d is Main's data with
\* its point stopped, and saved if it is to be.
RoiEnd(d) ==
  /\ in_roi' = FALSE /\ roi_end_detected' = roi_end_detected + 1
  /\ td' = [td EXCEPT ![Main] = BlockRest(d, block)]
  /\ open' = Tail(open)
  /\ Resume
  /\ UNCHANGED <<opt, process, roi_start_detected, new_point_only_once, phase,
                 out_file, now, blocks>>

\* event_roi_end if it took the name of the end delimiter for the label.
EventRoiEnd_EndName ==
  /\ InCallback("end") /\ opt.trace_f = <<>>
  /\ RoiEnd(SavePoint(StopTime(td[Main]), GetLabel(opt.roi_end, Head(open))))
  /\ UNCHANGED <<id, last_seen>>

\* event_roi_end, installed when there is no traced function.
EventRoiEnd ==
  /\ InCallback("end") /\ opt.trace_f = <<>>
  /\ RoiEnd(SavePoint(StopTime(td[Main]), GetLabel(opt.roi_start, Head(open))))
  /\ UNCHANGED <<id, last_seen>>

\* symbol_roi_end, the post callback of the traced function: a call that is
\* a region of its own is saved,
SymbolRoiEndSeparate ==
  /\ InCallback("end") /\ opt.trace_f # <<>> /\ opt.calls_as_separate_roi
  /\ RoiEnd(SavePoint(StopTime(td[Main]), AssignedLabel))
  /\ AssignId

\* and one that is merged with the others is not.
SymbolRoiEndMerged ==
  /\ InCallback("end") /\ Merged(opt)
  /\ RoiEnd(StopTime(td[Main]))
  /\ UNCHANGED <<id, last_seen>>
-----------------------------------------------------------------------------
\* A thread calls exit: the whole process stops where it is.
ExitGroup(t) ==
  /\ process = "running" /\ phase[t] = "running"
  /\ t = Main => at = "app"
  /\ process' = "exiting"
  /\ UNCHANGED <<opt, in_roi, statics, phase, td, app, out_file, now, blocks>>

FinalData(d) == IF Merged(opt) THEN SavePoint(d, opt.trace_f) ELSE d

\* event_thread_exit: every thread writes a document of its own.
ThreadExit(t) ==
  /\ process \in {"running", "exiting"} /\ phase[t] = "running"
  /\ process = "running" /\ t = Main => at = "app"
  /\ phase' = [phase EXCEPT ![t] = "exited"]
  /\ td' = [td EXCEPT ![t] = FinalData(@)]
  /\ out_file' = Append(out_file,
       [tid |-> t, points |-> SaveToFile(FinalData(td[t]).point_list, opt.time_run)])
  /\ UNCHANGED <<opt, process, in_roi, statics, app, now, blocks>>

\* The assertions if they asked for a second region.
ExitAssertions_Second == /\ roi_start_detected > 1
                         /\ roi_end_detected > 0
                         /\ roi_start_detected = roi_end_detected

\* event_exit: its three assertions on what was detected.
ExitAssertions == /\ roi_start_detected > 0
                  /\ roi_end_detected > 0
                  /\ roi_start_detected = roi_end_detected

EventExit ==
  /\ process \in {"running", "exiting"}
  /\ phase[Main] # "unborn" /\ \A t \in Threads : phase[t] # "running"
  /\ process' = IF DebugBuild /\ ~ExitAssertions THEN "aborted" ELSE "exited"
  /\ UNCHANGED <<opt, in_roi, statics, phase, td, app, out_file, now, blocks>>

Terminated == process \in {"exited", "aborted"} /\ UNCHANGED vars

Next ==
  \/ \E t \in Threads : \/ ThreadInit(t)
                        \/ \E b \in Blocks : ExecuteBlock(t, b)
                        \/ ExitGroup(t)
                        \/ ThreadExit(t)
  \/ Tick
  \/ \E b \in DelimBlocks : (\E l \in Labels : EnterStart(b, l)) \/ EnterEnd(b)
  \/ RoiInitMerged \/ RoiInitSeparate \/ RoiInitAbort \/ RoiInitDelimiter
  \/ EventRoiEnd \/ SymbolRoiEndSeparate \/ SymbolRoiEndMerged
  \/ EventExit
  \/ Terminated

Spec == Init /\ [][Next]_vars
-----------------------------------------------------------------------------
Points == td[Main].point_list

\* The regions that are open as far as the callbacks go.
OpenRegions == Len(open) - IF at = "init" THEN 1 ELSE 0

(***************************************************************************)
(* Every variable holds a value of its type.                               *)
(***************************************************************************)
TypeOK ==
  /\ opt \in Options
  /\ process \in {"running", "exiting", "exited", "aborted"}
  /\ in_roi \in BOOLEAN /\ new_point_only_once \in BOOLEAN
  /\ roi_start_detected \in Nat /\ roi_end_detected \in Nat
  /\ id \in Nat \ {0} /\ last_seen \in Text
  /\ phase \in [Threads -> {"unborn", "running", "exited"}]
  /\ td \in [Threads -> ThreadDataType]
  /\ at \in {"app", "init", "end"} /\ block \in DelimBlocks \cup {NoBlock}
  /\ open \in Seq(Labels)
  /\ ran \in [flops : Nat, bytes : Nat]
  /\ out_file \in Seq([tid : Threads, points : Seq(Element)])
  /\ now \in Nat \ {0} /\ blocks \in Nat

(***************************************************************************)
(* The flag that every thread's clean calls read is up exactly while Main  *)
(* is between a start callback and the matching end callback.              *)
(***************************************************************************)
RoiFlagTracksRegion == process # "aborted" => (in_roi <=> OpenRegions > 0)

(***************************************************************************)
(* With calls_as_separate_roi the i-th finished call is labelled with the  *)
(* function's name and i, although the number is assigned by a counter     *)
(* that start and end callbacks step in turns.                             *)
(***************************************************************************)
SeparateCallsNumbered ==
  opt.calls_as_separate_roi /\ opt.trace_f # <<>> =>
    \A i \in DOMAIN Points : Points[i].label = WithNumber(opt.trace_f, i)

(***************************************************************************)
(* An application that ends a region with the label it was started with is *)
(* never warned about its labels, except that a traced function which was  *)
(* not called is reported under an empty label.                            *)
(***************************************************************************)
NoLabelWarning == td[Main].warned => Merged(opt) /\ ~new_point_only_once

(***************************************************************************)
(* No two points of a document have the same name: the report refuses a    *)
(* document where they have (roofline.py, get_points).                     *)
(***************************************************************************)
NamesUnique ==
  \A d \in DOMAIN out_file :
    LET points == out_file[d].points
    IN \A i, j \in DOMAIN points : points[i].label = points[j].label => i = j

(***************************************************************************)
(* event_exit accuses only an application that left a region open or never *)
(* opened one.                                                             *)
(***************************************************************************)
AbortMeansIncomplete ==
  process = "aborted" => open # <<>> \/ roi_start_detected = 0

(***************************************************************************)
(* What documents and comments say that the code does not do in general.   *)
(***************************************************************************)

(***************************************************************************)
(* The bytes of a point are those its region read and those it wrote       *)
(* (point.hpp: a point is the data of one region).                         *)
(***************************************************************************)
PointBytesSplit ==
  \A i \in DOMAIN Points : Points[i].bytes = Points[i].read_bytes + Points[i].write_bytes

(***************************************************************************)
(* While a call of the traced function is active, what Main executes is    *)
(* taken into account (roofline.py: its whole execution is the region).    *)
(***************************************************************************)
WholeExecutionTraced ==
  opt.trace_f # <<>> /\ process = "running" /\ OpenRegions > 0 => in_roi
=============================================================================
