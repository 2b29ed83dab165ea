---------------------------- MODULE RoofClientMeter ----------------------------
(***************************************************************************)
(* The client is a meter for Main: the refinement mapping from RoofClient  *)
(* to RoiMeter.                                                            *)
(***************************************************************************)
EXTENDS RoofClient

Running == phase[Main] = "running"
Measuring == Running /\ OpenRegions > 0
Current == td[Main].cur_point

\* References recorded in the buffer that the next clean call will add.
Pending == IF Measuring THEN td[Main].buffer.rd + td[Main].buffer.wr ELSE 0

Elapsed == IF ~opt.time_run THEN 0
           ELSE (IF Measuring THEN now ELSE Current.end) - Current.start

Meas == IF Running
        THEN [flops |-> Current.flops, bytes |-> Current.bytes + Pending, time |-> Elapsed]
        ELSE [flops |-> 0, bytes |-> 0, time |-> 0]

\* A run gathers either times or flops and bytes.
Executed == IF opt.time_run THEN [flops |-> 0, bytes |-> 0, time |-> now]
            ELSE [flops |-> ran.flops, bytes |-> ran.bytes, time |-> 0]

\* A <point> element as an amount, and a document as a report.
Amount(e) == IF opt.time_run THEN [flops |-> 0, bytes |-> 0, time |-> e.time]
             ELSE [flops |-> e.flops, bytes |-> e.bytes, time |-> 0]
Report(points) == [i \in DOMAIN points |-> Amount(points[i])]

\* The places of Main's documents in the file.
MainDocuments == {i \in DOMAIN out_file : out_file[i].tid = Main}

Meter == INSTANCE RoiMeter WITH
  merged <- Merged(opt),
  ran <- Executed,
  measuring <- Measuring,
  meas <- Meas,
  report <- Report(SaveToFile(Points, opt.time_run)),
  output <- [i \in MainDocuments |-> Report(out_file[i].points)]

(***************************************************************************)
(* What the delimiters and blocks of the application must be like for the  *)
(* measurement to be exact.  A delimiter is an empty function: it has no   *)
(* floating point, and the first instruction of its blocks is no exclusive *)
(* store.  A block that starts with an exclusive store, and gets no clean  *)
(* call, has no floating point.  Calls that are merged are not timed.      *)
(***************************************************************************)
Exact ==
  /\ \A b \in DelimBlocks : b.fp = 0 /\ ~b.excl
  /\ \A b \in Blocks : b.excl => b.fp = 0
  /\ \A o \in Options : Merged(o) => ~o.time_run

(***************************************************************************)
(* The report of Main's document says exactly what Main executed between   *)
(* its start and end callbacks: flops and wanted bytes, or the time they   *)
(* took.  Nothing executed outside a region, by another region or by       *)
(* another thread is counted, and nothing is counted twice or lost on its  *)
(* way through the buffer (clean_call, save_bytes, new_point, save_point,  *)
(* save_to_file).                                                          *)
(***************************************************************************)
MeterSpec == Meter!Spec

(***************************************************************************)
(* Another call of a function whose calls are merged into a single region  *)
(* adds to the time of that region (event_roi_init: all executions are     *)
(* merged).  The code sets the start time again.                           *)
(***************************************************************************)
MergedTimeKept == [][RoiInitMerged => Elapsed' = Elapsed]_vars
=============================================================================
