------------------------------- MODULE RoiMeter -------------------------------
(***************************************************************************)
(* What the client promises about the thread that marks regions: a meter   *)
(* that is either measuring or not.  While it measures, it advances by     *)
(* exactly what the thread executes, no matter what anyone else does; each *)
(* region adds one entry to the report, or all of them add up to a single  *)
(* entry; and one document with the whole report is written when the       *)
(* thread exits.                                                           *)
(***************************************************************************)
EXTENDS Integers, Sequences

VARIABLES
  merged,     \* do all regions add up to one entry?
  ran,        \* what the thread has executed: an amount
  measuring,  \* is a region open?
  meas,       \* the amount measured for the entry to come
  report,     \* the amounts of the finished entries
  output      \* the documents written, by their place: none, then one

meter == <<merged, ran, measuring, meas, report, output>>

Zero == [flops |-> 0, bytes |-> 0, time |-> 0]
Plus(a, b) == [flops |-> a.flops + b.flops, bytes |-> a.bytes + b.bytes,
               time |-> a.time + b.time]
Minus(a, b) == [flops |-> a.flops - b.flops, bytes |-> a.bytes - b.bytes,
                time |-> a.time - b.time]

Init == /\ measuring = FALSE /\ meas = Zero /\ report = <<>> /\ output = <<>>
        /\ ran.flops = 0 /\ ran.bytes = 0

Begin == /\ ~measuring /\ measuring' /\ output = <<>>
         /\ meas' = Plus(IF merged THEN meas ELSE Zero, Minus(ran', ran))
         /\ UNCHANGED <<merged, report, output>>

Work == /\ measuring /\ meas' = Plus(meas, Minus(ran', ran))
        /\ UNCHANGED <<merged, measuring, report, output>>

Rest == /\ ~measuring
        /\ UNCHANGED <<merged, measuring, meas, report, output>>

End == /\ measuring /\ ~measuring'
       /\ IF merged THEN meas' = meas /\ report' = report
                    ELSE meas' = Zero /\ report' = Append(report, meas)
       /\ UNCHANGED <<merged, output>>

(***************************************************************************)
(* The thread exits.  A region left open is lost, except that a merged     *)
(* entry keeps it, without the references of its last block.               *)
(***************************************************************************)
Remainder(m) == /\ m.flops = meas.flops /\ m.bytes =< meas.bytes
                /\ m.time = meas.time
                /\ ~measuring => m = meas

Finish == /\ output = <<>> /\ ~measuring' /\ meas' = Zero
          /\ IF merged
             THEN /\ Len(report') = Len(report) + 1
                  /\ SubSeq(report', 1, Len(report)) = report
                  /\ Remainder(report'[Len(report')])
             ELSE report' = report
          /\ \E place \in DOMAIN output' : output' = [i \in {place} |-> report']
          /\ UNCHANGED <<merged, ran>>

Next == Begin \/ Work \/ Rest \/ End \/ Finish

Spec == Init /\ [][Next]_meter
=============================================================================
