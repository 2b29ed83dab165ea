------------------------------ MODULE ThreadData ------------------------------
(***************************************************************************)
(* class ThreadData (client/thread_data.hpp, client/thread_data.cpp): what *)
(* the client keeps for one application thread.  It is the point being     *)
(* gathered, the buffer of memory references that the instrumentation has  *)
(* recorded since the last clean call, and the list of finished points.    *)
(* A thread's data is a record and each method an operator on it.          *)
(*                                                                         *)
(* The buffer is the summary of its entries; save_bytes adds every entry   *)
(* between buf_base and the TLS buffer pointer and then moves the pointer  *)
(* back.  "warned" remembers that save_point printed its warning.          *)
(***************************************************************************)
EXTENDS PointData, FiniteSets

ThreadDataType == [cur_point : Point, buffer : Refs, point_list : Seq(Point),
                   warned : BOOLEAN]

\* ThreadData::ThreadData
NewThreadData == [cur_point |-> InitPoint, buffer |-> NoRefs,
                  point_list |-> <<>>, warned |-> FALSE]

\* The inline code inserted before a memory instruction: store an entry,
\* advance the buffer pointer.
Record(d, r) == [d EXCEPT !.buffer = AddRefs(@, r)]

SaveFloatingPoints(d, n) == [d EXCEPT !.cur_point = UpdateFpCount(@, n)]

\* save_bytes as it would be if it did not rewind the buffer pointer.
SaveBytes_NoRewind(d) == [d EXCEPT !.cur_point = UpdateBytes(@, d.buffer)]
SaveBytes(d) == [d EXCEPT !.cur_point = UpdateBytes(@, d.buffer),
                          !.buffer = NoRefs]

CleanBuffer(d) == [d EXCEPT !.buffer = NoRefs]

SetTimeStart(d, now) == [d EXCEPT !.cur_point.start = now]
SetTimeEnd(d, now) == [d EXCEPT !.cur_point.end = now]

NewPoint(d, label) == [d EXCEPT !.cur_point = [Reset(@) EXCEPT !.label = label]]

SavePoint(d, label) ==
  [d EXCEPT !.point_list = Append(@, d.cur_point),
            !.cur_point = Reset(@),
            !.warned = @ \/ (d.cur_point.label # label /\ label # <<>>)]

(***************************************************************************)
(* save_to_file: the first point with a label is written under the label   *)
(* itself, the n-th further one under label + n.  execution_count is the   *)
(* number of points with that label met so far.                            *)
(***************************************************************************)
ExecutionCount(list, i) ==
  Cardinality({j \in 1 .. (i - 1) : list[j].label = list[i].label})

\* Names as they would be if execution_count were not incremented.
DumpName_StuckCount(list, i) ==
  IF ExecutionCount(list, i) = 0 THEN list[i].label
  ELSE WithNumber(list[i].label, 1)

DumpName(list, i) ==
  IF ExecutionCount(list, i) = 0 THEN list[i].label
  ELSE WithNumber(list[i].label, ExecutionCount(list, i))

SaveToFile(list, time_run) ==
  [i \in 1 .. Len(list) |-> DumpInfo(list[i], DumpName(list, i), time_run)]
===============================================================================
