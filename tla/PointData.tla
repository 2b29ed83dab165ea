------------------------------ MODULE PointData ------------------------------
(***************************************************************************)
(* class Point (client/point.hpp, client/point.cpp): what is gathered for  *)
(* one region of interest.  A point is a record; each method of the class  *)
(* is an operator from the old record to the new one.                      *)
(*                                                                         *)
(* A std::string is the sequence of its characters, of which the digits    *)
(* are the numbers 0 to 9, so that "f" + "1" and the name "f1" are one     *)
(* text, and so are "f1" + "1" and "f" + "11".  The source lines and files *)
(* of a point are copied from the call's arguments to the report and are   *)
(* left out.                                                               *)
(***************************************************************************)
EXTENDS Integers, Sequences

CONSTANT Char   \* the characters names are made of (digits excluded)

Digit == 0 .. 9
Text == Seq(Char \cup Digit)

\* std::to_string of a number: its decimal digits.
Numeral[n \in Nat] ==
  IF n < 10 THEN <<n>> ELSE Append(Numeral[n \div 10], n % 10)

WithNumber(s, n) == s \o Numeral[n]

(***************************************************************************)
(* A summary of memory references in the trace buffer: how many bytes were *)
(* recorded with type 0 (read) and how many with type 1 (write).           *)
(***************************************************************************)
Refs == [rd : Nat, wr : Nat]
NoRefs == [rd |-> 0, wr |-> 0]
AddRefs(a, b) == [rd |-> a.rd + b.rd, wr |-> a.wr + b.wr]

Point == [label : Text, flops : Nat, bytes : Nat, read_bytes : Nat,
          write_bytes : Nat, start : Nat, end : Nat]

\* The constructor as it would be if it left flops uninitialised.
InitPoint_Uninitialised ==
  [label |-> <<>>, flops |-> -1, bytes |-> 0, read_bytes |-> 0,
   write_bytes |-> 0, start |-> 0, end |-> 0]

\* Point::Point
InitPoint == [label |-> <<>>, flops |-> 0, bytes |-> 0, read_bytes |-> 0,
              write_bytes |-> 0, start |-> 0, end |-> 0]

\* Point::reset.  It leaves read_bytes and write_bytes as they are.
Reset(p) == [p EXCEPT !.label = <<>>, !.flops = 0, !.bytes = 0,
                      !.start = 0, !.end = 0]

\* update_bytes, update_read_bytes and update_write_bytes, for every
\* reference that the summary r stands for.
UpdateBytes(p, r) == [p EXCEPT !.bytes = @ + r.rd + r.wr,
                               !.read_bytes = @ + r.rd,
                               !.write_bytes = @ + r.wr]

UpdateFpCount(p, n) == [p EXCEPT !.flops = @ + n]

Element == [label : Text, time : Int]
  \cup [label : Text, flops : Nat, bytes : Nat, read_bytes : Nat, write_bytes : Nat]

(***************************************************************************)
(* Point::dump_info: the <point> element written for p under a given name. *)
(* A timing run reports the elapsed time, any other run the counters.      *)
(***************************************************************************)
DumpInfo(p, name, time_run) ==
  IF time_run
  THEN [label |-> name, time |-> p.end - p.start]
  ELSE [label |-> name, flops |-> p.flops, bytes |-> p.bytes,
        read_bytes |-> p.read_bytes, write_bytes |-> p.write_bytes]
==============================================================================
