----------------------------- MODULE MCRoofClient -----------------------------
(***************************************************************************)
(* Small instances of RoofClient for TLC.                                  *)
(***************************************************************************)
EXTENDS RoofClientMeter

CONSTANTS a, b, f   \* characters

MCChar == {a, b, f}

Bytes(l, s, u) == [loads |-> l, stores |-> s, updates |-> u]
NoBytes == Bytes(0, 0, 0)

\* Blocks: arithmetic that loads first; an exclusive store first; and no
\* memory reference in the first instruction.
Kernel == [fp |-> 1, head |-> Bytes(1, 0, 0), body |-> Bytes(0, 2, 1), excl |-> FALSE]
Release == [fp |-> 0, head |-> Bytes(0, 1, 0), body |-> Bytes(1, 0, 0), excl |-> TRUE]
MCBlocks == {Kernel, Release}

\* A delimiter pushes a register and returns.
Delim == [fp |-> 0, head |-> Bytes(0, 1, 0), body |-> Bytes(1, 0, 0), excl |-> FALSE]
MCDelimBlocks == {Delim}

Plain == [trace_f |-> <<>>, roi_start |-> <<>>, roi_end |-> <<>>,
          calls_as_separate_roi |-> FALSE, time_run |-> FALSE,
          read_bytes_only |-> FALSE, write_bytes_only |-> FALSE]
Names == [Plain EXCEPT !.roi_start = <<b>>, !.roi_end = <<f>>]
Trace == [Plain EXCEPT !.trace_f = <<f>>]
Separate == [Trace EXCEPT !.calls_as_separate_roi = TRUE]

MCLabels == {<<a>>, <<b>>}
\* Every mode, and one that get_label_and_assign_id aborts in.
MCOptions ==
  {Plain, [Plain EXCEPT !.time_run = TRUE], Names, Trace, Separate,
   [Separate EXCEPT !.time_run = TRUE],
   [Plain EXCEPT !.read_bytes_only = TRUE], [Trace EXCEPT !.write_bytes_only = TRUE],
   [Plain EXCEPT !.calls_as_separate_roi = TRUE]}
PlainOptions == {Plain}
TraceOptions == {Trace}
TraceTimeOptions == {[Trace EXCEPT !.time_run = TRUE]}
NumberedLabels == {<<a>>, <<a, 1>>}   \* "a" and "a1"
=============================================================================
