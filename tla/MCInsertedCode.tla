---------------------------- MODULE MCInsertedCode ----------------------------
(***************************************************************************)
(* A small instance of InsertedCode for TLC: an Arm build.                 *)
(***************************************************************************)
EXTENDS InsertedCode, TLC

CONSTANTS a, f   \* characters

MCChar == {a, f}
MCLabels == {<<a>>}

NoMemory == [op |-> "other", dst |-> "s", vector |-> FALSE, width |-> 0,
             reads |-> FALSE, writes |-> FALSE, size |-> 0, exclusive_store |-> FALSE]
Load(n) == [NoMemory EXCEPT !.reads = TRUE, !.size = n]
Store(n) == [NoMemory EXCEPT !.writes = TRUE, !.size = n]
Swap(n) == [Load(n) EXCEPT !.writes = TRUE]
StoreExclusive(n) == [Store(n) EXCEPT !.exclusive_store = TRUE]
ScalarFma == [NoMemory EXCEPT !.op = "fused"]
Vector(i, w) == [i EXCEPT !.dst = "q", !.vector = TRUE, !.width = w]
VectorFma(w) == Vector(ScalarFma, w)
VectorAdd(w) == Vector([NoMemory EXCEPT !.op = "single"], w)

\* Arithmetic on what is loaded, then stored; an atomic update, followed by
\* arithmetic; the end of a loop around an exclusive store; and a delimiter.
Kernel == <<Load(2), VectorFma(2), Store(1)>>
Update == <<Swap(1), VectorAdd(3), ScalarFma>>
Release == <<StoreExclusive(1), Load(1)>>
Delimiter == <<Store(1), Load(1)>>

Bytes(l, s, u) == [loads |-> l, stores |-> s, updates |-> u]
KernelBlock == [fp |-> 8, head |-> Bytes(2, 0, 0), body |-> Bytes(0, 1, 0), excl |-> FALSE]
UpdateBlock == [fp |-> 4, head |-> Bytes(0, 0, 1), body |-> NoAppRefs, excl |-> FALSE]
ReleaseBlock == [fp |-> 0, head |-> Bytes(0, 1, 0), body |-> Bytes(1, 0, 0), excl |-> TRUE]
DelimiterBlock == [fp |-> 0, head |-> Bytes(0, 1, 0), body |-> Bytes(1, 0, 0), excl |-> FALSE]

MCBlocks == {KernelBlock, UpdateBlock, ReleaseBlock}
MCDelimBlocks == {DelimiterBlock}
MCCode == (KernelBlock :> Kernel @@ UpdateBlock :> Update @@ ReleaseBlock :> Release
           @@ DelimiterBlock :> Delimiter)

Plain == [trace_f |-> <<>>, roi_start |-> <<>>, roi_end |-> <<>>,
          calls_as_separate_roi |-> FALSE, time_run |-> FALSE,
          read_bytes_only |-> FALSE, write_bytes_only |-> FALSE]
Trace == [Plain EXCEPT !.trace_f = <<f>>]
MCOptions == {Plain, [Plain EXCEPT !.read_bytes_only = TRUE],
              [Trace EXCEPT !.write_bytes_only = TRUE],
              [Trace EXCEPT !.calls_as_separate_roi = TRUE]}
===============================================================================
