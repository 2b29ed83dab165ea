----------------------------- MODULE MCToolchain -----------------------------
(***************************************************************************)
(* Small instances of Toolchain for TLC.                                   *)
(***************************************************************************)
EXTENDS Toolchain

CONSTANTS alice, bob, carol,      \* shells
          d1, d2, d3, d4,         \* directories
          ls, ps, bin_ls,         \* applications, bin_ls under a path
          fp64, fp32,             \* rooflines
          p, q                    \* labels

Rec(app, d, n) == [cmd |-> "record", app |-> app, output |-> d, flops_only |-> FALSE,
                   time_only |-> FALSE, run_time_analysis |-> n]
FlopsOnly(c) == [c EXCEPT !.flops_only = TRUE]
TimeOnly(c) == [c EXCEPT !.time_only = TRUE]
Rep(inputs, lines, d) == [cmd |-> "report", input_dir |-> inputs, line |-> lines,
                          output_dir |-> d]
Ert(r) == [cmd |-> "record_ert", precision |-> r]

Out(labels, zero) == [labels |-> labels, zero |-> zero]
OneRegion == {Out(<<p>>, {})}
\* One region; and two, the first of them too short or without bytes.
MCOutcomes == {Out(<<p>>, {}), Out(<<p, q>>, {p})}

Roof(r) == [gnu |-> [by |-> <<alice, 0>>, precision |-> r], nested |-> NoFile]
HasFp64 == [r \in Rooflines |-> IF r = fp64 THEN Roof(r) ELSE NoFile]

NoDirs == [d \in Dirs |-> NoDirectory]
Recording(app, labels, by) ==
  LET doc(run) == [by |-> by, run |-> run, app |-> app, labels |-> labels,
                   zero |-> {}]
  IN [NoDirectory EXCEPT !.exists = TRUE, !.meta = <<app>>,
                         !.counts = doc(1), !.times = doc(2)]

\* Two users record into directories of the same name while a third reports.
RecordCommands ==
  (alice :> {Rec(ls, d1, 2)}
   @@ bob :> {Rec(ps, d1, 1), TimeOnly(Rec(ps, d1, 2)), FlopsOnly(Rec(ps, d2, 1))}
   @@ carol :> {Rep(<<d1>>, <<fp64>>, NoDir), Rep(<<d1>>, <<fp64>>, d2)})

\* Reports of finished recordings over one to three rooflines, while another
\* recording is made and a roofline is measured.
ReportDirs == [d \in Dirs |-> IF d = d1 THEN Recording(ls, <<p, q>>, <<alice, 0>>)
                              ELSE IF d = d2 THEN Recording(ps, <<q>>, <<bob, 0>>)
                              ELSE IF d = d4 THEN Recording(bin_ls, <<q>>, <<bob, 9>>)
                              ELSE NoDirectory]
ReportCommands ==
  (alice :> {Rep(<<d1>>, <<fp64, fp32, fp64>>, NoDir), Rep(<<d2>>, <<fp64, fp32>>, d3),
             Rep(<<d1, d2>>, <<fp32, fp64>>, d1), Rep(<<d1, d2>>, <<fp64>>, NoDir),
             Rep(<<d1, d4>>, <<fp64>>, d3), Rep(<<d3>>, <<fp64>>, NoDir)}
   @@ bob :> {Rec(ps, d3, 1), Ert(fp32)})

\* Two recordings of one application in one report.
SameAppDirs == [d \in Dirs |-> IF d = d1 THEN Recording(ls, <<p>>, <<alice, 0>>)
                               ELSE IF d = d2 THEN Recording(ls, <<p, q>>, <<bob, 0>>)
                               ELSE NoDirectory]
SameAppCommands == (alice :> {Rep(<<d1, d2>>, <<fp64>>, d3)} @@ bob :> {})

\* A roofline that is there is measured again; one user measures all rooflines;
\* two users measure at once.
ErtCommands == (alice :> {Ert(fp64)})
NoRooflines == [r \in Rooflines |-> NoFile]
AllErtCommands == (alice :> {Ert(fp64), Ert(fp32)})
TwoErtCommands == (alice :> {Ert(fp64)} @@ bob :> {Ert(fp32)})
=============================================================================
