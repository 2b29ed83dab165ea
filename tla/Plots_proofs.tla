------------------------------ MODULE Plots_proofs ------------------------------
(***************************************************************************)
(* Proofs about the plot that a report leaves, for any number of users and *)
(* directories: it has the rooflines that were asked for and the label of  *)
(* every point of every input.                                             *)
(*                                                                         *)
(* Two reports of different users with one output directory edit one       *)
(* gnuplot file, and neither result holds of them.  The theorems assume    *)
(* SeparateReports; everything else, recordings into the inputs and        *)
(* changes of the database included, may go on beside a report.            *)
(***************************************************************************)
EXTENDS Titles_proofs

\* The output directory of a report, and that no two users share one.
ReportDir(c) == IF c.output_dir = NoDir THEN Head(c.input_dir) ELSE c.output_dir
SeparateReports ==
  \A s, r \in Shells : \A c \in Commands[s], b \in Commands[r] :
    /\ c.cmd = "report" /\ c.input_dir # <<>>
    /\ b.cmd = "report" /\ b.input_dir # <<>>
    /\ ReportDir(c) = ReportDir(b)
    => s = r

Finished(s) == At(s, "rest") /\ Done(s, "report")
\* A shell has a plot from the first step of its report that draws something.
Shows(s) == sh[s].pc \in PlotPcs \/ Finished(s)
Reported(s) ==
  Shows(s) =>
    /\ Args(s) \in Commands[s] /\ Args(s) \in ReportCommand
    /\ Inputs(s) # <<>> /\ Lines(s) # <<>> /\ Output_(s) \in Dirs

\* What the database had at first stays in its place.
EntriesStay ==
  \A r \in Rooflines : InitialRooflines[r] # NoFile =>
    rooflines[r] # NoFile /\ rooflines[r].gnu = InitialRooflines[r].gnu
\* The further rooflines of a report have been there since before it.
FurtherThere(s) == \A l \in FurtherLines(s) : InitialRooflines[l] # NoFile
\* What has been read of a roofline, and that a plot has it.
IsOf(source, l) == rooflines[l] # NoFile /\ source = <<rooflines[l].gnu>>
HasLine(s, l) == rooflines[l] # NoFile /\ rooflines[l].gnu \in Range(Plot(s).lines)
\* The script at a report's next step: how it ends, and the rooflines it has.
LinesDrawn(s) ==
  Shows(s) /\ FurtherThere(s) =>
    LET pc == sh[s].pc
    IN /\ pc = "roofline" => IsOf(sh[s].source, Lines(s)[1])
       /\ pc = "append" => IsOf(sh[s].source, Lines(s)[2])
       /\ pc # "roofline" =>
            /\ HasLine(s, Lines(s)[1])
            /\ Plot(s).end = IF pc \in {"tail", "append"} THEN "continued" ELSE "complete"
       /\ pc \notin LinesPcs \cup {"roofline"} => \A l \in Range(Lines(s)) : HasLine(s, l)

\* The i-th input has its counters, and a label in X for each of its points.
Labelled(s, i, X) ==
  LET counts == dirs[Inputs(s)[i]].counts
  IN IsDocument(counts) /\ Range(counts.labels) \subseteq X
LabelsOf(points) == {p.label : p \in Range(points)}
\* An input's points are combined; all inputs' points are.
CombinedPcs == {"dat", "copy", "refs"} \cup DatPcs
ListedPcs == {"metainfo", "writemeta", "labels"}
LabelsRead(s) ==
  LET x == sh[s]
  IN /\ x.pc \in ReportPcs =>
          \A i \in 1 .. x.k - 1 : Labelled(s, i, LabelsOf(x.point_list))
     /\ x.pc \in CombinedPcs => Labelled(s, x.k, LabelsOf(x.current))
     /\ x.pc \in ListedPcs => \A i \in DOMAIN Inputs(s) : Labelled(s, i, LabelsOf(x.point_list))
     /\ x.pc = "draw" \/ Finished(s) =>
          \A i \in DOMAIN Inputs(s) : Labelled(s, i, Plot(s).labels)

PInv ==
  /\ EntriesStay
  /\ \A s \in Shells : Reported(s) /\ LinesDrawn(s) /\ LabelsRead(s)
-----------------------------------------------------------------------------
\* What a report does at some of its steps.
LEMMA ReportAt ==
  ASSUME NEW s \in Shells, Report(s)
  PROVE  /\ At(s, "args") => CheckoutInputArgs(s)
         /\ At(s, "empty") => CopyEmptyRoofline(s)
         /\ At(s, "roofline") => FillRoofline(s)
         /\ At(s, "continue") => ContinuePlot(s)
         /\ At(s, "tail") => TailLine(s)
         /\ At(s, "append") => AppendLines(s)
         /\ At(s, "labels") => AddPointLabels(s)
  BY DEF Report, CheckoutInputArgs, MakeOutput, CopyEmptyRoofline, FillRoofline, ContinuePlot,
    TailLine, AppendLines, ReadCounts, ReadTimes, CreateDatFile, WritePoints, CopyDatFile,
    OpenDatFile, FillDatFile, AddDatFileReference, TruncateMetainfo, WriteMetainfo,
    AddPointLabels, Draw, At

\* A shell that is not reporting shows nothing.
LEMMA NothingShown ==
  ASSUME IInv, RInv, NEW s \in Shells, Works(s), ~Report(s)
  PROVE  ~Shows(s)' /\ sh'[s].pc \notin ReportPcs
<1>1. sh \in [Shells -> Shell] /\ sh[s] \in Shell /\ Fits(sh[s]) /\ Started(sh[s])
  BY DEF IInv, TypeOK, RInv, InOrder
<1>2. CASE Record(s)
  <2>1. /\ sh[s].pc \in RecordPcs /\ sh'[s].pc \in RecordPcs \cup {"rest"}
        /\ sh'[s].cmd = sh[s].cmd
    BY <1>2, RecordFrame DEF GoesOn
  <2>2. sh'[s].cmd.cmd = "record"  BY <1>1, <2>1 DEF Fits, RecordCommand
  <2> QED BY <2>1, <2>2 DEF Shows, Finished, Done, Args, ReportPcs, PlotPcs, LinesPcs, DatPcs, RecordPcs
<1>3. CASE RecordErt(s)
  <2>1. /\ sh[s].pc \in ErtPcs /\ sh'[s].pc \in ErtPcs \cup {"rest"}
        /\ sh'[s].cmd = sh[s].cmd
    BY <1>3, ErtFrame DEF GoesOn
  <2>2. sh'[s].cmd.cmd = "record_ert"  BY <1>1, <2>1 DEF Fits, ErtCommand
  <2> QED BY <2>1, <2>2
          DEF Shows, Finished, Done, Args, ReportPcs, PlotPcs, LinesPcs, DatPcs, ErtPcs
<1>4. CASE Kill(s)
  <2>1. sh'[s].pc = "rest" /\ sh'[s].result = "failed"
    BY <1>1, <1>4 DEF Kill, Fail, Shell
  <2> QED BY <2>1 DEF Shows, Finished, Done, ReportPcs, PlotPcs, LinesPcs, DatPcs
<1>5. CASE Begin(s)
  <2>1. PICK c \in Commands[s] :
          sh' = [sh EXCEPT ![s] = [AtRest EXCEPT !.pc = Entered(c), !.cmd = c,
                                                 !.count = sh[s].count + 1]]
    BY <1>5 DEF Begin
  <2>2. sh'[s].pc \in {"exists", "args", "template"} /\ sh'[s].result = "none"
    BY <1>1, <2>1 DEF AtRest, Entered
  <2> QED BY <2>2 DEF Shows, Finished, Done, ReportPcs, PlotPcs, LinesPcs, DatPcs
<1> QED BY <1>2, <1>3, <1>4, <1>5 DEF Works, Step

\* The plot of another shell is left as it is.
LEMMA OtherPlots ==
  ASSUME SeparateReports, IInv, RInv, TInv, PInv,
         NEW s \in Shells, Works(s), NEW u \in Shells, u # s, Shows(u)
  PROVE  dirs'[Output_(u)].gnu = dirs[Output_(u)].gnu
<1> DEFINE o == Output_(u)
<1>1. /\ Args(u) \in Commands[u] /\ Args(u) \in ReportCommand /\ Inputs(u) # <<>> /\ o \in Dirs
  BY DEF PInv, Reported
<1>2. CASE Record(s)  BY <1>1, <1>2, RecordFrame DEF RecordLeaves
<1>3. CASE Begin(s) \/ RecordErt(s) \/ Kill(s)  BY <1>3, OtherFrame
<1>4. CASE Report(s)
  <2>1. ReportLeaves(s) /\ sh[s].pc \in ReportPcs \cup {"args"}  BY <1>4, ReportFrame
  <2>2. CASE dirs' = dirs  BY <2>2
  <2>3. CASE sh[s].pc \in ReportPcs
    <3>1. /\ Args(s) \in Commands[s] /\ Args(s) \in ReportCommand /\ Inputs(s) # <<>>
      BY <2>3 DEF TInv, Allowed, At, ReportPcs, PlotPcs, LinesPcs, DatPcs, IInv, Fits, Args, Inputs
    <3>2. Output_(s) # o
      BY <1>1, <3>1 DEF SeparateReports, ReportDir, Output_, Inputs, ReportCommand
    <3> QED BY <1>1, <2>1, <3>2 DEF ReportLeaves
  <2>4. CASE sh[s].pc = "args"
    <3>1. dirs' = dirs  BY <1>4, <2>4, ReportAt DEF CheckoutInputArgs, At, files
    <3> QED BY <3>1
  <2> QED BY <2>1, <2>3, <2>4
<1> QED BY <1>2, <1>3, <1>4 DEF Works, Step

\* The entries of the database stay, with their rooflines.
LEMMA EntriesKept ==
  ASSUME IInv, [Next]_vars, NEW r \in Rooflines, rooflines[r] # NoFile
  PROVE  rooflines'[r] # NoFile /\ rooflines'[r].gnu = rooflines[r].gnu
  BY RooflinesChange

\* What is shown of a shell is kept by the steps of the others.
LEMMA OthersShown ==
  ASSUME SeparateReports, IInv, RInv, TInv, PInv,
         NEW s \in Shells, Works(s), NEW u \in Shells, u # s
  PROVE  (Reported(u) /\ LinesDrawn(u) /\ LabelsRead(u))'
<1>1. sh'[u] = sh[u] /\ [Next]_vars
  BY WorksLeaves DEF Leaves, Works, Next
<1>2. /\ Args(u)' = Args(u) /\ Inputs(u)' = Inputs(u) /\ Output_(u)' = Output_(u)
      /\ Lines(u)' = Lines(u) /\ (Finished(u)' <=> Finished(u)) /\ (Shows(u)' <=> Shows(u))
  BY <1>1 DEF Args, Inputs, Output_, Lines, Finished, Shows, Done, At
<1>3. Reported(u) /\ LinesDrawn(u) /\ LabelsRead(u)  BY DEF PInv
<1>4. Shows(u) => dirs'[Output_(u)].gnu = dirs[Output_(u)].gnu  BY OtherPlots
<1>5. Shows(u) => Plot(u)' = Plot(u)  BY <1>2, <1>4 DEF Plot
<1>6. Reported(u)'  BY <1>2, <1>3 DEF Reported
<1>7. LinesDrawn(u)'
  <2> SUFFICES ASSUME Shows(u), FurtherThere(u) PROVE LinesDrawn(u)'
    BY <1>2 DEF LinesDrawn, FurtherThere, FurtherLines
  <2>1. /\ \A i \in DOMAIN Lines(u) : Lines(u)[i] \in Rooflines
        /\ sh[u].pc = "append" => Lines(u)[2] \in Rooflines
        /\ Lines(u)[1] \in Rooflines
    <3>1. Lines(u) \in Seq(Rooflines) /\ Lines(u) # <<>>
      BY <1>3 DEF Reported, ReportCommand, Lines
    <3>2. sh[u].pc = "append" => Len(Lines(u)) > 1
      BY DEF IInv, Fits, LinesPcs, Lines, Args
    <3> QED BY <3>1, <3>2
  <2>2. ASSUME NEW l \in Rooflines, HasLine(u, l) PROVE HasLine(u, l)'
    BY <1>1, <1>5, <2>2, EntriesKept DEF HasLine
  <2>3. ASSUME NEW l \in Rooflines, NEW x, IsOf(x, l)
        PROVE  rooflines'[l] # NoFile /\ x = <<rooflines'[l].gnu>>
    BY <1>1, <2>3, EntriesKept DEF IsOf
  <2>4. \A l \in Range(Lines(u)) : l \in Rooflines  BY <2>1 DEF Range
  <2>5. /\ sh[u].pc = "roofline" => IsOf(sh[u].source, Lines(u)[1])'
        /\ sh[u].pc = "append" => IsOf(sh[u].source, Lines(u)[2])'
    BY <1>1, <1>2, <1>3, <2>1, <2>3 DEF LinesDrawn, IsOf
  <2>6. sh[u].pc # "roofline" =>
          /\ HasLine(u, Lines(u)[1])'
          /\ Plot(u).end = IF sh[u].pc \in {"tail", "append"} THEN "continued" ELSE "complete"
    BY <1>2, <1>3, <2>1, <2>2 DEF LinesDrawn, HasLine
  <2>7. sh[u].pc \notin LinesPcs \cup {"roofline"} =>
          \A l \in Range(Lines(u)) : HasLine(u, l)'
    BY <1>3, <2>2, <2>4 DEF LinesDrawn
  <2> QED BY <1>1, <1>2, <1>5, <2>5, <2>6, <2>7 DEF LinesDrawn, IsOf, HasLine
<1>8. LabelsRead(u)'
  <2>1. sh[u].pc \in ReportPcs \/ Finished(u) => Inputs(u) \in Seq(Dirs)
    <3>1. CASE sh[u].pc \in ReportPcs
      BY <3>1 DEF IInv, Fits, ReportCommand, Inputs, Args
    <3>2. CASE Finished(u)  BY <1>3, <3>2 DEF Reported, Shows, ReportCommand, Inputs
    <3> QED BY <3>1, <3>2
  <2> DEFINE Still(i, X) == LET counts == dirs'[Inputs(u)[i]].counts
                            IN IsDocument(counts) /\ Range(counts.labels) \subseteq X
             points == LabelsOf(sh[u].point_list)
             current == LabelsOf(sh[u].current)
  <2>2. ASSUME sh[u].pc \in ReportPcs \/ Finished(u), NEW i \in DOMAIN Inputs(u), NEW X,
               Labelled(u, i, X)
        PROVE  Still(i, X)
    <3>1. Inputs(u)[i] \in Dirs /\ IsDocument(dirs[Inputs(u)[i]].counts)
      BY <2>1, <2>2 DEF Labelled
    <3>2. dirs'[Inputs(u)[i]].counts = dirs[Inputs(u)[i]].counts
      BY <1>1, <3>1, DocumentsStay
    <3> QED BY <2>2, <3>2 DEF Labelled
  <2>3. sh[u].pc \in ReportPcs =>
          sh[u].k \in DOMAIN Inputs(u) /\ 1 .. sh[u].k - 1 \subseteq DOMAIN Inputs(u)
    <3>1. sh[u].pc \in ReportPcs => sh[u].k \in 1 .. Len(Inputs(u))
      BY DEF IInv, Fits, Inputs, Args
    <3> QED BY <2>1, <3>1
  <2> HIDE DEF Still, points, current
  <2>4. /\ sh[u].pc \in ReportPcs => \A i \in 1 .. sh[u].k - 1 : Still(i, points)
        /\ sh[u].pc \in CombinedPcs => Still(sh[u].k, current)
        /\ sh[u].pc \in ListedPcs => \A i \in DOMAIN Inputs(u) : Still(i, points)
    BY <1>3, <2>2, <2>3
       DEF LabelsRead, CombinedPcs, ListedPcs, ReportPcs, PlotPcs, DatPcs, points, current
  <2>5. sh[u].pc = "draw" \/ Finished(u) => \A i \in DOMAIN Inputs(u) : Still(i, Plot(u).labels)
    BY <1>3, <2>2 DEF LabelsRead, ReportPcs, PlotPcs
  <2>6. sh[u].pc = "draw" \/ Finished(u) => Plot(u)' = Plot(u)
    BY <1>5 DEF Shows, PlotPcs
  <2>7. \A i, X : Still(i, X) <=> IsDocument(dirs'[Inputs(u)[i]].counts)
                                   /\ Range(dirs'[Inputs(u)[i]].counts.labels) \subseteq X
    BY DEF Still
  <2> QED BY <1>1, <1>2, <2>4, <2>5, <2>6, <2>7
          DEF LabelsRead, Labelled, LabelsOf, IsDocument, points, current
<1> QED BY <1>6, <1>7, <1>8
-----------------------------------------------------------------------------
(***************************************************************************)
(* The steps of a report: from where to where it goes, what becomes of its *)
(* points and of its plot.                                                 *)
(***************************************************************************)
Moves == {<<"makeout", "empty">>, <<"empty", "roofline">>, <<"roofline", "continue">>,
          <<"roofline", "counts">>, <<"continue", "tail">>, <<"tail", "append">>,
          <<"append", "counts">>, <<"counts", "times">>, <<"dat", "points">>,
          <<"points", "copy">>, <<"copy", "open">>, <<"copy", "refs">>, <<"open", "fill">>,
          <<"fill", "refs">>, <<"metainfo", "writemeta">>, <<"writemeta", "labels">>,
          <<"labels", "draw">>}
SamePoints(x, y) == y.k = x.k /\ y.current = x.current /\ y.point_list = x.point_list

\* One case for each kind of step; the points are added up when an input is done.
LEMMA ReportGoesOn ==
  ASSUME IInv, NEW s \in Shells, Report(s)
  PROVE  LET x == sh[s]
             y == sh'[s]
         IN \/ y.pc = "rest" /\ y.result = "failed"
            \/ x.pc = "args" /\ x.k = 1 /\ y.k = 1 /\ y.pc \in {"makeout", "empty"}
            \/ <<x.pc, y.pc>> \in Moves /\ SamePoints(x, y)
            \/ /\ ReadTimes(s) /\ x.pc = "times" /\ y.pc = "dat" /\ y.k = x.k
               /\ y.point_list = x.point_list
               /\ Range(x.read.labels) \subseteq LabelsOf(y.current)
            \/ /\ AddDatFileReference(s) /\ x.pc = "refs"
               /\ y.point_list = x.point_list \o x.current
               /\ IF x.k = Len(Inputs(s)) THEN y.pc = "metainfo" /\ y.k = x.k
                                          ELSE y.pc = "counts" /\ y.k = x.k + 1
            \/ Draw(s) /\ x.pc = "draw" /\ y.pc = "rest" /\ y.result = "done" /\ SamePoints(x, y)
<1> DEFINE x == sh[s]
           y == sh'[s]
<1>1. sh \in [Shells -> Shell] /\ x \in Shell /\ Fits(x)  BY DEF IInv, TypeOK
<1>2. CASE Fail(s)
  <2>1. y.pc = "rest" /\ y.result = "failed"  BY <1>1, <1>2 DEF Fail, Shell
  <2> QED BY <2>1
<1>3. ASSUME NEW c \in Control, Goto(s, c) PROVE y.pc = c /\ SamePoints(x, y)
  BY <1>1, <1>3 DEF Goto, Shell, SamePoints
<1>4. CASE CheckoutInputArgs(s) /\ ~Fail(s)
  <2>1. x.pc = "args" /\ x.k = 1  BY <1>1, <1>4 DEF CheckoutInputArgs, At, Fits
  <2>2. Goto(s, "empty") \/ Goto(s, "makeout")  BY <1>4 DEF CheckoutInputArgs
  <2>3. y.k = 1 /\ y.pc \in {"makeout", "empty"}
    BY <1>3, <2>1, <2>2 DEF Control, SamePoints
  <2> QED BY <2>1, <2>3
<1>5. CASE MakeOutput(s) /\ ~Fail(s)
  <2>1. x.pc = "makeout" /\ Goto(s, "empty")  BY <1>5 DEF MakeOutput, At
  <2>2. y.pc = "empty" /\ SamePoints(x, y)  BY <1>3, <2>1 DEF Control
  <2> QED BY <2>1, <2>2 DEF Moves
\* What else a step sets is none of the points.
<1>17. ASSUME NEW c \in Control, NEW v, \/ sh' = [sh EXCEPT ![s].pc = c, ![s].source = v]
                                        \/ sh' = [sh EXCEPT ![s].pc = c, ![s].title = v]
       PROVE  y.pc = c /\ SamePoints(x, y)
  BY <1>1, <1>17 DEF Shell, SamePoints
<1>6. CASE (CopyEmptyRoofline(s) \/ FillRoofline(s)) /\ ~Fail(s)
  <2>1. \/ x.pc = "empty" /\ \E v : sh' = [sh EXCEPT ![s].pc = "roofline", ![s].source = v]
        \/ /\ x.pc = "roofline"
           /\ \E c \in {"continue", "counts"} : \E v :
                sh' = [sh EXCEPT ![s].pc = c, ![s].source = v]
    BY <1>6 DEF CopyEmptyRoofline, FillRoofline, At
  <2>2. /\ \/ x.pc = "empty" /\ y.pc = "roofline"
           \/ x.pc = "roofline" /\ y.pc \in {"continue", "counts"}
        /\ SamePoints(x, y)
    BY <1>17, <2>1 DEF Control
  <2> QED BY <2>2 DEF Moves
<1>7. CASE (ContinuePlot(s) \/ TailLine(s) \/ AppendLines(s)) /\ ~Fail(s)
  <2>1. \/ x.pc = "continue" /\ Goto(s, "tail")
        \/ x.pc = "tail" /\ \E v : sh' = [sh EXCEPT ![s].pc = "append", ![s].source = v]
        \/ x.pc = "append" /\ \E v : sh' = [sh EXCEPT ![s].pc = "counts", ![s].source = v]
    BY <1>7 DEF ContinuePlot, TailLine, AppendLines, At
  <2>2. /\ \/ x.pc = "continue" /\ y.pc = "tail"
           \/ x.pc = "tail" /\ y.pc = "append"
           \/ x.pc = "append" /\ y.pc = "counts"
        /\ SamePoints(x, y)
    BY <1>3, <1>17, <2>1 DEF Control
  <2> QED BY <2>2 DEF Moves
<1>8. CASE ReadCounts(s) /\ ~Fail(s)
  <2>1. x.pc = "counts" /\ y = [x EXCEPT !.pc = "times", !.read = dirs[Input(s)].counts]
    BY <1>1, <1>8 DEF ReadCounts, At
  <2>2. y.pc = "times" /\ SamePoints(x, y)  BY <1>1, <2>1 DEF Shell, SamePoints
  <2> QED BY <2>1, <2>2 DEF Moves
<1>9. CASE ReadTimes(s) /\ ~Fail(s)
  <2> DEFINE by == dirs[Input(s)].times.by
             pts == [i \in DOMAIN x.read.labels |->
                       [label |-> x.read.labels[i], app |-> x.read.app,
                        counts |-> x.read.by, times |-> by]]
  <2>1. x.pc = "times" /\ y = [x EXCEPT !.pc = "dat", !.current = pts]
    BY <1>1, <1>9 DEF ReadTimes, At
  <2>2. Range(x.read.labels) \subseteq LabelsOf(pts)
    <3>1. /\ DOMAIN pts = DOMAIN x.read.labels
          /\ \A i \in DOMAIN x.read.labels : pts[i].label = x.read.labels[i]
      OBVIOUS
    <3> HIDE DEF pts
    <3> QED BY <3>1 DEF LabelsOf, Range
  <2> HIDE DEF pts
  <2>3. y.pc = "dat" /\ y.k = x.k /\ y.point_list = x.point_list /\ y.current = pts
    BY <1>1, <2>1 DEF Shell
  <2> QED BY <1>9, <2>1, <2>2, <2>3
<1>10. CASE (CreateDatFile(s) \/ WritePoints(s)) /\ ~Fail(s)
  <2>1. \/ x.pc = "dat" /\ \E v : sh' = [sh EXCEPT ![s].pc = "points", ![s].title = v]
        \/ x.pc = "points" /\ \E v : sh' = [sh EXCEPT ![s].pc = "copy", ![s].title = v]
    BY <1>10 DEF CreateDatFile, WritePoints, At
  <2>2. /\ \/ x.pc = "dat" /\ y.pc = "points"
           \/ x.pc = "points" /\ y.pc = "copy"
        /\ SamePoints(x, y)
    BY <1>17, <2>1 DEF Control
  <2> QED BY <2>2 DEF Moves
<1>11. CASE CopyDatFile(s) /\ ~Fail(s)
  <2>1. /\ x.pc = "copy"
        /\ \/ Goto(s, "refs")
           \/ \E v : sh' = [sh EXCEPT ![s].pc = "open", ![s].title = v]
    BY <1>11 DEF CopyDatFile, At
  <2>2. y.pc \in {"refs", "open"} /\ SamePoints(x, y)  BY <1>3, <1>17, <2>1 DEF Control
  <2> QED BY <2>1, <2>2 DEF Moves
<1>12. CASE (OpenDatFile(s) \/ FillDatFile(s)) /\ ~Fail(s)
  <2>1. \/ x.pc = "open" /\ Goto(s, "fill")
        \/ x.pc = "fill" /\ \E v : sh' = [sh EXCEPT ![s].pc = "refs", ![s].title = v]
    BY <1>12 DEF OpenDatFile, FillDatFile, At
  <2>2. /\ \/ x.pc = "open" /\ y.pc = "fill"
           \/ x.pc = "fill" /\ y.pc = "refs"
        /\ SamePoints(x, y)
    BY <1>3, <1>17, <2>1 DEF Control
  <2> QED BY <2>2 DEF Moves
<1>13. CASE AddDatFileReference(s) /\ ~Fail(s)
  <2>1. /\ x.pc = "refs"
        /\ y = [x EXCEPT
                  !.point_list = x.point_list \o x.current,
                  !.k = IF x.k = Len(Inputs(s)) THEN x.k ELSE x.k + 1,
                  !.pc = IF x.k = Len(Inputs(s)) THEN "metainfo" ELSE "counts"]
    BY <1>1, <1>13 DEF AddDatFileReference, At
  <2>2. /\ y.point_list = x.point_list \o x.current
        /\ y.k = IF x.k = Len(Inputs(s)) THEN x.k ELSE x.k + 1
        /\ y.pc = IF x.k = Len(Inputs(s)) THEN "metainfo" ELSE "counts"
    BY <1>1, <2>1 DEF Shell
  <2> QED BY <1>13, <2>1, <2>2
<1>14. CASE TruncateMetainfo(s) /\ ~Fail(s)
  <2>1. x.pc = "metainfo" /\ y = [x EXCEPT !.pc = "writemeta", !.meta = GetMetainfo(s)]
    BY <1>1, <1>14 DEF TruncateMetainfo, At
  <2>2. y.pc = "writemeta" /\ SamePoints(x, y)  BY <1>1, <2>1 DEF Shell, SamePoints
  <2> QED BY <2>1, <2>2 DEF Moves
<1>15. CASE WriteMetainfo(s) \/ AddPointLabels(s)
  <2>1. \/ x.pc = "writemeta" /\ Goto(s, "labels")
        \/ x.pc = "labels" /\ Goto(s, "draw")
    BY <1>15 DEF WriteMetainfo, AddPointLabels, At
  <2>2. /\ \/ x.pc = "writemeta" /\ y.pc = "labels"
           \/ x.pc = "labels" /\ y.pc = "draw"
        /\ SamePoints(x, y)
    BY <1>3, <2>1 DEF Control
  <2> QED BY <2>2 DEF Moves
<1>16. CASE Draw(s)
  <2>1. x.pc = "draw" /\ y = [x EXCEPT !.pc = "rest", !.result = "done"]
    BY <1>1, <1>16 DEF Draw, Return, At
  <2>2. y.pc = "rest" /\ y.result = "done" /\ SamePoints(x, y)
    BY <1>1, <2>1 DEF Shell, SamePoints
  <2> QED BY <1>16, <2>1, <2>2
<1> QED BY <1>2, <1>4, <1>5, <1>6, <1>7, <1>8, <1>9, <1>10, <1>11, <1>12, <1>13, <1>14, <1>15,
      <1>16 DEF Report

\* What the steps of a report do to its plot.
LEMMA PlotGrows ==
  ASSUME IInv, NEW s \in Shells, Report(s), sh[s].pc \in PlotPcs
  PROVE  LET old == dirs[Output_(s)].gnu
             new == dirs'[Output_(s)].gnu
         IN /\ FillRoofline(s) => new.end = "complete" /\ new.lines = sh[s].source
            /\ ContinuePlot(s) /\ old.end = "complete" =>
                 new.end = "continued" /\ new.lines = old.lines
            /\ AppendLines(s) /\ sh[s].source # <<>> /\ old.end = "continued" =>
                 new.end = "complete" /\ new.lines = old.lines \o sh[s].source
            /\ sh[s].pc \notin LinesPcs \cup {"roofline"} /\ old.end = "complete" =>
                 new.end = "complete" /\ new.lines = old.lines
            /\ AddPointLabels(s) => LabelsOf(sh[s].point_list) \subseteq new.labels
<1> DEFINE o == Output_(s)
           old == dirs[o].gnu
           new == dirs'[o].gnu
<1>1. /\ TypeOK /\ dirs \in [Dirs -> Directory] /\ o \in Dirs /\ old \in Gnuplot
      /\ dirs[o] \in Directory
  BY Names DEF IInv, TypeOK, HasPlot, ReportPcs
<1>10. /\ FillRoofline(s) => At(s, "roofline")
       /\ ContinuePlot(s) => At(s, "continue")
       /\ AppendLines(s) => At(s, "append")
       /\ AddPointLabels(s) => At(s, "labels")
  BY DEF FillRoofline, ContinuePlot, AppendLines, AddPointLabels
\* The output directory with another plot.
<1>2. ASSUME NEW g, dirs' = [dirs EXCEPT ![o].gnu = g] PROVE new = g
  <2>1. dirs'[o] = [dirs[o] EXCEPT !.gnu = g]  BY <1>1, <1>2
  <2> QED BY <1>1, <2>1 DEF Directory
<1>3. CASE FillRoofline(s)
  <2> DEFINE g == [old EXCEPT !.end = "complete", !.lines = sh[s].source]
  <2>1. At(s, "roofline") /\ dirs' = [dirs EXCEPT ![o].gnu.end = "complete",
                                                ![o].gnu.lines = sh[s].source]
    BY <1>3 DEF FillRoofline
  <2>2. dirs' = [dirs EXCEPT ![o].gnu = g]  BY <1>1, <2>1
  <2>3. new = g  BY <1>2, <2>2
  <2>4. new.end = "complete" /\ new.lines = sh[s].source  BY <1>1, <2>3 DEF Gnuplot
  <2> QED BY <1>10, <2>1, <2>4 DEF At
<1>4. CASE ContinuePlot(s)
  <2> SUFFICES ASSUME old.end = "complete" PROVE new.end = "continued" /\ new.lines = old.lines
    BY <1>4, <1>10 DEF At, LinesPcs
  <2> DEFINE g == [old EXCEPT !.end = "continued"]
  <2>1. dirs' = [dirs EXCEPT ![o].gnu.end = "continued"]  BY <1>4 DEF ContinuePlot
  <2>2. dirs' = [dirs EXCEPT ![o].gnu = g]  BY <1>1, <2>1
  <2>3. new = g  BY <1>2, <2>2
  <2> QED BY <1>1, <2>3 DEF Gnuplot
<1>5. CASE AppendLines(s)
  <2> SUFFICES ASSUME sh[s].source # <<>>, old.end = "continued"
               PROVE  new.end = "complete" /\ new.lines = old.lines \o sh[s].source
    BY <1>5, <1>10 DEF At, LinesPcs
  <2> DEFINE g == [old EXCEPT !.end = "complete", !.lines = old.lines \o sh[s].source]
  <2>1. dirs' = [dirs EXCEPT ![o].gnu = g]  BY <1>5 DEF AppendLines
  <2>2. new = g  BY <1>2, <2>1
  <2> QED BY <1>1, <2>2 DEF Gnuplot
<1>6. CASE TailLine(s)
  BY <1>6, <1>10 DEF TailLine, At, LinesPcs
\* The other steps leave the script as it ends.
<1>7. SUFFICES ASSUME ~FillRoofline(s), ~ContinuePlot(s), ~AppendLines(s), ~TailLine(s)
               PROVE  /\ new.lines = old.lines /\ (old.end = "complete" => new.end = "complete")
                      /\ AddPointLabels(s) => LabelsOf(sh[s].point_list) \subseteq new.labels
  BY <1>3, <1>4, <1>5, <1>6
<1>8. CASE AddPointLabels(s)
  <2> DEFINE labels == old.labels \cup {p.label : p \in Range(sh[s].point_list)}
             g == [old EXCEPT !.labels = labels]
  <2>1. dirs' = [dirs EXCEPT ![o].gnu.labels = labels]  BY <1>8 DEF AddPointLabels
  <2>2. dirs' = [dirs EXCEPT ![o].gnu = g]  BY <1>1, <2>1
  <2>3. new = g  BY <1>2, <2>2
  <2>4. new.lines = old.lines /\ new.end = old.end /\ new.labels = labels
    BY <1>1, <2>3 DEF Gnuplot
  <2> QED BY <2>4 DEF LabelsOf
<1>9. CASE AddDatFileReference(s)
  <2> DEFINE g == [old EXCEPT !.end = IF old.end = "complete" THEN old.end ELSE "rejected",
                              !.refs = Append(old.refs, Title(s))]
  <2>1. dirs' = dirs \/ dirs' = [dirs EXCEPT ![o].gnu = g]
    BY <1>9 DEF AddDatFileReference
  <2>2. new = old \/ new = g  BY <1>2, <2>1
  <2>3. ~AddPointLabels(s)  BY <1>9, <1>10 DEF AddDatFileReference, At
  <2> QED BY <1>1, <2>2, <2>3 DEF Gnuplot
<1>11. CASE ~AddPointLabels(s) /\ ~AddDatFileReference(s)
  <2>1. ASSUME NEW d \in Dirs, NEW v,
               dirs' = [dirs EXCEPT ![d].dat = v] \/ dirs' = [dirs EXCEPT ![d].meta = v]
        PROVE  new = old
    <3>1. dirs'[d] = [dirs[d] EXCEPT !.dat = v] \/ dirs'[d] = [dirs[d] EXCEPT !.meta = v]
      BY <1>1, <2>1
    <3>2. \A e \in Dirs : e # d => dirs'[e] = dirs[e]  BY <2>1, <1>1
    <3> QED BY <1>1, <3>1, <3>2 DEF Directory
  <2>2. o \in Dirs /\ Input(s) \in Dirs  BY Names DEF IInv, ReportPcs
  <2>3. CASE CreateDatFile(s) \/ WritePoints(s) \/ OpenDatFile(s) \/ FillDatFile(s)
    <3>1. PICK d \in {o, Input(s)} :
            dirs' = dirs \/ \E x, v : dirs' = [dirs EXCEPT ![d].dat[x] = v]
      <4>1. CASE CreateDatFile(s)  BY <4>1 DEF CreateDatFile
      <4>2. CASE WritePoints(s)  BY <4>2 DEF WritePoints
      <4>3. CASE OpenDatFile(s)  BY <4>3 DEF OpenDatFile
      <4>4. CASE FillDatFile(s)  BY <4>4 DEF FillDatFile
      <4> QED BY <2>3, <4>1, <4>2, <4>3, <4>4
    <3>2. \A x, v : dirs' = [dirs EXCEPT ![d].dat[x] = v] =>
                     dirs' = [dirs EXCEPT ![d].dat = [dirs[d].dat EXCEPT ![x] = v]]
      BY <1>1, <2>2, <3>1
    <3>3. new = old  BY <2>1, <2>2, <3>1, <3>2
    <3> QED BY <1>11, <3>3
  <2>4. CASE TruncateMetainfo(s) \/ WriteMetainfo(s)
    <3>1. dirs' = dirs \/ \E v : dirs' = [dirs EXCEPT ![o].meta = v]
      BY <2>4 DEF TruncateMetainfo, WriteMetainfo
    <3>2. new = old  BY <2>1, <2>2, <3>1
    <3> QED BY <1>11, <3>2
  <2>5. CASE ReadCounts(s) \/ ReadTimes(s) \/ CopyDatFile(s) \/ Draw(s)
    <3>1. dirs' = dirs  BY <2>5 DEF ReadCounts, ReadTimes, CopyDatFile, Draw, files
    <3> QED BY <1>11, <3>1
  <2>6. ~CheckoutInputArgs(s) /\ ~MakeOutput(s) /\ ~CopyEmptyRoofline(s)
    BY DEF CheckoutInputArgs, MakeOutput, CopyEmptyRoofline, At, PlotPcs, LinesPcs, DatPcs
  <2> QED BY <1>7, <1>11, <2>3, <2>4, <2>5, <2>6 DEF Report
<1> QED BY <1>8, <1>9, <1>11

\* A sequence loses nothing by being joined with another one.
LEMMA JoinedRange ==
  ASSUME NEW S, NEW a \in Seq(S), NEW b \in Seq(S)
  PROVE  Range(a) \subseteq Range(a \o b) /\ Range(b) \subseteq Range(a \o b)
<1> DEFINE c == a \o b
<1>1. c \in Seq(S) /\ Len(c) = Len(a) + Len(b) /\ Len(a) \in Nat /\ Len(b) \in Nat  OBVIOUS
<1>2. DOMAIN a = 1 .. Len(a) /\ DOMAIN b = 1 .. Len(b) /\ DOMAIN c = 1 .. Len(a) + Len(b)
  BY <1>1
<1>3. \A i \in 1 .. Len(a) : c[i] = a[i]  OBVIOUS
<1>4. \A i \in 1 .. Len(b) : c[Len(a) + i] = b[i]
  <2> SUFFICES ASSUME NEW i \in 1 .. Len(b) PROVE c[Len(a) + i] = b[i]
    OBVIOUS
  <2>1. Len(a) + i \in 1 .. Len(a) + Len(b) /\ ~(Len(a) + i <= Len(a))  BY <1>1
  <2>2. c[Len(a) + i] = b[(Len(a) + i) - Len(a)]  BY <2>1
  <2>3. (Len(a) + i) - Len(a) = i  BY <1>1
  <2> QED BY <2>2, <2>3
<1>5. \A i \in 1 .. Len(a) : i \in 1 .. Len(a) + Len(b)  BY <1>1
<1>6. \A i \in 1 .. Len(b) : Len(a) + i \in 1 .. Len(a) + Len(b)  BY <1>1
<1> HIDE DEF c
<1> QED BY <1>2, <1>3, <1>4, <1>5, <1>6 DEF Range, c

\* A report's own step leaves on its plot the rooflines it has drawn.
LEMMA LinesKept ==
  ASSUME IInv, RInv, TInv, PInv, NEW s \in Shells, Report(s), Shows(s)'
  PROVE  (Reported(s) /\ LinesDrawn(s))'
<1> DEFINE x == sh[s]
           y == sh'[s]
           o == Output_(s)
           L == Lines(s)
           old == dirs[o].gnu
           new == dirs'[o].gnu
           There(l) == rooflines'[l] # NoFile /\ rooflines'[l].gnu \in Range(new.lines)
<1>1. /\ TypeOK /\ sh \in [Shells -> Shell] /\ x \in Shell /\ Fits(x) /\ y.cmd = x.cmd
      /\ x.pc \in ReportPcs \cup {"args"} /\ [Next]_vars
  BY ReportFrame DEF IInv, TypeOK, GoesOn, Next, Step
<1>2. ~(y.pc = "rest" /\ y.result = "failed") /\ y.pc # "makeout" /\ y.pc # "empty"
  BY DEF Shows, Finished, Done, At, PlotPcs, LinesPcs, DatPcs
<1>3. x.pc \in PlotPcs \cup {"empty"}
  BY <1>1, <1>2, ReportGoesOn DEF Moves, ReportPcs, PlotPcs, LinesPcs, DatPcs
<1>4. x.pc \in ReportPcs  BY <1>3 DEF ReportPcs
<1>5. /\ Args(s)' = Args(s) /\ Inputs(s)' = Inputs(s) /\ o' = o /\ L' = L
  BY <1>1 DEF Args, Inputs, Output_, Lines
<1>6. Args(s) \in Commands[s]
  BY <1>4 DEF TInv, Allowed, At, ReportPcs, PlotPcs, LinesPcs, DatPcs
<1>7. /\ Args(s) \in ReportCommand /\ Inputs(s) # <<>> /\ L # <<>> /\ o \in Dirs
      /\ L \in Seq(Rooflines)
  BY <1>1, <1>4, Names DEF Fits, ReportCommand, Args, Inputs, Lines
<1>8. Reported(s)'  BY <1>5, <1>6, <1>7 DEF Reported
<1>9. SUFFICES ASSUME FurtherThere(s) PROVE LinesDrawn(s)'
  BY <1>5, <1>8 DEF LinesDrawn, FurtherThere, FurtherLines
<1>10. /\ DOMAIN L = 1 .. Len(L) /\ Len(L) \in Nat /\ Len(L) # 0 /\ L[1] \in Rooflines
       /\ \A l \in Range(L) : l \in Rooflines
       /\ Len(L) > 1 => L[2] \in Rooflines /\ InitialRooflines[L[2]] # NoFile
       /\ Len(L) = 1 => Range(L) = {L[1]}
       /\ Len(L) = 2 => Range(L) = {L[1], L[2]}
  <2>1. DOMAIN L = 1 .. Len(L) /\ Len(L) \in Nat /\ Len(L) # 0  BY <1>7
  <2>2. L[1] \in Rooflines /\ (Len(L) > 1 => L[2] \in Rooflines /\ 2 \in 2 .. Len(L))
    BY <1>7, <2>1
  <2>3. Len(L) = 1 => DOMAIN L = {1}  BY <2>1
  <2>4. Len(L) = 2 => DOMAIN L = {1, 2}  BY <2>1
  <2>5. \A l \in Range(L) : l \in Rooflines  BY <1>7 DEF Range
  <2>6. Len(L) > 1 => InitialRooflines[L[2]] # NoFile
    BY <1>9, <2>2 DEF FurtherThere, FurtherLines
  <2> QED BY <2>1, <2>2, <2>3, <2>4, <2>5, <2>6 DEF Range
\* The entries that have been read are still there.
<1>11. ASSUME NEW l \in Rooflines, rooflines[l] # NoFile
       PROVE  rooflines'[l] # NoFile /\ rooflines'[l].gnu = rooflines[l].gnu
  BY <1>1, <1>11, EntriesKept
<1>12. CASE x.pc = "empty"
  <2>1. /\ CopyEmptyRoofline(s) /\ ~Fail(s)
    <3>1. CopyEmptyRoofline(s)  BY <1>12, ReportAt DEF At
    <3>2. Fail(s) => y.pc = "rest" /\ y.result = "failed"  BY <1>1 DEF Fail, Shell
    <3> QED BY <1>2, <3>1, <3>2
  <2>2. /\ rooflines[L[1]] # NoFile
        /\ sh' = [sh EXCEPT ![s].pc = "roofline", ![s].source = <<rooflines[L[1]].gnu>>]
    BY <2>1 DEF CopyEmptyRoofline, HasRoofline
  <2>3. y.pc = "roofline" /\ y.source = <<rooflines[L[1]].gnu>>
    BY <1>1, <2>2 DEF Shell
  <2>4. rooflines'[L[1]] # NoFile /\ y.source = <<rooflines'[L[1]].gnu>>
    BY <1>10, <1>11, <2>2, <2>3
  <2> QED BY <1>5, <2>3, <2>4 DEF LinesDrawn, IsOf
<1>13. SUFFICES ASSUME x.pc \in PlotPcs PROVE LinesDrawn(s)'
  BY <1>3, <1>12
<1>14. /\ x.pc = "roofline" => IsOf(x.source, L[1])
       /\ x.pc = "append" => IsOf(x.source, L[2])
       /\ x.pc # "roofline" =>
            /\ HasLine(s, L[1])
            /\ old.end = IF x.pc \in {"tail", "append"} THEN "continued" ELSE "complete"
       /\ x.pc \notin LinesPcs \cup {"roofline"} => \A l \in Range(L) : HasLine(s, l)
  BY <1>9, <1>13 DEF PInv, LinesDrawn, Shows, Plot
<1>15. ASSUME NEW l \in Rooflines, HasLine(s, l), Range(old.lines) \subseteq Range(new.lines)
       PROVE  There(l)
  BY <1>11, <1>15 DEF HasLine, Plot
<1> HIDE DEF There
\* The plot has what it should have at the next step.
<1>16. ASSUME There(L[1]), y.pc # "roofline",
              y.pc = "append" => rooflines'[L[2]] # NoFile /\ y.source = <<rooflines'[L[2]].gnu>>,
              new.end = IF y.pc \in {"tail", "append"} THEN "continued" ELSE "complete",
              y.pc \notin LinesPcs => \A l \in Range(L) : There(l)
       PROVE  LinesDrawn(s)'
  BY <1>5, <1>16 DEF LinesDrawn, HasLine, IsOf, Plot, There
<1>17. old \in Gnuplot  BY <1>13 DEF IInv, HasPlot
<1>18. <<x.pc, y.pc>> \in Moves \/ x.pc \in {"times", "refs", "draw"}
  BY <1>1, <1>2, <1>13, ReportGoesOn DEF PlotPcs, LinesPcs, DatPcs
<1>19. CASE x.pc = "roofline"
  <2>1. FillRoofline(s) /\ y.pc \in {"continue", "counts"}
    BY <1>18, <1>19, ReportAt DEF At, Moves
  <2>2. new.end = "complete" /\ new.lines = x.source  BY <1>13, <2>1, PlotGrows
  <2>3. Range(x.source) = {rooflines[L[1]].gnu}  BY <1>14, <1>19 DEF IsOf, Range
  <2>4. There(L[1])  BY <1>10, <1>11, <1>14, <1>19, <2>2, <2>3 DEF IsOf, There
  <2>5. y.pc = "counts" => Range(L) = {L[1]}
    <3>1. y.pc = "counts" => ~(Len(L) > 1)
      <4>1. y.pc = IF Len(L) > 1 THEN "continue" ELSE "counts"
        BY <1>1, <2>1 DEF FillRoofline, Shell
      <4> QED BY <4>1
    <3> QED BY <1>10, <3>1
  <2>6. y.pc \notin LinesPcs => \A l \in Range(L) : There(l)
    BY <2>1, <2>4, <2>5 DEF LinesPcs
  <2> QED BY <1>16, <2>1, <2>2, <2>4, <2>6
<1>20. CASE x.pc = "continue"
  <2>1. ContinuePlot(s) /\ y.pc = "tail"  BY <1>18, <1>20, ReportAt DEF At, Moves
  <2>2. new.end = "continued" /\ new.lines = old.lines
    BY <1>13, <1>14, <1>20, <2>1, PlotGrows
  <2>3. There(L[1])  BY <1>10, <1>14, <1>15, <1>20, <2>2
  <2> QED BY <1>16, <2>1, <2>2, <2>3 DEF LinesPcs
<1>21. CASE x.pc = "tail"
  <2>1. TailLine(s) /\ y.pc = "append"  BY <1>18, <1>21, ReportAt DEF At, Moves
  <2>2. dirs' = dirs /\ new = old  BY <2>1 DEF TailLine, files
  <2>3. There(L[1])  BY <1>10, <1>14, <1>15, <1>21, <2>2
  <2>4. L[2] \in Rooflines /\ InitialRooflines[L[2]] # NoFile
    BY <1>1, <1>10, <1>21 DEF Fits, Lines, Args, LinesPcs
  <2>5. rooflines[L[2]] # NoFile /\ rooflines[L[2]].gnu = InitialRooflines[L[2]].gnu
    BY <2>4 DEF PInv, EntriesStay
  <2>6. HasRoofline(L[2])  BY <2>4, <2>5, RooflinesAssumption DEF HasRoofline, InPlace
  <2>7. y.source = <<rooflines[L[2]].gnu>>
    <3>1. sh' = [sh EXCEPT ![s].pc = "append", ![s].source = <<rooflines[L[2]].gnu>>]
      BY <2>1, <2>6 DEF TailLine
    <3> QED BY <1>1, <3>1 DEF Shell
  <2>8. rooflines'[L[2]] # NoFile /\ y.source = <<rooflines'[L[2]].gnu>>
    BY <1>11, <2>4, <2>5, <2>7
  <2> QED BY <1>14, <1>16, <1>21, <2>1, <2>2, <2>3, <2>8 DEF LinesPcs
<1>22. CASE x.pc = "append"
  <2>1. AppendLines(s) /\ y.pc = "counts"  BY <1>18, <1>22, ReportAt DEF At, Moves
  <2>2. IsOf(x.source, L[2]) /\ old.end = "continued"  BY <1>14, <1>22
  <2>3. x.source = <<rooflines[L[2]].gnu>> /\ x.source # <<>>
    BY <2>2 DEF IsOf
  <2>4. new.end = "complete" /\ new.lines = old.lines \o x.source
    BY <1>13, <2>1, <2>2, <2>3, PlotGrows
  <2>5. Range(old.lines) \subseteq Range(new.lines) /\ rooflines[L[2]].gnu \in Range(new.lines)
    <3>1. old.lines \in Seq(Roofline) /\ x.source \in Seq(Roofline)
      BY <1>1, <1>17 DEF Gnuplot, Shell
    <3>2. Range(old.lines) \subseteq Range(new.lines) /\ Range(x.source) \subseteq Range(new.lines)
      BY <2>4, <3>1, JoinedRange
    <3>3. rooflines[L[2]].gnu \in Range(x.source)  BY <2>3 DEF Range
    <3> QED BY <3>2, <3>3
  <2>6. Len(L) = 2
    <3>1. Fail(s) => y.pc = "rest"  BY <1>1 DEF Fail, Shell
    <3>2. ~(Len(L) > 2)  BY <2>1, <3>1 DEF AppendLines
    <3>3. Len(L) > 1  BY <1>1, <1>22 DEF Fits, Lines, Args, LinesPcs
    <3> QED BY <1>10, <3>2, <3>3
  <2>7. There(L[1])  BY <1>10, <1>14, <1>15, <1>22, <2>5
  <2>8. There(L[2])
    <3>1. L[2] \in Rooflines /\ rooflines[L[2]] # NoFile  BY <1>10, <2>2, <2>6 DEF IsOf
    <3> QED BY <1>11, <2>5, <3>1 DEF There
  <2> QED BY <1>10, <1>16, <2>1, <2>4, <2>6, <2>7, <2>8
<1>23. CASE x.pc \notin LinesPcs \cup {"roofline"}
  <2>1. new.end = "complete" /\ new.lines = old.lines
    BY <1>13, <1>14, <1>23, PlotGrows DEF LinesPcs
  <2>2. There(L[1]) /\ \A l \in Range(L) : There(l)
    BY <1>10, <1>14, <1>15, <1>23, <2>1
  <2>3. y.pc \notin LinesPcs \cup {"roofline"}
    BY <1>1, <1>2, <1>13, <1>23, ReportGoesOn DEF Moves, PlotPcs, LinesPcs, DatPcs
  <2> QED BY <1>16, <2>1, <2>2, <2>3 DEF LinesPcs
<1> QED BY <1>19, <1>20, <1>21, <1>22, <1>23 DEF LinesPcs

\* A report's own step loses no label of the inputs it has read.
LEMMA LabelsKept ==
  ASSUME IInv, RInv, TInv, DInv, PInv, NEW s \in Shells, Report(s)
  PROVE  LabelsRead(s)'
<1> DEFINE x == sh[s]
           y == sh'[s]
           I == Inputs(s)
           Has(i, X) == LET counts == dirs[I[i]].counts
                        IN IsDocument(counts) /\ Range(counts.labels) \subseteq X
           Still(i, X) == LET counts == dirs'[I[i]].counts
                          IN IsDocument(counts) /\ Range(counts.labels) \subseteq X
<1>1. /\ sh \in [Shells -> Shell] /\ x \in Shell /\ Fits(x) /\ Inputs(s)' = I /\ Output_(s)' = Output_(s)
      /\ x.pc \in ReportPcs \cup {"args"} /\ [Next]_vars /\ TypeOK
  BY ReportFrame DEF IInv, TypeOK, Next, Step
<1>2. x.pc \in ReportPcs => I \in Seq(Dirs) /\ x.k \in 1 .. Len(I) /\ DOMAIN I = 1 .. Len(I)
                            /\ Len(I) \in Nat
  BY <1>1 DEF Fits, Inputs, Args, ReportCommand
<1>3. ASSUME x.pc \in ReportPcs, NEW i \in DOMAIN I, NEW X, Has(i, X), NEW Y, X \subseteq Y
      PROVE  Still(i, Y)
  <2>1. I[i] \in Dirs /\ dirs'[I[i]].counts = dirs[I[i]].counts
    BY <1>1, <1>2, <1>3, DocumentsStay
  <2> QED BY <1>3, <2>1
<1> HIDE DEF Has, Still
<1>4. /\ x.pc \in ReportPcs => \A i \in 1 .. x.k - 1 : Has(i, LabelsOf(x.point_list))
      /\ x.pc \in CombinedPcs => Has(x.k, LabelsOf(x.current))
      /\ x.pc \in ListedPcs => \A i \in DOMAIN I : Has(i, LabelsOf(x.point_list))
      /\ x.pc = "draw" => \A i \in DOMAIN I : Has(i, dirs[Output_(s)].gnu.labels)
  BY DEF PInv, LabelsRead, Labelled, Has, Plot
\* What is to be shown of the step.
<1>5. ASSUME y.pc \in ReportPcs => \A i \in 1 .. y.k - 1 : Still(i, LabelsOf(y.point_list)),
             y.pc \in CombinedPcs => Still(y.k, LabelsOf(y.current)),
             y.pc \in ListedPcs => \A i \in DOMAIN I : Still(i, LabelsOf(y.point_list)),
             y.pc = "draw" \/ (y.pc = "rest" /\ y.result = "done") =>
               \A i \in DOMAIN I : Still(i, dirs'[Output_(s)].gnu.labels)
      PROVE  LabelsRead(s)'
  BY <1>1, <1>5 DEF LabelsRead, Labelled, LabelsOf, Still, Finished, Done, At, Plot, IsDocument
<1>6. CASE y.pc = "rest" /\ y.result = "failed"
  BY <1>5, <1>6 DEF ReportPcs, PlotPcs, LinesPcs, DatPcs, CombinedPcs, ListedPcs
<1>7. CASE x.pc = "args" /\ x.k = 1 /\ y.k = 1 /\ y.pc \in {"makeout", "empty"}
  BY <1>5, <1>7 DEF CombinedPcs, ListedPcs, DatPcs
<1>8. CASE <<x.pc, y.pc>> \in Moves /\ SamePoints(x, y)
  <2>1. x.pc \in ReportPcs /\ y.pc # "rest"
    BY <1>8 DEF Moves, ReportPcs, PlotPcs, LinesPcs, DatPcs
  <2>2. y.k = x.k /\ y.current = x.current /\ y.point_list = x.point_list
    BY <1>8 DEF SamePoints
  <2>3. /\ y.pc \in CombinedPcs => x.pc \in CombinedPcs
        /\ y.pc \in ListedPcs => x.pc \in ListedPcs
        /\ y.pc = "draw" => x.pc = "labels"
    BY <1>8 DEF Moves, CombinedPcs, ListedPcs, DatPcs
  <2>4. \A i \in 1 .. x.k - 1 : i \in DOMAIN I  BY <1>2, <2>1
  <2>5. x.k \in DOMAIN I  BY <1>2, <2>1
  <2>6. ASSUME y.pc = "draw", NEW i \in DOMAIN I PROVE Still(i, dirs'[Output_(s)].gnu.labels)
    <3>1. AddPointLabels(s) /\ x.pc = "labels"  BY <2>3, <2>6, ReportAt DEF At
    <3>2. LabelsOf(x.point_list) \subseteq dirs'[Output_(s)].gnu.labels
      BY <3>1, PlotGrows DEF PlotPcs
    <3>3. Has(i, LabelsOf(x.point_list))  BY <1>4, <3>1 DEF ListedPcs
    <3> QED BY <1>3, <2>1, <3>2, <3>3
  <2> QED BY <1>3, <1>4, <1>5, <2>1, <2>2, <2>3, <2>4, <2>5, <2>6
<1>9. CASE /\ ReadTimes(s) /\ x.pc = "times" /\ y.pc = "dat" /\ y.k = x.k
           /\ y.point_list = x.point_list
           /\ Range(x.read.labels) \subseteq LabelsOf(y.current)
  <2>1. x.pc \in ReportPcs  BY <1>9 DEF ReportPcs, PlotPcs
  <2>2. \A i \in 1 .. x.k - 1 : i \in DOMAIN I  BY <1>2, <2>1
  <2>3. x.k \in DOMAIN I  BY <1>2, <2>1
  <2>4. Has(x.k, LabelsOf(y.current))
    BY <1>9 DEF DInv, Current, At, Input, Has
  <2> QED BY <1>3, <1>4, <1>5, <1>9, <2>1, <2>2, <2>3, <2>4 DEF CombinedPcs, ListedPcs, DatPcs
<1>10. CASE /\ AddDatFileReference(s) /\ x.pc = "refs"
            /\ y.point_list = x.point_list \o x.current
            /\ IF x.k = Len(I) THEN y.pc = "metainfo" /\ y.k = x.k
                               ELSE y.pc = "counts" /\ y.k = x.k + 1
  <2>1. x.pc \in ReportPcs  BY <1>10 DEF ReportPcs, PlotPcs
  <2>2. LabelsOf(x.point_list) \subseteq LabelsOf(y.point_list)
        /\ LabelsOf(x.current) \subseteq LabelsOf(y.point_list)
    <3>1. x.point_list \in Seq(Dot) /\ x.current \in Seq(Dot)  BY <1>1 DEF Shell
    <3> QED BY <1>10, <3>1, JoinedRange DEF LabelsOf
  <2>3. ASSUME NEW i \in 1 .. x.k - 1
        PROVE  i \in DOMAIN I /\ Still(i, LabelsOf(y.point_list))
    <3>1. i \in DOMAIN I  BY <1>2, <2>1
    <3>2. Has(i, LabelsOf(x.point_list))  BY <1>4, <2>1
    <3> QED BY <1>3, <2>1, <2>2, <3>1, <3>2
  <2>4. x.k \in DOMAIN I /\ Still(x.k, LabelsOf(y.point_list))
    BY <1>2, <1>3, <1>4, <1>10, <2>1, <2>2 DEF CombinedPcs
  <2>5. \A i \in 1 .. x.k : Still(i, LabelsOf(y.point_list))
    <3>1. \A i \in 1 .. x.k : i = x.k \/ i \in 1 .. x.k - 1  BY <1>2, <2>1
    <3> QED BY <2>3, <2>4, <3>1
  <2>6. CASE x.k = Len(I)
    <3>1. y.pc = "metainfo" /\ y.k = x.k /\ DOMAIN I = 1 .. x.k  BY <1>2, <1>10, <2>1, <2>6
    <3> QED BY <1>5, <2>3, <2>5, <3>1 DEF CombinedPcs, ListedPcs, DatPcs
  <2>7. CASE x.k # Len(I)
    <3>1. y.pc = "counts" /\ y.k = x.k + 1 /\ 1 .. y.k - 1 = 1 .. x.k  BY <1>2, <1>10, <2>1, <2>7
    <3> QED BY <1>5, <2>5, <3>1 DEF CombinedPcs, ListedPcs, DatPcs
  <2> QED BY <2>6, <2>7
<1>11. CASE Draw(s) /\ x.pc = "draw" /\ y.pc = "rest" /\ y.result = "done" /\ SamePoints(x, y)
  <2>1. x.pc \in ReportPcs /\ dirs' = dirs
    BY <1>11 DEF Draw, files, ReportPcs, PlotPcs
  <2>2. \A i \in DOMAIN I : Still(i, dirs'[Output_(s)].gnu.labels)
    BY <1>3, <1>4, <1>11, <2>1
  <2> QED BY <1>5, <1>11, <2>2
          DEF ReportPcs, PlotPcs, LinesPcs, DatPcs, CombinedPcs, ListedPcs
<1> QED BY <1>6, <1>7, <1>8, <1>9, <1>10, <1>11, ReportGoesOn

\* Every step keeps the plots in order, as no two reports share one.
LEMMA PlotsInOrder ==
  ASSUME SeparateReports, IInv, RInv, TInv, DInv, PInv, [Next]_vars
  PROVE  PInv'
<1>1. EntriesStay'  BY EntriesKept DEF PInv, EntriesStay
<1>2. CASE UNCHANGED vars
  <2>1. dirs' = dirs /\ sh' = sh /\ rooflines' = rooflines  BY <1>2 DEF vars, files
  <2>2. ASSUME NEW s \in Shells PROVE (Reported(s) /\ LinesDrawn(s) /\ LabelsRead(s))'
    <3>1. Reported(s) /\ LinesDrawn(s) /\ LabelsRead(s)  BY DEF PInv
    <3>2. Reported(s)'
      BY <2>1, <3>1 DEF Reported, Shows, Finished, Done, At, Args, Inputs, Lines, Output_
    <3>3. LinesDrawn(s)'
      BY <2>1, <3>1 DEF LinesDrawn, FurtherThere, FurtherLines, IsOf, HasLine, Plot, Shows,
        Finished, Done, At, Args, Inputs, Lines, Output_
    <3>4. LabelsRead(s)'
      BY <2>1, <3>1 DEF LabelsRead, Labelled, LabelsOf, Plot, Finished, Done, At, Args, Inputs,
        Output_, IsDocument
    <3> QED BY <3>2, <3>3, <3>4
  <2> QED BY <1>1, <2>2 DEF PInv
<1>3. ASSUME NEW s \in Shells, Works(s) PROVE PInv'
  <2>1. (Reported(s) /\ LinesDrawn(s) /\ LabelsRead(s))'
    <3>1. CASE Report(s) /\ Shows(s)'  BY <3>1, LinesKept, LabelsKept
    <3>2. CASE Report(s) /\ ~Shows(s)'
      BY <3>2, LabelsKept DEF Reported, LinesDrawn
    <3>3. CASE ~Report(s)
      <4>1. ~Shows(s)' /\ sh'[s].pc \notin ReportPcs  BY <1>3, <3>3, NothingShown
      <4>2. sh'[s].pc \notin CombinedPcs \cup ListedPcs \cup {"draw"}
        BY <4>1 DEF CombinedPcs, ListedPcs, ReportPcs, PlotPcs
      <4> QED BY <4>1, <4>2 DEF Reported, LinesDrawn, LabelsRead, Shows
    <3> QED BY <3>1, <3>2, <3>3
  <2>2. ASSUME NEW u \in Shells, u # s PROVE (Reported(u) /\ LinesDrawn(u) /\ LabelsRead(u))'
    BY <1>3, <2>2, OthersShown
  <2> QED BY <1>1, <2>1, <2>2 DEF PInv
<1> QED BY <1>2, <1>3 DEF Next, Rest, Works

\* At first nothing is shown.
LEMMA PlotsBegin ==
  ASSUME Init
  PROVE  PInv
<1>1. \A s \in Shells : sh[s].pc = "rest" /\ sh[s].result = "none"  BY DEF Init, AtRest
<1>2. \A s \in Shells : ~Shows(s) /\ ~Finished(s) /\ sh[s].pc \notin ReportPcs
  BY <1>1 DEF Shows, Finished, Done, ReportPcs, PlotPcs, LinesPcs, DatPcs
<1>3. EntriesStay  BY DEF Init, EntriesStay
<1>4. \A s \in Shells : sh[s].pc \notin CombinedPcs \cup ListedPcs \cup {"draw"}
  BY <1>1 DEF CombinedPcs, ListedPcs, DatPcs
<1> QED BY <1>2, <1>3, <1>4 DEF PInv, Reported, LinesDrawn, LabelsRead

\* All that is known of the commands.
LEMMA PlotsAlways ==
  ASSUME SeparateReports
  PROVE  Spec => [](RInv /\ PInv)
<1> USE SeparateReports
<1> QED BY Begins, Inductive, RecordingsBegin, RecordingsKept, TitlesBegin, TitlesKept,
      DotsBegin, DotsKept, PlotsBegin, PlotsInOrder, PTL DEF Spec

(***************************************************************************)
(* A report that ends normally leaves a script that gnuplot draws, with    *)
(* the roofline asked for first and every further one, if the further ones *)
(* have been in the database all the time.  Others may measure rooflines   *)
(* and move them into the database meanwhile.                              *)
(***************************************************************************)
THEOREM RooflinesDrawn ==
  ASSUME SeparateReports
  PROVE  Spec => []LinesShown
<1>1. ASSUME RInv, PInv PROVE LinesShown
  <2> SUFFICES ASSUME NEW s \in Shells, Done(s, "report"), FurtherThere(s)
               PROVE  Plot(s).end = "complete" /\ \A l \in Range(Lines(s)) : HasLine(s, l)
    BY DEF LinesShown, HasLine, FurtherThere, Draws
  <2>1. At(s, "rest")  BY <1>1 DEF RInv, InOrder, Started, Done, At
  <2>2. Shows(s)  BY <2>1 DEF Shows, Finished
  <2> QED BY <1>1, <2>1, <2>2 DEF PInv, LinesDrawn, At, LinesPcs
<1>2. RInv /\ PInv => LinesShown  BY <1>1
<1> QED BY <1>2, PlotsAlways, PTL

(***************************************************************************)
(* A report that ends normally has labelled every point that its inputs    *)
(* have, and they have no other points later: the counters it has read     *)
(* were final.                                                             *)
(***************************************************************************)
THEOREM LabelsDrawn ==
  ASSUME SeparateReports
  PROVE  Spec => []LabelsComplete
<1>1. ASSUME RInv, PInv PROVE LabelsComplete
  <2> SUFFICES ASSUME NEW s \in Shells, Done(s, "report"), NEW i \in DOMAIN Inputs(s)
               PROVE  Range(dirs[Inputs(s)[i]].counts.labels) \subseteq Plot(s).labels
    BY DEF LabelsComplete
  <2>1. At(s, "rest")  BY <1>1 DEF RInv, InOrder, Started, Done, At
  <2> QED BY <1>1, <2>1 DEF PInv, LabelsRead, Labelled, Finished
<1>2. RInv /\ PInv => LabelsComplete  BY <1>1
<1> QED BY <1>2, PlotsAlways, PTL
=============================================================================
