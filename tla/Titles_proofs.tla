----------------------------- MODULE Titles_proofs -----------------------------
(***************************************************************************)
(* Proofs about what reports leave in the directories of recordings, for   *)
(* any number of users and directories: the meta information of a          *)
(* recording names its application first, and the points in a .dat file    *)
(* are of the application that the file is named for.                      *)
(*                                                                         *)
(* A report that rewrites the meta information of its first input has read *)
(* it before: NewTitle says why it is still right when it is written.  A   *)
(* .dat file has points of a recording only once that recording has its    *)
(* counters: KnownPast and KnownNow.                                       *)
(***************************************************************************)
EXTENDS Recordings_proofs

\* The command in a shell is one of those that may be run there.
Allowed(s) == ~At(s, "rest") => Args(s) \in Commands[s]
\* The inputs of a report have counters, or will have.
Counted(s) == sh[s].pc \in ReportPcs => \A d \in Range(Inputs(s)) : dirs[d].counts # NoFile

Titled(d) ==
  IsDocument(dirs[d].counts) /\ dirs[d].meta # <<>> /\ ~Retitled(d) =>
    Head(dirs[d].meta) = dirs[d].counts.app
\* A recording under way has put its application first before it has counters.
OwnTitle(s) ==
  Owns(s) =>
    LET y == dirs[OutDir(s)]
    IN /\ IsDocument(y.counts) => y.counts.app = Args(s).app
       /\ ~At(s, "meta") /\ ~Retitled(OutDir(s)) /\ y.meta # <<>> => Head(y.meta) = Args(s).app
\* What a report is about to write into the directory of a recording.
Entitled(s, d) ==
  /\ sh[s].meta # <<>>
  /\ IsDocument(dirs[d].counts) => Head(sh[s].meta) = dirs[d].counts.app
  /\ \A r \in Shells : Owns(r) /\ OutDir(r) = d =>
       ~At(r, "meta") /\ Head(sh[s].meta) = Args(r).app
NewTitle(s) == At(s, "writemeta") /\ ~Retitled(Output_(s)) => Entitled(s, Output_(s))

TInv ==
  /\ \A d \in Dirs : Titled(d)
  /\ \A s \in Shells : Allowed(s) /\ Counted(s) /\ OwnTitle(s) /\ NewTitle(s)
-----------------------------------------------------------------------------
\* A report that goes into a directory that is not retitled has it first.
LEMMA OutputIsFirst ==
  ASSUME IInv, NEW s \in Shells, sh[s].pc \in ReportPcs, Allowed(s), ~Retitled(Output_(s))
  PROVE  Output_(s) = Head(Inputs(s)) /\ Output_(s) \in Range(Inputs(s)) /\ Output_(s) \in Dirs
<1>1. /\ sh[s].cmd \in ReportCommand /\ Inputs(s) # <<>> /\ Inputs(s) \in Seq(Dirs)
      /\ Output_(s) \in Dirs
  BY Names DEF IInv, Fits, ReportCommand, Inputs, Args
<1>2. Args(s) \in Commands[s]  BY DEF Allowed, At, ReportPcs, PlotPcs, LinesPcs, DatPcs
<1>3. Output_(s) = Head(Inputs(s))
  BY <1>1, <1>2 DEF Output_, Retitled, Inputs, Args, ReportCommand
<1>4. Head(Inputs(s)) = Inputs(s)[1] /\ 1 \in DOMAIN Inputs(s)  BY <1>1
<1> QED BY <1>1, <1>3, <1>4 DEF Range

\* The effect of a step of record on the two files that titles are about.
LEMMA RecordTitles ==
  ASSUME IInv, RInv, NEW s \in Shells, Record(s), NEW d \in Dirs
  PROVE  \/ /\ ~(SaveMeta(s) /\ d = OutDir(s))
            /\ dirs'[d].counts = dirs[d].counts /\ dirs'[d].meta = dirs[d].meta
         \/ /\ SaveMeta(s) /\ d = OutDir(s) /\ Owns(s) /\ dirs[d].counts = NoFile
            /\ dirs'[d].counts = NoFile /\ dirs'[d].meta = <<Args(s).app>>
         \/ /\ ClientStarts(s) /\ d = OutDir(s) /\ Owns(s) /\ dirs'[d].meta = dirs[d].meta
            /\ dirs'[d].counts = Broken
         \/ /\ ClientEnds(s) /\ d = OutDir(s) /\ Owns(s) /\ dirs'[d].meta = dirs[d].meta
            /\ ~IsDocument(dirs[d].counts)
            /\ dirs'[d].counts \in Document /\ dirs'[d].counts.by = Id(s)
            /\ dirs'[d].counts.app = Args(s).app
<1>1. /\ RecordLeaves(s) /\ TypeOK /\ OutDir(s) \in Dirs /\ sh[s] \in Shell /\ InOrder(s)
      /\ dirs \in [Dirs -> Directory] /\ dirs[d] \in Directory
      /\ sh[s].cmd \in RecordCommand
  BY RecordFrame DEF IInv, TypeOK, RInv, Fits
<1>2. ASSUME SaveMeta(s), d = OutDir(s)
      PROVE  /\ Owns(s) /\ dirs[d].counts = NoFile
             /\ dirs'[d].counts = NoFile /\ dirs'[d].meta = <<Args(s).app>>
  <2>1. Owns(s) /\ sh[s].runs = 0
    BY <1>1, <1>2 DEF SaveMeta, At, Owns, OwnPcs, RecordPcs, InOrder, Started
  <2>2. dirs[d].counts = NoFile  BY <1>1, <1>2, <2>1 DEF InOrder, Unrecorded
  <2>3. dirs'[d] = [dirs[d] EXCEPT !.meta = <<Args(s).app>>]  BY <1>1, <1>2 DEF SaveMeta
  <2> QED BY <1>1, <2>1, <2>2, <2>3 DEF Directory
<1>3. ASSUME ClientStarts(s), d = OutDir(s)
      PROVE  Owns(s) /\ dirs'[d].meta = dirs[d].meta
             /\ dirs'[d].counts \in {Broken, dirs[d].counts}
  <2>1. Owns(s) /\ SetOutput(s, sh[s].runs + 1, Broken)
    BY <1>3 DEF ClientStarts, At, Owns, OwnPcs, RecordPcs
  <2>2. ~SaveMeta(s)  BY <1>3 DEF ClientStarts, SaveMeta, At
  <2> QED BY <1>1, <1>3, <2>1, <2>2, OutputSet DEF RecordLeaves
<1>4. ASSUME ClientEnds(s), d = OutDir(s), dirs'[d].counts # dirs[d].counts
      PROVE  /\ Owns(s) /\ dirs'[d].meta = dirs[d].meta /\ ~IsDocument(dirs[d].counts)
             /\ dirs'[d].counts \in Document /\ dirs'[d].counts.by = Id(s)
             /\ dirs'[d].counts.app = Args(s).app
  <2>1. Owns(s) /\ ~SaveMeta(s) /\ At(s, "running")
    BY <1>4 DEF ClientEnds, SaveMeta, At, Owns, OwnPcs, RecordPcs
  <2>2. PICK o \in Outcomes :
          SetOutput(s, sh[s].runs,
            [by |-> Id(s), run |-> sh[s].runs, app |-> Args(s).app,
             labels |-> o.labels, zero |-> o.zero])
    BY <1>4 DEF ClientEnds
  <2> DEFINE f == [by |-> Id(s), run |-> sh[s].runs, app |-> Args(s).app,
                   labels |-> o.labels, zero |-> o.zero]
  <2>3. f \in Document /\ f.by = Id(s) /\ f.app = Args(s).app
    BY <1>1, WorldAssumption DEF Document, Outcome, Ids, Id, Shell, Args, RecordCommand
  <2> HIDE DEF f
  <2>4. SetOutput(s, sh[s].runs, f)  BY <2>2 DEF f
  <2>5. Counting(s, sh[s].runs) /\ dirs'[d].counts = f
    BY <1>1, <1>4, <2>4, OutputSet
  <2>6. sh[s].runs = 1  BY <2>5 DEF Counting
  <2>7. ~IsDocument(dirs[d].counts)  BY <1>1, <1>4, <2>1, <2>6 DEF InOrder, Unrecorded
  <2> QED BY <1>1, <2>1, <2>3, <2>5, <2>7 DEF RecordLeaves
<1>5. CASE d = OutDir(s)
  BY <1>1, <1>2, <1>3, <1>4, <1>5 DEF RecordLeaves
<1>6. CASE d # OutDir(s)  BY <1>1, <1>6 DEF RecordLeaves
<1> QED BY <1>5, <1>6

\* What a step of report does to the meta information.
LEMMA ReportTitles ==
  ASSUME IInv, NEW s \in Shells, Report(s), NEW d \in Dirs
  PROVE  /\ dirs'[d].counts = dirs[d].counts
         /\ \/ dirs'[d].meta = dirs[d].meta
            \/ dirs'[d].meta = <<>>
            \/ At(s, "writemeta") /\ d = Output_(s) /\ dirs'[d].meta = sh[s].meta
<1>1. ReportLeaves(s) /\ TypeOK /\ dirs \in [Dirs -> Directory]
  BY ReportFrame DEF IInv, TypeOK
<1>2. ASSUME TruncateMetainfo(s) \/ WriteMetainfo(s), d = Output_(s)
      PROVE  dirs'[d].meta \in {dirs[d].meta, <<>>} \/ (At(s, "writemeta") /\ dirs'[d].meta = sh[s].meta)
  <2>1. CASE dirs' = dirs  BY <2>1
  <2>2. ASSUME NEW m, dirs' = [dirs EXCEPT ![d].meta = m] PROVE dirs'[d].meta = m
    <3>1. dirs'[d] = [dirs[d] EXCEPT !.meta = m]  BY <1>1, <2>2
    <3> QED BY <1>1, <3>1 DEF Directory
  <2> QED BY <1>2, <2>1, <2>2 DEF TruncateMetainfo, WriteMetainfo
<1> QED BY <1>1, <1>2 DEF ReportLeaves, Kept

\* Where a process goes.
LEMMA GoesTo ==
  ASSUME TypeOK, NEW s \in Shells
  PROVE  /\ \A c : Goto(s, c) => sh'[s].pc = c
         /\ Fail(s) \/ Return(s) => sh'[s].pc = "rest"
<1>1. sh \in [Shells -> Shell] /\ sh[s] \in Shell  BY DEF TypeOK
<1>2. \A c : Goto(s, c) => sh'[s].pc = c  BY <1>1 DEF Goto, Shell
<1>3. Fail(s) \/ Return(s) => sh'[s].pc = "rest"  BY <1>1 DEF Fail, Return, Shell
<1> QED BY <1>2, <1>3

\* A report comes to its last file by truncating it.
LEMMA TruncatedFirst ==
  ASSUME IInv, NEW s \in Shells, Report(s), At(s, "writemeta")'
  PROVE  TruncateMetainfo(s) /\ ~Fail(s)
<1>1. sh \in [Shells -> Shell] /\ sh[s] \in Shell  BY DEF IInv, TypeOK
<1>2. ~Fail(s) /\ ~Return(s) /\ \A c : Goto(s, c) => c = "writemeta"
  BY GoesTo DEF IInv, At
<1>3. CASE CheckoutInputArgs(s) \/ MakeOutput(s) \/ ContinuePlot(s) \/ OpenDatFile(s)
           \/ WriteMetainfo(s) \/ AddPointLabels(s) \/ Draw(s)
  BY <1>2, <1>3 DEF CheckoutInputArgs, MakeOutput, ContinuePlot, OpenDatFile, WriteMetainfo,
    AddPointLabels, Draw
<1>5. CASE CopyEmptyRoofline(s) \/ FillRoofline(s) \/ TailLine(s) \/ AppendLines(s)
  BY <1>1, <1>2, <1>5
     DEF CopyEmptyRoofline, FillRoofline, TailLine, AppendLines, Shell, At
<1>6. CASE ReadCounts(s) \/ ReadTimes(s) \/ CreateDatFile(s) \/ WritePoints(s)
  BY <1>1, <1>2, <1>6 DEF ReadCounts, ReadTimes, CreateDatFile, WritePoints, Shell, At
<1>7. CASE CopyDatFile(s) \/ FillDatFile(s)
  BY <1>1, <1>2, <1>7 DEF CopyDatFile, FillDatFile, Shell, At
<1>8. CASE AddDatFileReference(s)
  BY <1>1, <1>2, <1>8 DEF AddDatFileReference, Shell, At
<1>4. CASE TruncateMetainfo(s)
  BY <1>1, <1>4 DEF TruncateMetainfo, Fail, Shell, At
<1> QED BY <1>3, <1>4, <1>5, <1>6, <1>7, <1>8 DEF Report

\* Counters that are there, if incomplete, do not go away.
LEMMA CountsStay ==
  ASSUME IInv, RInv, NEW s \in Shells, Works(s), NEW d \in Dirs, dirs[d].counts # NoFile
  PROVE  dirs'[d].counts # NoFile
<1>1. CASE Record(s)  BY <1>1, RecordTitles, FilesAssumption
<1>2. CASE Report(s)  BY <1>2, ReportTitles
<1>3. CASE Begin(s) \/ RecordErt(s) \/ Kill(s)  BY <1>3, OtherFrame
<1> QED BY <1>1, <1>2, <1>3 DEF Works, Step

\* The commands and the inputs of reports stay what they are.
LEMMA StillAllowed ==
  ASSUME IInv, RInv, TInv, NEW s \in Shells, Works(s), NEW r \in Shells
  PROVE  (Allowed(r) /\ Counted(r))'
<1>1. /\ TypeOK /\ sh \in [Shells -> Shell] /\ Allowed(r) /\ Counted(r)
      /\ \A u \in Shells : u # s => sh'[u] = sh[u]
  BY WorksLeaves DEF IInv, TypeOK, TInv, Leaves
<1>2. ASSUME sh[r].pc \in ReportPcs, sh'[r].cmd = sh[r].cmd PROVE Counted(r)'
  <2>1. Range(Inputs(r)) \subseteq Dirs
    <3>1. Inputs(r) \in Seq(Dirs)  BY <1>2 DEF IInv, Fits, ReportCommand, Inputs, Args
    <3> QED BY <3>1, RangeOfSequence
  <2>2. Inputs(r)' = Inputs(r)  BY <1>2 DEF Inputs, Args
  <2> QED BY <1>1, <1>2, <2>1, <2>2, CountsStay DEF Counted
<1>3. CASE r # s
  <2>1. sh'[r] = sh[r]  BY <1>1, <1>3
  <2>2. Allowed(r)'  BY <1>1, <2>1 DEF Allowed, At, Args
  <2>3. CASE sh[r].pc \in ReportPcs  BY <1>2, <2>1, <2>2, <2>3
  <2>4. CASE sh[r].pc \notin ReportPcs  BY <2>1, <2>2, <2>4 DEF Counted
  <2> QED BY <2>3, <2>4
<1>4. CASE r = s /\ Record(s)
  <2>1. GoesOn(s, RecordPcs) /\ sh[s].pc \in RecordPcs  BY <1>4, RecordFrame
  <2> QED BY <1>1, <1>4, <2>1
      DEF GoesOn, Allowed, At, Args, Counted, RecordPcs, ReportPcs, PlotPcs, LinesPcs, DatPcs
<1>5. CASE r = s /\ Report(s)
  <2>1. GoesOn(s, ReportPcs) /\ sh[s].pc \in ReportPcs \cup {"args"} /\ Inputs(s)' = Inputs(s)
    BY <1>5, ReportFrame
  <2>2. Allowed(s)'
    BY <1>1, <1>5, <2>1 DEF GoesOn, Allowed, At, Args, ReportPcs, PlotPcs, LinesPcs, DatPcs
  <2>3. CASE sh[s].pc \in ReportPcs  BY <1>2, <1>5, <2>1, <2>2, <2>3 DEF GoesOn
  <2>4. CASE sh[s].pc = "args"
    <3>1. CheckoutInputArgs(s) /\ dirs' = dirs
      BY <1>5, <2>4 DEF Report, CheckoutInputArgs, MakeOutput, CopyEmptyRoofline,
        FillRoofline, ContinuePlot, TailLine, AppendLines, ReadCounts, ReadTimes,
        CreateDatFile, WritePoints, CopyDatFile, OpenDatFile, FillDatFile,
        AddDatFileReference, TruncateMetainfo, WriteMetainfo, AddPointLabels, Draw, At, files
    <3>2. CASE Fail(s)
      <4>1. sh'[s].pc = "rest"  BY <1>1, <3>2 DEF Fail, Shell
      <4> QED BY <1>5, <2>2, <4>1 DEF Counted, ReportPcs, PlotPcs, LinesPcs, DatPcs
    <3>3. CASE ~Fail(s)
      <4>1. \A i \in DOMAIN Inputs(s) : dirs[Inputs(s)[i]].counts # NoFile
        BY <3>1, <3>3 DEF CheckoutInputArgs
      <4> QED BY <1>5, <2>1, <2>2, <3>1, <4>1 DEF Counted, Range
    <3> QED BY <3>2, <3>3
  <2> QED BY <2>1, <2>3, <2>4
<1>6. CASE r = s /\ (RecordErt(s) \/ Kill(s))
  <2>1. sh'[s].cmd = sh[s].cmd /\ sh'[s].pc \in ErtPcs \cup {"rest"} /\ sh[s].pc # "rest"
    <3>1. CASE RecordErt(s)  BY <3>1, ErtFrame DEF GoesOn, ErtPcs
    <3>2. CASE Kill(s)  BY <1>1, <3>2 DEF Kill, Fail, Shell, At
    <3> QED BY <1>6, <3>1, <3>2
  <2> QED BY <1>1, <1>6, <2>1
      DEF Allowed, At, Args, Counted, ErtPcs, ReportPcs, PlotPcs, LinesPcs, DatPcs
<1>7. CASE r = s /\ Begin(s)
  <2>1. PICK c \in Commands[s] :
          sh' = [sh EXCEPT ![s] = [AtRest EXCEPT !.pc = Entered(c), !.cmd = c,
                                                 !.count = sh[s].count + 1]]
    BY <1>7 DEF Begin
  <2>2. sh'[s].pc \in {"exists", "args", "template"} /\ sh'[s].cmd = c
    BY <1>1, <2>1 DEF AtRest, Entered
  <2> QED BY <1>7, <2>2 DEF Allowed, Args, Counted, ReportPcs, PlotPcs, LinesPcs, DatPcs
<1> QED BY <1>3, <1>4, <1>5, <1>6, <1>7 DEF Works, Step
-----------------------------------------------------------------------------
\* A shell that a step of another one leaves alone.
LEMMA SameShell ==
  ASSUME NEW r \in Shells, sh'[r] = sh[r]
  PROVE  /\ Owns(r)' <=> Owns(r)
         /\ \A c : At(r, c)' <=> At(r, c)
         /\ OutDir(r)' = OutDir(r) /\ Args(r)' = Args(r) /\ Id(r)' = Id(r)
         /\ Inputs(r)' = Inputs(r) /\ Output_(r)' = Output_(r) /\ sh'[r].meta = sh[r].meta
  BY DEF Owns, At, OutDir, Args, Id, Inputs, Output_

\* A recording that has saved its title does not come back to that.
LEMMA PastMeta ==
  ASSUME IInv, NEW s \in Shells, Record(s), Owns(s), ~At(s, "meta")
  PROVE  ~At(s, "meta")'
<1>1. TypeOK /\ sh[s] \in Shell /\ sh[s].pc \in OwnPcs \ {"meta"}
  BY DEF IInv, TypeOK, Owns, At
<1>2. CASE ClientStarts(s) \/ ClientDoesNotStart(s) \/ TimeApplication(s)
  <2>1. CASE ClientStarts(s) \/ ClientDoesNotStart(s)
    <3>1. \E c \in {"running", "ran"} : \E n :
            sh' = [sh EXCEPT ![s] = [sh[s] EXCEPT !.pc = c, !.runs = n]]
      BY <1>1, <2>1 DEF ClientStarts, ClientDoesNotStart
    <3> QED BY <1>1, <3>1 DEF At, TypeOK, Shell
  <2>2. CASE TimeApplication(s)
    <3>1. sh \in [Shells -> Shell] /\ sh[s].pc = "timing"
      BY <1>1, <2>2 DEF TimeApplication, At, TypeOK
    <3>2. \E c \in {"timing", "client"} : \E v :
            \/ sh' = [sh EXCEPT ![s].native = v]
            \/ sh' = [sh EXCEPT ![s].dynamorio = v, ![s].pc = c]
      <4>1. CASE Len(sh[s].native) < Analysis(s)
        BY <2>2, <4>1 DEF TimeApplication
      <4>2. CASE ~(Len(sh[s].native) < Analysis(s))
        BY <2>2, <3>1, <4>2 DEF TimeApplication
      <4> QED BY <4>1, <4>2
    <3>3. sh'[s].pc \in {"timing", "client"}  BY <1>1, <3>1, <3>2 DEF Shell
    <3> QED BY <3>3 DEF At
  <2> QED BY <1>2, <2>1, <2>2
<1>3. CASE ClientEnds(s) \/ NextRun(s) \/ MoveTimes(s) \/ ParseTimes(s)
           \/ EndAnalysis(s) \/ Recorded(s)
  BY <1>1, <1>3, GoesTo
     DEF ClientEnds, NextRun, MoveTimes, ParseTimes, EndAnalysis, Recorded, At
<1>4. CASE SaveStatistics(s)
  <2>1. CASE Return(s)  BY <1>1, <2>1, GoesTo DEF At
  <2>2. CASE ~Return(s)
    BY <1>1, <1>4, <2>2 DEF SaveStatistics, At, TypeOK, Shell
  <2> QED BY <2>1, <2>2
<1>5. ~CheckOutput(s) /\ ~MakeDirs(s) /\ ~SaveMeta(s)
  BY <1>1 DEF CheckOutput, MakeDirs, SaveMeta, At, OwnPcs, RecordPcs
<1> QED BY <1>2, <1>3, <1>4, <1>5 DEF Record

\* A recording puts its application first, before it has counters.
LEMMA RecordTitled ==
  ASSUME IInv, RInv, TInv, NEW s \in Shells, Record(s)
  PROVE  TInv'
<1>1. /\ TypeOK /\ OutDir(s) \in Dirs /\ sh[s].pc \in RecordPcs /\ GoesOn(s, RecordPcs)
      /\ OutDir(s)' = OutDir(s) /\ Args(s)' = Args(s) /\ RecordLeaves(s)
      /\ OwnTitle(s) /\ sh[s].cmd \in RecordCommand
  BY RecordFrame DEF IInv, GoesOn, Args, TInv, Fits
<1>2. \A r \in Shells : r # s => sh'[r] = sh[r]  BY <1>1 DEF GoesOn
<1>3. ASSUME NEW d \in Dirs PROVE Titled(d)'
  <2>1. CASE dirs'[d].counts = dirs[d].counts /\ dirs'[d].meta = dirs[d].meta
    BY <2>1 DEF TInv, Titled, IsDocument
  <2>2. CASE ~IsDocument(dirs'[d].counts)  BY <2>2 DEF Titled, IsDocument
  <2>3. CASE /\ ClientEnds(s) /\ d = OutDir(s) /\ Owns(s) /\ dirs'[d].meta = dirs[d].meta
             /\ dirs'[d].counts.app = Args(s).app
    <3>1. ~At(s, "meta")  BY <2>3 DEF ClientEnds, At
    <3>2. ~Retitled(d) /\ dirs[d].meta # <<>> => Head(dirs[d].meta) = Args(s).app
      BY <1>1, <2>3, <3>1 DEF OwnTitle
    <3> QED BY <2>3, <3>2 DEF Titled
  <2> QED BY <2>1, <2>2, <2>3, RecordTitles DEF IsDocument
<1>4. OwnTitle(s)'
  <2> DEFINE d == OutDir(s)
  <2> SUFFICES ASSUME Owns(s)'
               PROVE  /\ IsDocument(dirs'[d].counts) => dirs'[d].counts.app = Args(s).app
                      /\ ~At(s, "meta")' /\ ~Retitled(d) /\ dirs'[d].meta # <<>> =>
                           Head(dirs'[d].meta) = Args(s).app
    BY <1>1 DEF OwnTitle, IsDocument
  <2>1. CASE ~Owns(s)
    <3>1. ~dirs[d].exists
      BY <1>1, <2>1, RecordInOrder DEF Holds, At, RecordPcs
    <3>2. dirs'[d].counts = NoFile
      BY <1>1, <2>1, <3>1 DEF RInv, Fresh, RecordLeaves, Kept
    <3>3. MakeDirs(s)
      <4>1. sh[s].pc \in {"exists", "makedirs"}
        BY <1>1, <2>1 DEF Owns, OwnPcs, RecordPcs
      <4>2. CheckOutput(s) \/ MakeDirs(s)
        BY <4>1 DEF Record, CheckOutput, MakeDirs, SaveMeta, ClientStarts, ClientDoesNotStart,
          ClientEnds, NextRun, MoveTimes, ParseTimes, TimeApplication, EndAnalysis,
          SaveStatistics, Recorded, At
      <4>3. CheckOutput(s) => sh'[s].pc \in {"rest", "makedirs"}
        BY <1>1, GoesTo DEF CheckOutput
      <4> QED BY <1>1, <2>1, <4>2, <4>3 DEF Owns, OwnPcs, RecordPcs
    <3>4. At(s, "meta")'
      BY <1>1, <3>1, <3>3 DEF MakeDirs, Goto, At, TypeOK, Shell
    <3> QED BY <3>2, <3>4 DEF IsDocument
  <2>2. CASE Owns(s)
    <3>1. /\ IsDocument(dirs[d].counts) => dirs[d].counts.app = Args(s).app
          /\ ~At(s, "meta") /\ ~Retitled(d) /\ dirs[d].meta # <<>> => Head(dirs[d].meta) = Args(s).app
      BY <1>1, <2>2 DEF OwnTitle
    <3>2. CASE SaveMeta(s)
      <4>1. dirs'[d].counts = NoFile /\ dirs'[d].meta = <<Args(s).app>>
        BY <1>1, <3>2, RecordTitles DEF SaveMeta, ClientStarts, ClientEnds, At, RecordLeaves
      <4> QED BY <4>1 DEF IsDocument
    <3>3. CASE ~SaveMeta(s)
      <4>1. ~At(s, "meta")
        BY <2>2, <3>3 DEF Record, MakeDirs, CheckOutput, ClientStarts, ClientDoesNotStart,
          ClientEnds, NextRun, MoveTimes, ParseTimes, TimeApplication, EndAnalysis,
          SaveStatistics, Recorded, At
      <4>2. dirs'[d].meta = dirs[d].meta  BY <1>1, <3>3 DEF RecordLeaves
      <4>3. dirs'[d].counts = dirs[d].counts \/ ~IsDocument(dirs'[d].counts)
            \/ dirs'[d].counts.app = Args(s).app
        BY <1>1, <3>3, RecordTitles DEF IsDocument
      <4> QED BY <3>1, <4>1, <4>2, <4>3
    <3> QED BY <3>2, <3>3
  <2> QED BY <2>1, <2>2
<1>5. ASSUME NEW r \in Shells, r # s PROVE OwnTitle(r)'
  <2>1. sh'[r] = sh[r]  BY <1>2, <1>5
  <2> SUFFICES ASSUME Owns(r) PROVE OwnTitle(r)'
    BY <2>1, SameShell DEF OwnTitle
  <2>2. OutDir(r) \in Dirs /\ ~(Owns(s) /\ OutDir(r) = OutDir(s))
    BY <1>5, HeldNames DEF IInv, Holds, RInv, SoleHolder
  <2>3. dirs'[OutDir(r)].counts = dirs[OutDir(r)].counts /\ dirs'[OutDir(r)].meta = dirs[OutDir(r)].meta
    BY <2>2, RecordTitles
  <2> QED BY <2>1, <2>3, SameShell DEF TInv, OwnTitle, IsDocument
<1>6. ASSUME NEW u \in Shells PROVE NewTitle(u)'
  <2> DEFINE d == Output_(u)
  <2>1. CASE u = s
    <3>1. ~At(s, "writemeta")'  BY <1>1 DEF GoesOn, At, RecordPcs
    <3> QED BY <2>1, <3>1 DEF NewTitle
  <2>2. CASE u # s
    <3>1. sh'[u] = sh[u]  BY <1>2, <2>2
    <3> SUFFICES ASSUME At(u, "writemeta"), ~Retitled(d) PROVE Entitled(u, d)'
      BY <3>1, SameShell DEF NewTitle, Entitled
    <3>2. d \in Dirs /\ dirs[d].counts # NoFile
      <4>1. sh[u].pc \in ReportPcs /\ Allowed(u) /\ Counted(u)
        BY DEF At, ReportPcs, PlotPcs, LinesPcs, DatPcs, TInv
      <4> QED BY <4>1, OutputIsFirst DEF Counted
    <3>3. Entitled(u, d)  BY DEF TInv, NewTitle
    <3>4. IsDocument(dirs'[d].counts) => Head(sh[u].meta) = dirs'[d].counts.app
      <4>1. CASE dirs'[d].counts = dirs[d].counts  BY <3>3, <4>1 DEF Entitled
      <4>2. CASE d = OutDir(s) /\ Owns(s) /\ dirs'[d].counts.app = Args(s).app
        BY <3>3, <4>2 DEF Entitled
      <4> QED BY <3>2, <4>1, <4>2, RecordTitles, FilesAssumption DEF IsDocument
    <3>5. ASSUME NEW r \in Shells, Owns(r)', OutDir(r)' = d
          PROVE  ~At(r, "meta")' /\ Head(sh[u].meta) = Args(r)'.app
      <4>1. CASE r # s
        <5>1. sh'[r] = sh[r]  BY <1>2, <4>1
        <5> QED BY <3>3, <3>5, <5>1, SameShell DEF Entitled
      <4>2. CASE r = s
        <5>1. Owns(s)
          <6>1. ~Owns(s) => ~dirs[d].exists
            BY <1>1, <3>5, <4>2, RecordInOrder DEF Holds, At, RecordPcs
          <6> QED BY <3>2, <6>1 DEF RInv, Fresh
        <5>2. ~At(s, "meta") /\ Head(sh[u].meta) = Args(s).app
          BY <1>1, <3>3, <3>5, <4>2, <5>1 DEF Entitled
        <5>3. ~At(s, "meta")'  BY <5>1, <5>2, PastMeta
        <5> QED BY <1>1, <4>2, <5>2, <5>3
      <4> QED BY <4>1, <4>2
    <3> QED BY <3>1, <3>3, <3>4, <3>5, SameShell DEF Entitled, IsDocument
  <2> QED BY <2>1, <2>2
<1> QED BY <1>3, <1>4, <1>5, <1>6, StillAllowed DEF TInv, Works, Step

\* What a report is about to write is what it has read, and another one before.
LEMMA MetainfoEntitles ==
  ASSUME IInv, RInv, TInv, NEW s \in Shells, TruncateMetainfo(s), ~Fail(s),
         ~Retitled(Output_(s))
  PROVE  Entitled(s, Output_(s))'
<1> DEFINE d == Output_(s)
           in == Inputs(s)
           m == GetMetainfo(s)
<1>1. /\ TypeOK /\ sh[s] \in Shell /\ sh \in [Shells -> Shell] /\ dirs \in [Dirs -> Directory]
      /\ At(s, "metainfo") /\ sh[s].pc \in ReportPcs /\ Report(s)
  BY DEF IInv, TypeOK, TruncateMetainfo, At, ReportPcs, PlotPcs, LinesPcs, DatPcs, Report
<1>2. d = Head(in) /\ d \in Range(in) /\ d \in Dirs /\ in \in Seq(Dirs)
  BY <1>1, OutputIsFirst DEF TInv, IInv, Fits, ReportCommand, Inputs, Args
<1>3. /\ \A e \in Range(in) : dirs[e].meta # <<>>
      /\ sh' = [sh EXCEPT ![s].pc = "writemeta", ![s].meta = m]
  BY DEF TruncateMetainfo
<1>4. sh'[s].meta = m /\ dirs[d].meta \in Seq(Apps) /\ dirs[d].meta # <<>>
  BY <1>1, <1>2, <1>3 DEF Shell, Directory
<1>5. m # <<>> /\ Head(m) = Head(dirs[d].meta)
  <2> DEFINE others == [i \in 1 .. Len(in) - 1 |-> GetAppTitle(in[i + 1])]
  <2>1. m = dirs[d].meta \o others  BY <1>2 DEF GetMetainfo
  <2>2. \E S : others \in Seq(S)
    <3>1. Len(in) - 1 \in Nat
      <4>1. in # <<>>  BY <1>1 DEF IInv, Fits, Inputs, Args
      <4> QED BY <1>2, <4>1
    <3>2. others \in [1 .. Len(in) - 1 -> {GetAppTitle(in[i + 1]) : i \in 1 .. Len(in) - 1}]
      OBVIOUS
    <3> QED BY <3>1, <3>2, FunctionSequence
  <2> HIDE DEF others
  <2>3. PICK S : others \in Seq(S)  BY <2>2
  <2>4. dirs[d].meta \in Seq(Apps \cup S) /\ others \in Seq(Apps \cup S)  BY <1>4, <2>3
  <2>5. Len(dirs[d].meta) > 0 /\ (dirs[d].meta \o others)[1] = dirs[d].meta[1]
        /\ Len(dirs[d].meta \o others) > 0
    BY <1>4, <2>4
  <2> QED BY <1>4, <2>1, <2>4, <2>5
<1>6. dirs[d].counts # NoFile  BY <1>1, <1>2 DEF TInv, Counted
<1>7. dirs'[d].counts = dirs[d].counts  BY <1>1, <1>2, ReportTitles
<1>8. IsDocument(dirs[d].counts) => Head(dirs[d].meta) = dirs[d].counts.app
  BY <1>2, <1>4 DEF TInv, Titled
<1>9. ASSUME NEW r \in Shells, Owns(r)', OutDir(r)' = d
      PROVE  ~At(r, "meta")' /\ Head(m) = Args(r)'.app
  <2>1. r # s
    <3>1. sh'[s].pc = "writemeta"  BY <1>1, <1>3 DEF Shell
    <3> QED BY <1>9, <3>1 DEF Owns, OwnPcs, RecordPcs
  <2>2. sh'[r] = sh[r]  BY <1>1, <1>3, <2>1
  <2>3. Owns(r) /\ OutDir(r) = d  BY <1>9, <2>2, SameShell
  <2>4. ~At(r, "meta")
    <3>1. sh[r].runs # 0  BY <1>6, <2>3 DEF RInv, InOrder, Unrecorded
    <3> QED BY <3>1 DEF RInv, InOrder, Started, At
  <2>5. Head(dirs[d].meta) = Args(r).app  BY <1>4, <2>3, <2>4 DEF TInv, OwnTitle
  <2> QED BY <1>5, <2>2, <2>4, <2>5, SameShell
<1>10. Output_(s)' = d  BY <1>1, ReportFrame
<1> QED BY <1>4, <1>5, <1>7, <1>8, <1>9, <1>10 DEF Entitled, IsDocument

\* A report puts back first what it has read first.
LEMMA ReportTitled ==
  ASSUME IInv, RInv, TInv, NEW s \in Shells, Report(s)
  PROVE  TInv'
<1>1. /\ sh[s].pc \in ReportPcs \cup {"args"} /\ GoesOn(s, ReportPcs) /\ Output_(s)' = Output_(s)
      /\ \A r \in Shells : r # s => sh'[r] = sh[r]
  BY ReportFrame DEF GoesOn
<1>2. ~Owns(s) /\ ~Owns(s)'
  BY <1>1 DEF GoesOn, Owns, OwnPcs, RecordPcs, ReportPcs, PlotPcs, LinesPcs, DatPcs
\* The meta information that a directory gets.
<1>3. ASSUME NEW d \in Dirs, ~Retitled(d)
      PROVE  /\ dirs'[d].counts = dirs[d].counts
             /\ \/ dirs'[d].meta \in {dirs[d].meta, <<>>}
                \/ dirs'[d].meta = sh[s].meta /\ Entitled(s, d)
  BY <1>3, ReportTitles DEF TInv, NewTitle
<1>4. ASSUME NEW d \in Dirs PROVE Titled(d)'
  BY <1>3 DEF TInv, Titled, Entitled, IsDocument
<1>5. ASSUME NEW r \in Shells PROVE OwnTitle(r)'
  <2> SUFFICES ASSUME Owns(r)' PROVE OwnTitle(r)'
    BY DEF OwnTitle
  <2>1. r # s /\ sh'[r] = sh[r] /\ Owns(r)  BY <1>1, <1>2, SameShell
  <2>2. OutDir(r) \in Dirs  BY <2>1, Names DEF IInv
  <2>3. dirs'[OutDir(r)].counts = dirs[OutDir(r)].counts  BY <2>2, ReportTitles
  <2>4. OwnTitle(r)  BY DEF TInv
  <2>5. ASSUME ~At(r, "meta"), ~Retitled(OutDir(r)), dirs'[OutDir(r)].meta # <<>>
        PROVE  Head(dirs'[OutDir(r)].meta) = Args(r).app
    <3>1. CASE dirs'[OutDir(r)].meta = dirs[OutDir(r)].meta
      BY <2>1, <2>4, <2>5, <3>1 DEF OwnTitle
    <3>2. CASE dirs'[OutDir(r)].meta = sh[s].meta /\ Entitled(s, OutDir(r))
      BY <2>1, <3>2 DEF Entitled
    <3> QED BY <1>3, <2>2, <2>5, <3>1, <3>2
  <2> QED BY <2>1, <2>3, <2>4, <2>5, SameShell DEF OwnTitle, IsDocument
<1>6. ASSUME NEW u \in Shells PROVE NewTitle(u)'
  <2>1. CASE u = s
    <3> SUFFICES ASSUME At(s, "writemeta")', ~Retitled(Output_(s)) PROVE Entitled(s, Output_(s))'
      BY <1>1, <2>1 DEF NewTitle, Entitled
    <3> QED BY TruncatedFirst, MetainfoEntitles
  <2>2. CASE u # s
    <3>1. sh'[u] = sh[u]  BY <1>1, <2>2
    <3> SUFFICES ASSUME At(u, "writemeta"), ~Retitled(Output_(u)) PROVE Entitled(u, Output_(u))'
      BY <3>1, SameShell DEF NewTitle, Entitled
    <3>2. Entitled(u, Output_(u)) /\ Output_(u) \in Dirs
      BY Names DEF TInv, NewTitle, IInv, At, ReportPcs, PlotPcs, LinesPcs, DatPcs
    <3>3. dirs'[Output_(u)].counts = dirs[Output_(u)].counts  BY <3>2, ReportTitles
    <3>4. ASSUME NEW r \in Shells, Owns(r)', OutDir(r)' = Output_(u)
          PROVE  ~At(r, "meta")' /\ Head(sh[u].meta) = Args(r)'.app
      <4>1. r # s /\ sh'[r] = sh[r]  BY <1>1, <1>2, <3>4
      <4> QED BY <3>2, <3>4, <4>1, SameShell DEF Entitled
    <3> QED BY <3>1, <3>2, <3>3, <3>4, SameShell DEF Entitled, IsDocument
  <2> QED BY <2>1, <2>2
<1> QED BY <1>4, <1>5, <1>6, StillAllowed DEF TInv, Works, Step

\* The other steps write no meta information.
LEMMA OtherTitled ==
  ASSUME IInv, RInv, TInv, NEW s \in Shells, Begin(s) \/ RecordErt(s) \/ Kill(s)
  PROVE  TInv'
<1>1. dirs' = dirs /\ TypeOK /\ sh \in [Shells -> Shell]
      /\ \A r \in Shells : r # s => sh'[r] = sh[r]
  BY OtherFrame, WorksLeaves DEF Works, Step, IInv, TypeOK, Leaves
<1>2. sh'[s].pc \in {"exists", "args", "rest"} \cup ErtPcs
  <2>1. CASE Begin(s)
    <3>1. PICK c \in Commands[s] :
            sh' = [sh EXCEPT ![s] = [AtRest EXCEPT !.pc = Entered(c), !.cmd = c,
                                                   !.count = sh[s].count + 1]]
      BY <2>1 DEF Begin
    <3> QED BY <1>1, <3>1 DEF AtRest, Entered, ErtPcs
  <2>2. CASE RecordErt(s)  BY <2>2, ErtFrame DEF GoesOn
  <2>3. CASE Kill(s)  BY <1>1, <2>3, GoesTo DEF Kill
  <2> QED BY <2>1, <2>2, <2>3
<1>3. ~Owns(s)' /\ ~At(s, "writemeta")'  BY <1>2 DEF Owns, OwnPcs, RecordPcs, ErtPcs, At
<1>4. ASSUME NEW d \in Dirs PROVE Titled(d)'  BY <1>1 DEF TInv, Titled, IsDocument
<1>5. ASSUME NEW r \in Shells PROVE OwnTitle(r)'
  <2>1. CASE r = s  BY <1>3, <2>1 DEF OwnTitle
  <2>2. CASE r # s
    <3>1. OwnTitle(r) /\ sh'[r] = sh[r]  BY <1>1, <2>2 DEF TInv
    <3> QED BY <1>1, <3>1, SameShell DEF OwnTitle, IsDocument
  <2> QED BY <2>1, <2>2
<1>6. ASSUME NEW u \in Shells PROVE NewTitle(u)'
  <2>1. CASE u = s  BY <1>3, <2>1 DEF NewTitle
  <2>2. CASE u # s
    <3>1. sh'[u] = sh[u] /\ NewTitle(u)  BY <1>1, <2>2 DEF TInv
    <3> SUFFICES ASSUME At(u, "writemeta"), ~Retitled(Output_(u)), Entitled(u, Output_(u))
                 PROVE  Entitled(u, Output_(u))'
      BY <3>1, SameShell DEF NewTitle, Entitled
    <3>2. ASSUME NEW r \in Shells, Owns(r)', OutDir(r)' = Output_(u)
          PROVE  ~At(r, "meta")' /\ Head(sh[u].meta) = Args(r)'.app
      <4>1. sh'[r] = sh[r]  BY <1>1, <1>3, <3>2
      <4> QED BY <3>2, <4>1, SameShell DEF Entitled
    <3> QED BY <1>1, <3>1, <3>2, SameShell DEF Entitled, IsDocument
  <2> QED BY <2>1, <2>2
<1> QED BY <1>4, <1>5, <1>6, StillAllowed DEF TInv, Works, Step

\* Every step keeps the titles right.
LEMMA TitlesKept ==
  ASSUME IInv, RInv, TInv, [Next]_vars
  PROVE  TInv'
<1>1. CASE UNCHANGED vars
  <2>1. dirs' = dirs /\ sh' = sh  BY <1>1 DEF vars, files
  <2> QED BY <2>1 DEF TInv, Titled, Allowed, Counted, OwnTitle, NewTitle, Entitled, IsDocument,
    Owns, At, OutDir, Args, Inputs, Output_
<1> QED BY <1>1, RecordTitled, ReportTitled, OtherTitled DEF Next, Rest, Step

\* The titles are right at first.
LEMMA TitlesBegin ==
  ASSUME Init
  PROVE  TInv
<1>1. \A s \in Shells : sh[s].pc = "rest"  BY DEF Init, AtRest
<1>2. \A d \in Dirs : Titled(d)  BY RecordingsAssumption DEF Init, Titled
<1> QED BY <1>1, <1>2 DEF TInv, Allowed, Counted, OwnTitle, NewTitle, At, Owns, OwnPcs,
      RecordPcs, ReportPcs, PlotPcs, LinesPcs, DatPcs

(***************************************************************************)
(* The first application in a recording's meta information is the recorded *)
(* one, whatever reports have read and rewritten the meta information, in  *)
(* any order of their reading and writing, as long as no report of other   *)
(* recordings is sent to this directory.                                   *)
(***************************************************************************)
THEOREM TitlesRight == Spec => []MetaNamesTheApp
<1>1. TInv => MetaNamesTheApp  BY DEF TInv, Titled, MetaNamesTheApp
<1> QED BY <1>1, Begins, Inductive, RecordingsBegin, RecordingsKept, TitlesBegin, TitlesKept,
      PTL DEF Spec
-----------------------------------------------------------------------------
(***************************************************************************)
(* The recordings that counters and points tell of.                        *)
(***************************************************************************)
HasCounts(e, id) == IsDocument(dirs[e].counts) /\ dirs[e].counts.by = id
Plotted(d, x, id) ==
  dirs[d].dat[x] # NoFile /\ \E dot \in Range(dirs[d].dat[x]) : dot.counts = id
Known(id) ==
  \/ \E e \in Dirs : HasCounts(e, id)
  \/ \E d \in Dirs, x \in Apps : Plotted(d, x, id)

\* Nothing is known of a command to come, ...
KnownPast(s) == \A n \in 1 .. MaxCommands : Known(<<s, n>>) => n <= sh[s].count
\* ... and of a recording under way only if it has its counters.
KnownNow(s) ==
  sh[s].pc \in RecordPcs /\ Known(Id(s)) => IsDocument(dirs[OutDir(s)].counts)
OneDirectory == \A d, e \in Dirs : \A id \in Ids : HasCounts(d, id) /\ HasCounts(e, id) => d = e
\* What a report has read, and the points that it has made of it.
Current(s) ==
  LET counts == dirs[Input(s)].counts
  IN /\ At(s, "times") => IsDocument(counts) /\ sh[s].read = counts
     /\ At(s, "dat") \/ At(s, "points") =>
          /\ IsDocument(counts)
          /\ \A dot \in Range(sh[s].current) : dot.counts = counts.by /\ dot.app = counts.app
     /\ At(s, "points") /\ ~Retitled(Input(s)) => Head(sh[s].title) = counts.app

DInv ==
  /\ \A s \in Shells : KnownPast(s) /\ KnownNow(s) /\ Current(s)
  /\ OneDirectory /\ DotsAreRecorded

\* The step of s that completes the counters of a recording.
Completes(s, e) ==
  /\ Record(s) /\ sh[s].pc \in RecordPcs /\ e = OutDir(s)
  /\ ~IsDocument(dirs[e].counts) /\ IsDocument(dirs'[e].counts) /\ dirs'[e].counts.by = Id(s)

\* Counters become a document only by the recording that completes them.
LEMMA CountersWritten ==
  ASSUME IInv, RInv, NEW s \in Shells, Works(s), NEW e \in Dirs, IsDocument(dirs'[e].counts)
  PROVE  dirs'[e].counts = dirs[e].counts \/ Completes(s, e)
<1>1. CASE Record(s)
  <2>1. sh[s].pc \in RecordPcs  BY <1>1, RecordFrame
  <2> QED BY <1>1, <2>1, RecordTitles DEF Completes, IsDocument
<1>2. CASE Report(s)  BY <1>2, ReportTitles
<1>3. CASE Begin(s) \/ RecordErt(s) \/ Kill(s)  BY <1>3, OtherFrame
<1> QED BY <1>1, <1>2, <1>3 DEF Works, Step

\* What a step does to a .dat file: a report makes it of its points, makes an
\* empty one, or copies one of the same name.
LEMMA DatWritten ==
  ASSUME IInv, NEW s \in Shells, Works(s), NEW d \in Dirs, NEW x \in Apps
  PROVE  \/ dirs'[d].dat[x] = <<>>
         \/ \E f \in Dirs : dirs'[d].dat[x] = dirs[f].dat[x]
         \/ /\ At(s, "points") /\ d = Input(s) /\ x = Head(sh[s].title)
            /\ dirs'[d].dat[x] = sh[s].current
<1>1. /\ TypeOK /\ dirs \in [Dirs -> Directory]
      /\ \A e \in Dirs : dirs[e] \in Directory /\ DOMAIN dirs[e].dat = Apps
  BY DEF IInv, TypeOK, Directory
<1>2. CASE Record(s)  BY <1>2, RecordFrame DEF RecordLeaves
<1>3. CASE Begin(s) \/ RecordErt(s) \/ Kill(s)  BY <1>3, OtherFrame
<1>4. ASSUME NEW e \in Dirs, NEW y, NEW v, dirs' = [dirs EXCEPT ![e].dat[y] = v]
      PROVE  dirs'[d].dat[x] = dirs[d].dat[x] \/ (d = e /\ x = y /\ dirs'[d].dat[x] = v)
  <2>1. CASE d # e  BY <1>1, <1>4, <2>1
  <2>2. CASE d = e
    <3>1. dirs'[e] = [dirs[e] EXCEPT !.dat = [dirs[e].dat EXCEPT ![y] = v]]  BY <1>1, <1>4
    <3>2. dirs'[e].dat = [dirs[e].dat EXCEPT ![y] = v]  BY <1>1, <3>1 DEF Directory
    <3> QED BY <1>1, <2>2, <3>2
  <2> QED BY <2>1, <2>2
<1>5. CASE Report(s)
  <2>1. ReportLeaves(s)  BY <1>5, ReportFrame
  <2>2. ASSUME CreateDatFile(s) \/ WritePoints(s) \/ OpenDatFile(s) \/ FillDatFile(s)
        PROVE  Input(s) \in Dirs /\ Output_(s) \in Dirs
    BY <2>2, Names DEF IInv, CreateDatFile, WritePoints, OpenDatFile, FillDatFile, At,
      ReportPcs, PlotPcs, LinesPcs, DatPcs
  <2>3. CASE CreateDatFile(s)
    <3>1. dirs' = dirs \/ dirs' = [dirs EXCEPT ![Input(s)].dat[Title(s)] = <<>>]
      BY <2>3 DEF CreateDatFile
    <3> QED BY <1>4, <2>2, <2>3, <3>1
  <2>4. CASE OpenDatFile(s)
    <3>1. dirs' = dirs \/ dirs' = [dirs EXCEPT ![Output_(s)].dat[Head(sh[s].title)] = <<>>]
      BY <2>4 DEF OpenDatFile
    <3> QED BY <1>4, <2>2, <2>4, <3>1
  <2>5. CASE FillDatFile(s)
    <3>1. dirs' = [dirs EXCEPT ![Output_(s)].dat[Head(sh[s].title)] =
                     dirs[Input(s)].dat[Head(sh[s].title)]]
      BY <2>5 DEF FillDatFile
    <3> QED BY <1>4, <2>2, <2>5, <3>1
  <2>6. CASE WritePoints(s)
    <3>1. /\ At(s, "points")
          /\ dirs' = [dirs EXCEPT ![Input(s)].dat[Head(sh[s].title)] = sh[s].current]
      BY <2>6 DEF WritePoints
    <3> QED BY <1>4, <2>2, <2>6, <3>1
  <2> QED BY <2>1, <2>3, <2>4, <2>5, <2>6 DEF ReportLeaves
<1> QED BY <1>2, <1>3, <1>5 DEF Works, Step

\* Only the completion of a recording's counters makes anything known.
LEMMA KnownBefore ==
  ASSUME IInv, RInv, DInv, NEW s \in Shells, Works(s), NEW id, Known(id)'
  PROVE  Known(id) \/ (id = Id(s) /\ Completes(s, OutDir(s)))
<1>1. ASSUME NEW e \in Dirs, HasCounts(e, id)'
      PROVE  Known(id) \/ (id = Id(s) /\ Completes(s, OutDir(s)))
  <2>1. IsDocument(dirs'[e].counts) /\ dirs'[e].counts.by = id  BY <1>1 DEF HasCounts, IsDocument
  <2>2. CASE dirs'[e].counts = dirs[e].counts  BY <2>1, <2>2 DEF Known, HasCounts
  <2>3. CASE Completes(s, e)  BY <2>1, <2>3 DEF Completes
  <2> QED BY <2>1, <2>2, <2>3, CountersWritten
<1>2. ASSUME NEW d \in Dirs, NEW x \in Apps, Plotted(d, x, id)'
      PROVE  Known(id)
  <2>1. PICK dot \in Range(dirs'[d].dat[x]) : dot.counts = id
    BY <1>2 DEF Plotted
  <2>2. dirs'[d].dat[x] # NoFile  BY <1>2 DEF Plotted
  <2>3. CASE dirs'[d].dat[x] = <<>>  BY <2>1, <2>3 DEF Range
  <2>4. ASSUME NEW f \in Dirs, dirs'[d].dat[x] = dirs[f].dat[x] PROVE Known(id)
    BY <2>1, <2>2, <2>4 DEF Known, Plotted
  <2>5. CASE At(s, "points") /\ dirs'[d].dat[x] = sh[s].current
    <3>1. Input(s) \in Dirs  BY <2>5, Names DEF IInv, At, ReportPcs, PlotPcs, LinesPcs, DatPcs
    <3>2. HasCounts(Input(s), id)  BY <2>1, <2>5 DEF DInv, Current, HasCounts
    <3> QED BY <3>1, <3>2 DEF Known
  <2> QED BY <2>3, <2>4, <2>5, DatWritten
<1> QED BY <1>1, <1>2 DEF Known

\* A recording that completes its counters is not known before.
LEMMA NotKnown ==
  ASSUME DInv, NEW s \in Shells, NEW e, Completes(s, e)
  PROVE  ~Known(Id(s))
  BY DEF DInv, KnownNow, Completes

\* A step of s makes nothing known of commands to come, or of unfinished recordings.
LEMMA KnownKept ==
  ASSUME IInv, RInv, DInv, NEW s \in Shells, Works(s), NEW r \in Shells
  PROVE  (KnownPast(r) /\ KnownNow(r))'
<1>1. /\ sh \in [Shells -> Shell] /\ KnownPast(r) /\ KnownNow(r) /\ MaxCommands \in Nat
      /\ \A u \in Shells : u # s => sh'[u] = sh[u]
      /\ \A u \in Shells : sh[u].count \in Nat
  BY WorksLeaves, WorldAssumption DEF IInv, TypeOK, DInv, Leaves, Shell
<1>2. ASSUME NEW u \in Shells, NEW e \in Dirs, OutDir(u) = e,
             IsDocument(dirs[e].counts), OutDir(u)' = OutDir(u)
      PROVE  IsDocument(dirs[OutDir(u)].counts)'
  <2>1. [Next]_vars  BY DEF Next, Works
  <2> QED BY <1>2, <2>1, DocumentsStay DEF IsDocument
<1>3. CASE r # s
  <2>1. sh'[r] = sh[r] /\ Id(r)' = Id(r) /\ OutDir(r)' = OutDir(r)
    BY <1>1, <1>3 DEF Id, OutDir, Args
  <2>2. \A n : <<r, n>> # Id(s)  BY <1>3 DEF Id
  <2>3. KnownPast(r)'  BY <1>1, <2>1, <2>2, KnownBefore DEF KnownPast
  <2>4. sh[r].pc \in RecordPcs => OutDir(r) \in Dirs
    BY DEF IInv, Fits, OutDir, Args, RecordCommand
  <2>5. Id(r) # Id(s)  BY <1>3 DEF Id
  <2>6. KnownNow(r)'
    <3> SUFFICES ASSUME sh[r].pc \in RecordPcs, Known(Id(r))'
                 PROVE  IsDocument(dirs[OutDir(r)].counts)'
      BY <2>1 DEF KnownNow, Known, HasCounts, Plotted
    <3>1. Known(Id(r))  BY <2>1, <2>5, KnownBefore
    <3> QED BY <1>1, <1>2, <2>1, <2>4, <3>1 DEF KnownNow
  <2> QED BY <2>3, <2>6
<1>4. CASE r = s /\ Record(s)
  <2>1. /\ sh'[s].count = sh[s].count /\ Id(s)' = Id(s) /\ OutDir(s)' = OutDir(s)
        /\ sh[s].pc \in RecordPcs /\ OutDir(s) \in Dirs
    BY <1>4, RecordFrame DEF GoesOn
  <2>2. KnownPast(s)'
    <3> SUFFICES ASSUME NEW n \in 1 .. MaxCommands, Known(<<s, n>>)' PROVE n <= sh[s].count
      BY <2>1 DEF KnownPast
    <3>1. Known(<<s, n>>) \/ <<s, n>> = Id(s)  BY KnownBefore
    <3> QED BY <1>1, <1>4, <3>1 DEF KnownPast, Id
  <2>3. KnownNow(s)'
    <3> SUFFICES ASSUME Known(Id(s))' PROVE IsDocument(dirs[OutDir(s)].counts)'
      BY DEF KnownNow
    <3>1. CASE Known(Id(s))  BY <1>1, <1>2, <1>4, <2>1, <3>1 DEF KnownNow
    <3>2. CASE Completes(s, OutDir(s))  BY <2>1, <3>2 DEF Completes, IsDocument
    <3> QED BY <2>1, <3>1, <3>2, KnownBefore
  <2> QED BY <1>4, <2>2, <2>3
<1>5. CASE r = s /\ ~Record(s)
  <2>1. \A id : Known(id)' => Known(id)  BY <1>5, KnownBefore DEF Completes
  <2>2. CASE Begin(s)
    <3>1. PICK c \in Commands[s] :
            /\ sh[s].count < MaxCommands
            /\ sh' = [sh EXCEPT ![s] = [AtRest EXCEPT !.pc = Entered(c), !.cmd = c,
                                                      !.count = sh[s].count + 1]]
      BY <2>2 DEF Begin
    <3>2. sh'[s].count = sh[s].count + 1  BY <1>1, <3>1 DEF AtRest
    <3>3. KnownPast(s)'  BY <1>1, <1>5, <2>1, <3>2 DEF KnownPast
    <3>4. Id(s)' = <<s, sh[s].count + 1>>  BY <3>2 DEF Id
    <3>5. ~Known(<<s, sh[s].count + 1>>)
      <4>1. sh[s].count \in Nat /\ sh[s].count + 1 \in 1 .. MaxCommands  BY <1>1, <3>1
      <4> QED BY <1>1, <1>5, <4>1 DEF KnownPast
    <3>6. ~Known(Id(s))'  BY <2>1, <3>4, <3>5
    <3> QED BY <1>5, <3>3, <3>6 DEF KnownNow
  <2>3. CASE Report(s) \/ RecordErt(s) \/ Kill(s)
    <3>1. sh'[s].count = sh[s].count /\ sh'[s].pc \notin RecordPcs
      <4>1. CASE Report(s)
        BY <4>1, ReportFrame DEF GoesOn, ReportPcs, PlotPcs, LinesPcs, DatPcs, RecordPcs
      <4>2. CASE RecordErt(s)  BY <4>2, ErtFrame DEF GoesOn, ErtPcs, RecordPcs
      <4>3. CASE Kill(s)  BY <1>1, <4>3 DEF Kill, Fail, Shell, RecordPcs
      <4> QED BY <2>3, <4>1, <4>2, <4>3
    <3> QED BY <1>1, <1>5, <2>1, <3>1 DEF KnownPast, KnownNow
  <2> QED BY <1>5, <2>2, <2>3 DEF Works, Step
<1> QED BY <1>3, <1>4, <1>5

\* A report has read what is there, and what is there stays.
LEMMA CurrentKept ==
  ASSUME IInv, RInv, TInv, DInv, NEW s \in Shells, Works(s), NEW u \in Shells
  PROVE  Current(u)'
<1>1. /\ sh \in [Shells -> Shell] /\ Current(u) /\ [Next]_vars
      /\ \A r \in Shells : r # s => sh'[r] = sh[r]
  BY WorksLeaves DEF IInv, TypeOK, DInv, Leaves, Next, Works
<1>2. CASE u # s
  <2>1. sh'[u] = sh[u] /\ Input(u)' = Input(u)  BY <1>1, <1>2 DEF Input, Inputs, Args
  <2>2. sh[u].pc \in ReportPcs => Input(u) \in Dirs  BY Names DEF IInv
  <2>3. At(u, "times") \/ At(u, "dat") \/ At(u, "points") =>
          dirs'[Input(u)].counts = dirs[Input(u)].counts
    BY <1>1, <2>2, DocumentsStay DEF Current, At, ReportPcs, PlotPcs, LinesPcs, DatPcs
  <2> QED BY <1>1, <2>1, <2>3 DEF Current, At, IsDocument
<1>3. CASE u = s /\ (ReadCounts(s) \/ ReadTimes(s))
  <2>1. dirs' = dirs /\ sh[s] \in Shell /\ sh[s].pc \in ReportPcs
    BY <1>1, <1>3 DEF ReadCounts, ReadTimes, files, At, ReportPcs, PlotPcs, LinesPcs, DatPcs
  <2>2. CASE Fail(s)
    <3>1. sh'[s].pc = "rest"  BY <1>1, <2>2 DEF Fail, Shell
    <3> QED BY <1>3, <3>1 DEF Current, At
  <2>3. CASE ReadCounts(s) /\ ~Fail(s)
    <3>1. /\ IsDocument(dirs[Input(s)].counts)
          /\ sh'[s] = [sh[s] EXCEPT !.pc = "times", !.read = dirs[Input(s)].counts]
      BY <1>1, <2>3 DEF ReadCounts, IsDocument
    <3>2. sh'[s].pc = "times" /\ sh'[s].read = dirs[Input(s)].counts /\ Input(s)' = Input(s)
      BY <2>1, <3>1 DEF Shell, Input, Inputs, Args
    <3> QED BY <1>3, <2>1, <3>1, <3>2 DEF Current, At, IsDocument
  <2>4. CASE ReadTimes(s) /\ ~Fail(s)
    <3> DEFINE counts == sh[s].read
               by == dirs[Input(s)].times.by
               pts == [i \in DOMAIN counts.labels |->
                         [label |-> counts.labels[i], app |-> counts.app,
                          counts |-> counts.by, times |-> by]]
    <3>1. /\ At(s, "times")
          /\ sh'[s] = [sh[s] EXCEPT !.pc = "dat", !.current = pts]
      BY <1>1, <2>4 DEF ReadTimes
    <3>2. \A dot \in Range(pts) : dot.counts = counts.by /\ dot.app = counts.app
      <4>1. /\ DOMAIN pts = DOMAIN counts.labels
            /\ \A i \in DOMAIN counts.labels :
                 pts[i].counts = counts.by /\ pts[i].app = counts.app
        OBVIOUS
      <4> HIDE DEF pts
      <4> QED BY <4>1 DEF Range
    <3> HIDE DEF pts
    <3>3. sh'[s].pc = "dat" /\ sh'[s].current = pts /\ Input(s)' = Input(s)
      BY <2>1, <3>1 DEF Shell, Input, Inputs, Args
    <3>4. IsDocument(dirs[Input(s)].counts) /\ counts = dirs[Input(s)].counts
      BY <1>1, <1>3, <3>1 DEF Current
    <3> QED BY <1>3, <2>1, <3>2, <3>3, <3>4 DEF Current, At, IsDocument
  <2> QED BY <1>3, <2>2, <2>3, <2>4
<1>4. CASE u = s /\ CreateDatFile(s)
  <2> DEFINE i == Input(s)
  <2>1. sh[s] \in Shell /\ i \in Dirs /\ At(s, "dat") /\ Report(s)
    BY <1>1, <1>4, Names DEF CreateDatFile, IInv, At, ReportPcs, PlotPcs, LinesPcs, DatPcs, Report
  <2>2. CASE Fail(s)
    <3>1. sh'[s].pc = "rest"  BY <2>2, GoesTo DEF IInv
    <3> QED BY <1>4, <3>1 DEF Current, At
  <2>3. CASE ~Fail(s)
    <3>1. ~NoTitle(s) /\ sh'[s] = [sh[s] EXCEPT !.pc = "points", !.title = <<Title(s)>>]
      BY <1>1, <1>4, <2>3 DEF CreateDatFile
    <3>2. /\ sh'[s].pc = "points" /\ sh'[s].title = <<Title(s)>>
          /\ sh'[s].current = sh[s].current /\ Input(s)' = i
      BY <2>1, <3>1 DEF Shell, Input, Inputs, Args
    <3>3. dirs'[i].counts = dirs[i].counts  BY <2>1, ReportTitles
    <3>4. /\ IsDocument(dirs[i].counts)
          /\ \A dot \in Range(sh[s].current) :
               dot.counts = dirs[i].counts.by /\ dot.app = dirs[i].counts.app
      BY <1>1, <1>4, <2>1 DEF Current
    <3>5. ~Retitled(i) => Title(s) = dirs[i].counts.app
      BY <2>1, <3>1, <3>4 DEF TInv, Titled, NoTitle, Title, GetAppTitle
    <3>6. Head(sh'[s].title) = Title(s)  BY <3>2
    <3> QED BY <1>4, <3>2, <3>3, <3>4, <3>5, <3>6 DEF Current, At, IsDocument
  <2> QED BY <2>2, <2>3
<1>5. CASE u = s /\ ~ReadCounts(s) /\ ~ReadTimes(s) /\ ~CreateDatFile(s)
  <2>1. sh'[s].pc \notin {"times", "dat", "points"}
    <3>0. TypeOK /\ sh[s] \in Shell  BY DEF IInv, TypeOK
    <3>1. CASE Record(s)  BY <3>1, RecordFrame DEF GoesOn, RecordPcs
    <3>2. CASE Fail(s)  BY <3>0, <3>2, GoesTo
    <3>3. CASE CheckoutInputArgs(s) \/ MakeOutput(s) \/ ContinuePlot(s) \/ OpenDatFile(s)
               \/ WriteMetainfo(s) \/ AddPointLabels(s) \/ Draw(s)
      BY <3>0, <3>3, GoesTo
         DEF CheckoutInputArgs, MakeOutput, ContinuePlot, OpenDatFile, WriteMetainfo,
             AddPointLabels, Draw
    <3>4. CASE ~Fail(s) /\ (CopyEmptyRoofline(s) \/ FillRoofline(s) \/ TailLine(s)
                            \/ AppendLines(s))
      <4>1. \E c \in {"roofline", "continue", "counts", "append"} : \E v :
              sh' = [sh EXCEPT ![s].pc = c, ![s].source = v]
        BY <3>4 DEF CopyEmptyRoofline, FillRoofline, TailLine, AppendLines
      <4> QED BY <1>1, <3>0, <4>1 DEF Shell
    <3>5. CASE ~Fail(s) /\ (WritePoints(s) \/ FillDatFile(s))
      <4>1. \E c \in {"copy", "refs"} : sh' = [sh EXCEPT ![s].pc = c, ![s].title = <<>>]
        BY <3>5 DEF WritePoints, FillDatFile
      <4> QED BY <1>1, <3>0, <4>1 DEF Shell
    <3>6. CASE ~Fail(s) /\ CopyDatFile(s)
      <4>1. CASE Goto(s, "refs")  BY <3>0, <4>1, GoesTo
      <4>2. CASE ~Goto(s, "refs")  BY <1>1, <3>0, <3>6, <4>2 DEF CopyDatFile, Shell
      <4> QED BY <4>1, <4>2
    <3>7. CASE ~Fail(s) /\ TruncateMetainfo(s)
      BY <1>1, <3>0, <3>7 DEF TruncateMetainfo, Shell
    <3>8. CASE ~Fail(s) /\ AddDatFileReference(s)
      <4>1. sh' = [sh EXCEPT ![s] =
              [sh[s] EXCEPT
                 !.point_list = sh[s].point_list \o sh[s].current,
                 !.k = IF sh[s].k = Len(Inputs(s)) THEN sh[s].k ELSE sh[s].k + 1,
                 !.pc = IF sh[s].k = Len(Inputs(s)) THEN "metainfo" ELSE "counts"]]
        BY <3>8 DEF AddDatFileReference
      <4>2. sh'[s].pc = IF sh[s].k = Len(Inputs(s)) THEN "metainfo" ELSE "counts"
        BY <1>1, <3>0, <4>1 DEF Shell
      <4> QED BY <4>2
    <3>9. CASE RecordErt(s)  BY <3>9, ErtFrame DEF GoesOn, ErtPcs
    <3>10. CASE Kill(s)  BY <3>2, <3>10 DEF Kill
    <3>11. CASE Begin(s)
      <4>1. PICK c \in Commands[s] :
              sh' = [sh EXCEPT ![s] = [AtRest EXCEPT !.pc = Entered(c), !.cmd = c,
                                                     !.count = sh[s].count + 1]]
        BY <3>11 DEF Begin
      <4> QED BY <1>1, <4>1 DEF AtRest, Entered
    <3> QED BY <1>5, <3>1, <3>2, <3>3, <3>4, <3>5, <3>6, <3>7, <3>8, <3>9, <3>10, <3>11
            DEF Works, Step, Report
  <2> QED BY <1>5, <2>1 DEF Current, At
<1> QED BY <1>2, <1>3, <1>4, <1>5

\* Every step keeps the points under their titles.
LEMMA DotsKept ==
  ASSUME IInv, RInv, TInv, DInv, [Next]_vars
  PROVE  DInv'
<1>1. CASE UNCHANGED vars
  <2>1. dirs' = dirs /\ sh' = sh  BY <1>1 DEF vars, files
  <2>2. \A id : Known(id)' <=> Known(id)  BY <2>1 DEF Known, HasCounts, Plotted, IsDocument
  <2>3. \A s \in Shells : (KnownPast(s) /\ KnownNow(s))'
    BY <2>1, <2>2 DEF DInv, KnownPast, KnownNow, OutDir, Args, Id, IsDocument
  <2>4. \A s \in Shells : Current(s)'
    BY <2>1 DEF DInv, Current, IsDocument, At, Input, Inputs, Args
  <2>5. OneDirectory'  BY <2>1 DEF DInv, OneDirectory, HasCounts, IsDocument
  <2>6. DotsAreRecorded'  BY <2>1 DEF DInv, DotsAreRecorded, IsDocument
  <2> QED BY <2>3, <2>4, <2>5, <2>6 DEF DInv
<1>2. ASSUME NEW s \in Shells, Works(s) PROVE DInv'
  <2>1. \A r \in Shells : (KnownPast(r) /\ KnownNow(r) /\ Current(r))'
    BY <1>2, KnownKept, CurrentKept
  <2>2. ASSUME NEW e \in Dirs, NEW id, HasCounts(e, id)'
        PROVE  HasCounts(e, id) \/ (Completes(s, e) /\ id = Id(s) /\ ~Known(id))
    <3>1. IsDocument(dirs'[e].counts) /\ dirs'[e].counts.by = id
      BY <2>2 DEF HasCounts, IsDocument
    <3>2. CASE dirs'[e].counts = dirs[e].counts  BY <3>1, <3>2 DEF HasCounts
    <3>3. CASE Completes(s, e)  BY <3>1, <3>3, NotKnown DEF Completes
    <3> QED BY <1>2, <3>1, <3>2, <3>3, CountersWritten
  <2>3. OneDirectory'
    <3> SUFFICES ASSUME NEW d \in Dirs, NEW e \in Dirs, NEW id \in Ids,
                        HasCounts(d, id)', HasCounts(e, id)'
                 PROVE  d = e
      BY DEF OneDirectory
    <3>1. CASE HasCounts(d, id) /\ HasCounts(e, id)  BY <3>1 DEF DInv, OneDirectory
    <3>2. CASE Completes(s, d) /\ Completes(s, e)  BY <3>2 DEF Completes
    <3>3. CASE ~Known(id) /\ (HasCounts(d, id) \/ HasCounts(e, id))  BY <3>3 DEF Known
    <3> QED BY <2>2, <3>1, <3>2, <3>3
  <2>4. DotsAreRecorded'
    <3> SUFFICES ASSUME NEW d \in Dirs, NEW e \in Dirs, NEW x \in Apps,
                        dirs'[d].dat[x] # NoFile, IsDocument(dirs'[e].counts), ~Retitled(e),
                        NEW dot \in Range(dirs'[d].dat[x]), dot.counts = dirs'[e].counts.by
                 PROVE  dot.app = x
      BY DEF DotsAreRecorded, IsDocument
    <3>1. Plotted(d, x, dot.counts)' /\ HasCounts(e, dot.counts)'
      BY DEF Plotted, HasCounts, IsDocument
    <3>2. CASE Completes(s, e) /\ dot.counts = Id(s) /\ ~Known(dot.counts)
      <4>1. dirs'[d].dat = dirs[d].dat  BY <3>2, RecordFrame DEF Completes, RecordLeaves
      <4>2. Plotted(d, x, dot.counts)  BY <4>1 DEF Plotted
      <4> QED BY <3>2, <4>2 DEF Known
    <3>3. CASE HasCounts(e, dot.counts)
      <4>1. CASE dirs'[d].dat[x] = <<>>  BY <4>1 DEF Range
      <4>2. ASSUME NEW f \in Dirs, dirs'[d].dat[x] = dirs[f].dat[x] PROVE dot.app = x
        BY <3>3, <4>2 DEF DInv, DotsAreRecorded, HasCounts
      <4>3. CASE /\ At(s, "points") /\ d = Input(s) /\ x = Head(sh[s].title)
                 /\ dirs'[d].dat[x] = sh[s].current
        <5>1. HasCounts(d, dot.counts) /\ dot.app = dirs[d].counts.app
          BY <4>3 DEF DInv, Current, HasCounts
        <5>2. dot.counts \in Ids
          BY <5>1, FilesAssumption DEF HasCounts, IsDocument, IInv, TypeOK, Directory, Document
        <5>3. d = e  BY <3>3, <5>1, <5>2 DEF DInv, OneDirectory
        <5>4. Head(sh[s].title) = dirs[d].counts.app
          BY <4>3, <5>3 DEF DInv, Current
        <5> QED BY <4>3, <5>1, <5>4
      <4> QED BY <1>2, <4>1, <4>2, <4>3, DatWritten
    <3> QED BY <2>2, <3>1, <3>2, <3>3
  <2> QED BY <2>1, <2>3, <2>4 DEF DInv
<1> QED BY <1>1, <1>2 DEF Next, Rest, Works

\* At first nothing is known of any command in a shell.
LEMMA DotsBegin ==
  ASSUME Init
  PROVE  DInv
<1>1. dirs = InitialDirs /\ \A s \in Shells : sh[s].pc = "rest"  BY DEF Init, AtRest
<1>2. ASSUME NEW s \in Shells, NEW n \in 1 .. MaxCommands PROVE ~Known(<<s, n>>)
  <2>1. <<s, n>> \in ToCome  BY DEF ToCome
  <2>2. \A e \in Dirs : ~HasCounts(e, <<s, n>>)  BY <1>1, <2>1, IdsAssumption DEF HasCounts
  <2>3. \A d \in Dirs, x \in Apps : ~Plotted(d, x, <<s, n>>)
    BY <1>1, <2>1, DotsAssumption DEF Plotted
  <2> QED BY <2>2, <2>3 DEF Known
<1>3. \A s \in Shells : KnownPast(s) /\ KnownNow(s) /\ Current(s)
  BY <1>1, <1>2 DEF KnownPast, KnownNow, Current, At, RecordPcs
<1>4. OneDirectory  BY <1>1, IdsAssumption DEF OneDirectory, HasCounts
<1>5. DotsAreRecorded  BY <1>1, DotsAssumption DEF DotsAreRecorded
<1> QED BY <1>3, <1>4, <1>5 DEF DInv

(***************************************************************************)
(* A plotted point stands under its own application's title, whichever     *)
(* .dat files reports have made, kept or copied before.  It fails only for *)
(* a recording whose directory has been given the title of another one.    *)
(***************************************************************************)
THEOREM DotsRight == Spec => []DotsAreRecorded
<1>1. DInv => DotsAreRecorded  BY DEF DInv
<1> QED BY <1>1, Begins, Inductive, RecordingsBegin, RecordingsKept, TitlesBegin, TitlesKept,
      DotsBegin, DotsKept, PTL DEF Spec
=============================================================================
