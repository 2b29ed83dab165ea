---------------------------- MODULE Recordings_proofs ----------------------------
(***************************************************************************)
(* Proofs about what a recording leaves, for any number of users and       *)
(* directories: a completed roofline.xml is final, and a time analysis     *)
(* keeps the timing document of each of its runs.                          *)
(*                                                                         *)
(* A recording keeps its directory for itself after it has ended: Held and *)
(* SoleHolder.  How far it is can be told from its directory: Unrecorded   *)
(* and Phase.                                                              *)
(***************************************************************************)
EXTENDS Toolchain_proofs

\* What only a recording writes.
Kept(d) ==
  /\ dirs'[d].counts = dirs[d].counts /\ dirs'[d].times = dirs[d].times
  /\ dirs'[d].saved = dirs[d].saved
Grows(d) == dirs[d].exists => dirs'[d].exists
\* The steps of s leave the other shells, and its own command goes on or ends.
GoesOn(s, pcs) ==
  /\ \A r \in Shells : r # s => sh'[r] = sh[r]
  /\ sh'[s].cmd = sh[s].cmd /\ sh'[s].count = sh[s].count /\ sh'[s].pc \in pcs \cup {"rest"}
  /\ sh'[s].pc # "rest" => sh'[s].result = sh[s].result
\* A step of record changes its own directory; of the documents only if it owns it.
RecordLeaves(s) ==
  /\ \A d \in Dirs : d # OutDir(s) => dirs'[d] = dirs[d]
  /\ \A d \in Dirs :
       /\ Grows(d) /\ dirs'[d].dat = dirs[d].dat /\ dirs'[d].gnu = dirs[d].gnu
       /\ SaveMeta(s) \/ dirs'[d].meta = dirs[d].meta
       /\ ClientStarts(s) \/ ClientEnds(s) \/ dirs'[d].counts = dirs[d].counts
       /\ Owns(s) \/ Kept(d)
\* A step of report changes no document, and one file of a directory.
ReportLeaves(s) ==
  \A d \in Dirs :
    /\ Grows(d) /\ Kept(d)
    /\ \/ (TruncateMetainfo(s) \/ WriteMetainfo(s)) /\ d = Output_(s)
       \/ dirs'[d].meta = dirs[d].meta
    /\ \/ CreateDatFile(s) \/ WritePoints(s) \/ OpenDatFile(s) \/ FillDatFile(s)
       \/ dirs'[d].dat = dirs[d].dat
    /\ d = Output_(s) \/ dirs'[d].gnu = dirs[d].gnu
-----------------------------------------------------------------------------
(***************************************************************************)
(* What the steps of the commands leave alone.                             *)
(***************************************************************************)
\* A command goes to another step with its variables as they are, or ends.
LEMMA Going ==
  ASSUME TypeOK, NEW s \in Shells, NEW pcs
  PROVE  /\ \A c \in pcs : Goto(s, c) => GoesOn(s, pcs)
         /\ Fail(s) \/ Return(s) => GoesOn(s, pcs)
<1>1. sh \in [Shells -> Shell] /\ sh[s] \in Shell  BY DEF TypeOK
<1>2. ASSUME NEW c \in pcs, Goto(s, c) PROVE GoesOn(s, pcs)
  BY <1>1, <1>2 DEF Goto, GoesOn, Shell
<1>3. ASSUME Fail(s) \/ Return(s) PROVE GoesOn(s, pcs)
  BY <1>1, <1>3 DEF Fail, Return, GoesOn, Shell
<1> QED BY <1>2, <1>3

\* A step of record changes its own directory.
LEMMA RecordFrame ==
  ASSUME IInv, NEW s \in Shells, Record(s)
  PROVE  /\ sh[s].pc \in RecordPcs /\ OutDir(s) \in Dirs
         /\ GoesOn(s, RecordPcs) /\ OutDir(s)' = OutDir(s) /\ Id(s)' = Id(s)
         /\ RecordLeaves(s)
<1> DEFINE o == OutDir(s)
<1>1. TypeOK /\ sh[s] \in Shell /\ dirs \in [Dirs -> Directory] /\ sh \in [Shells -> Shell]
      /\ Fits(sh[s])
  BY DEF IInv, TypeOK
<1>2. sh[s].pc \in RecordPcs
  BY DEF Record, CheckOutput, MakeDirs, SaveMeta, ClientStarts, ClientDoesNotStart,
         ClientEnds, NextRun, MoveTimes, ParseTimes, TimeApplication, EndAnalysis,
         SaveStatistics, Recorded, At, RecordPcs
<1>3. o \in Dirs  BY <1>1, <1>2 DEF Fits, OutDir, Args, RecordCommand
<1>4. GoesOn(s, RecordPcs)
  <2>1. RecordPcs = {"exists", "makedirs", "meta", "client", "running", "ran", "statistics",
                     "timing", "csv"}
    BY DEF RecordPcs
  <2>2. CASE CheckOutput(s) \/ MakeDirs(s) \/ SaveMeta(s) \/ ClientEnds(s) \/ NextRun(s)
    BY <1>1, <2>1, <2>2, Going DEF CheckOutput, MakeDirs, SaveMeta, ClientEnds, NextRun
  <2>3. CASE MoveTimes(s) \/ ParseTimes(s) \/ EndAnalysis(s) \/ Recorded(s)
    BY <1>1, <2>1, <2>3, Going DEF MoveTimes, ParseTimes, EndAnalysis, Recorded
  <2>4. CASE ClientStarts(s) \/ ClientDoesNotStart(s)
    BY <1>1, <2>1, <2>4 DEF ClientStarts, ClientDoesNotStart, GoesOn, Shell
  <2>5. CASE TimeApplication(s)
    BY <1>1, <2>1, <2>5 DEF TimeApplication, At, GoesOn, Shell
  <2>6. CASE SaveStatistics(s)
    <3>1. CASE Return(s)  BY <1>1, <3>1, Going
    <3>2. CASE sh' = [sh EXCEPT ![s].k = sh[s].k + 1]
      BY <1>1, <2>1, <2>6, <3>2 DEF SaveStatistics, At, GoesOn, Shell
    <3> QED BY <2>6, <3>1, <3>2 DEF SaveStatistics
  <2> QED BY <2>2, <2>3, <2>4, <2>5, <2>6 DEF Record
<1>5. OutDir(s)' = OutDir(s) /\ Id(s)' = Id(s)  BY <1>4 DEF GoesOn, OutDir, Id, Args
<1>15. SUFFICES RecordLeaves(s)
  BY <1>2, <1>3, <1>4, <1>5
<1>6. dirs[o] \in Directory  BY <1>1, <1>3
<1>7. ASSUME dirs' = dirs PROVE RecordLeaves(s)  BY <1>7 DEF RecordLeaves, Grows, Kept
<1>8. ASSUME NEW y \in Directory, dirs' = [dirs EXCEPT ![o] = y], dirs[o].exists => y.exists,
             y.dat = dirs[o].dat, y.gnu = dirs[o].gnu,
             SaveMeta(s) \/ y.meta = dirs[o].meta,
             ClientStarts(s) \/ ClientEnds(s) \/ y.counts = dirs[o].counts,
             \/ Owns(s)
             \/ y.counts = dirs[o].counts /\ y.times = dirs[o].times /\ y.saved = dirs[o].saved
      PROVE  RecordLeaves(s)
  <2>1. dirs'[o] = y /\ \A d \in Dirs : d # o => dirs'[d] = dirs[d]  BY <1>8, <1>1, <1>3
  <2> QED BY <2>1, <1>8 DEF RecordLeaves, Grows, Kept
<1>9. CASE CheckOutput(s) \/ ClientDoesNotStart(s) \/ NextRun(s) \/ ParseTimes(s)
           \/ TimeApplication(s) \/ EndAnalysis(s) \/ Recorded(s)
  BY <1>7, <1>9 DEF CheckOutput, ClientDoesNotStart, NextRun, ParseTimes, TimeApplication,
                    EndAnalysis, Recorded, files
<1>10. CASE MakeDirs(s)
  <2>1. CASE dirs[o].exists  BY <2>1, <1>7, <1>10 DEF MakeDirs
  <2>2. CASE ~dirs[o].exists
    <3> DEFINE y == [dirs[o] EXCEPT !.exists = TRUE]
    <3>1. y \in Directory  BY <1>6 DEF Directory
    <3>2. dirs' = [dirs EXCEPT ![o] = y]  BY <2>2, <1>10 DEF MakeDirs
    <3> QED BY <1>6, <3>1, <3>2, <1>8 DEF Directory
  <2> QED BY <2>1, <2>2
<1>11. CASE SaveMeta(s)
  <2> DEFINE y == [dirs[o] EXCEPT !.meta = <<sh[s].cmd.app>>]
  <2>1. sh[s].cmd.app \in Apps /\ Owns(s)
    BY <1>1, <1>2, <1>11 DEF Fits, RecordCommand, SaveMeta, At, Owns, OwnPcs, RecordPcs
  <2>2. y \in Directory
    <3>1. <<sh[s].cmd.app>> \in Seq(Apps)  BY <2>1
    <3> QED BY <1>6, <3>1 DEF Directory
  <2>3. dirs' = [dirs EXCEPT ![o] = y]  BY <1>11 DEF SaveMeta, Args
  <2>4. /\ y.exists = dirs[o].exists /\ y.dat = dirs[o].dat /\ y.gnu = dirs[o].gnu
        /\ y.counts = dirs[o].counts
    BY <1>6 DEF Directory
  <2> QED BY <1>11, <2>1, <2>2, <2>3, <2>4, <1>8
<1>12. CASE ClientStarts(s) \/ ClientEnds(s)
  <2>1. Owns(s)  BY <1>12 DEF ClientStarts, ClientEnds, At, Owns, OwnPcs, RecordPcs
  <2>2. CASE UNCHANGED dirs  BY <2>2, <1>7
  <2>3. CASE ~UNCHANGED dirs
    <3>1. PICK f : \E n \in {sh[s].runs, sh[s].runs + 1} : SetOutput(s, n, f)
      BY <1>12, <2>3 DEF ClientStarts, ClientEnds
    <3>2. CASE dirs' = [dirs EXCEPT ![o].counts = f]
      <4>1. dirs'[o] = [dirs[o] EXCEPT !.counts = f] /\ \A d \in Dirs : d # o => dirs'[d] = dirs[d]
        BY <3>2, <1>1, <1>3
      <4> QED BY <4>1, <1>6, <1>12, <2>1 DEF RecordLeaves, Grows, Directory
    <3>3. CASE dirs' = [dirs EXCEPT ![o].times = f]
      <4>1. dirs'[o] = [dirs[o] EXCEPT !.times = f] /\ \A d \in Dirs : d # o => dirs'[d] = dirs[d]
        BY <3>3, <1>1, <1>3
      <4> QED BY <4>1, <1>6, <1>12, <2>1 DEF RecordLeaves, Grows, Directory
    <3> QED BY <3>1, <3>2, <3>3 DEF SetOutput
  <2> QED BY <2>2, <2>3
<1>13. CASE MoveTimes(s)
  <2>1. Owns(s)  BY <1>13 DEF MoveTimes, At, Owns, OwnPcs, RecordPcs
  <2>2. CASE dirs[o].times = NoFile  BY <2>2, <1>7, <1>13 DEF MoveTimes
  <2>3. CASE dirs[o].times # NoFile
    <3> DEFINE y == [dirs[o] EXCEPT !.saved = Append(@, dirs[o].times), !.times = NoFile]
    <3>1. dirs' = [dirs EXCEPT ![o] = y]  BY <2>3, <1>13 DEF MoveTimes
    <3>2. dirs[o].saved \in Seq(Document \cup {Broken}) /\ dirs[o].times \in Document \cup {Broken}
      BY <2>3, <1>6 DEF Directory
    <3>3. Append(dirs[o].saved, dirs[o].times) \in Seq(Document \cup {Broken})  BY <3>2
    <3>4. y \in Directory  BY <1>6, <3>3 DEF Directory
    <3> QED BY <1>6, <2>1, <3>1, <3>4, <1>8 DEF Directory
  <2> QED BY <2>2, <2>3
<1>14. CASE SaveStatistics(s)
  <2>1. Owns(s)  BY <1>14 DEF SaveStatistics, At, Owns, OwnPcs, RecordPcs
  <2>2. PICK v : dirs' = [dirs EXCEPT ![o].csv = v]  BY <1>14 DEF SaveStatistics
  <2>3. dirs'[o] = [dirs[o] EXCEPT !.csv = v] /\ \A d \in Dirs : d # o => dirs'[d] = dirs[d]
    BY <2>2, <1>1, <1>3
  <2> QED BY <2>1, <2>3, <1>6 DEF RecordLeaves, Grows, Directory
<1> QED BY <1>9, <1>10, <1>11, <1>12, <1>13, <1>14 DEF Record

\* A step of report changes files of its output and of its inputs, and no document.
LEMMA ReportFrame ==
  ASSUME IInv, NEW s \in Shells, Report(s)
  PROVE  /\ sh[s].pc \in ReportPcs \cup {"args"} /\ GoesOn(s, ReportPcs) /\ ReportLeaves(s)
         /\ Inputs(s)' = Inputs(s) /\ Output_(s)' = Output_(s)
<1> DEFINE o == Output_(s)
<1>1. TypeOK /\ sh[s] \in Shell /\ dirs \in [Dirs -> Directory] /\ sh \in [Shells -> Shell]
      /\ Fits(sh[s])
  BY DEF IInv, TypeOK
<1>2. sh[s].pc \in ReportPcs \cup {"args"}
  BY DEF Report, CheckoutInputArgs, MakeOutput, CopyEmptyRoofline, FillRoofline,
    ContinuePlot, TailLine, AppendLines, ReadCounts, ReadTimes, CreateDatFile, WritePoints,
    CopyDatFile, OpenDatFile, FillDatFile, AddDatFileReference, TruncateMetainfo,
    WriteMetainfo, AddPointLabels, Draw, At, ReportPcs, PlotPcs, LinesPcs, DatPcs
<1>3. GoesOn(s, ReportPcs)
  <2>1. {"makeout", "empty", "roofline", "tail", "counts", "times", "dat", "points", "copy",
         "open", "fill", "refs", "writemeta", "metainfo", "labels", "draw", "continue",
         "append"} \subseteq ReportPcs
    BY DEF ReportPcs, PlotPcs, LinesPcs, DatPcs
  <2>2. CASE CheckoutInputArgs(s) \/ MakeOutput(s) \/ ContinuePlot(s) \/ OpenDatFile(s)
             \/ WriteMetainfo(s) \/ AddPointLabels(s) \/ Draw(s)
    BY <1>1, <2>1, <2>2, Going
       DEF CheckoutInputArgs, MakeOutput, ContinuePlot, OpenDatFile, WriteMetainfo,
           AddPointLabels, Draw
  <2>3. CASE Fail(s)  BY <1>1, <2>3, Going
  <2>4. CASE (CopyEmptyRoofline(s) \/ FillRoofline(s) \/ TailLine(s)) /\ ~Fail(s)
    BY <1>1, <2>1, <2>4 DEF CopyEmptyRoofline, FillRoofline, TailLine, GoesOn, Shell
  <2>5. CASE AppendLines(s) /\ ~Fail(s)
    BY <1>1, <2>1, <2>5 DEF AppendLines, GoesOn, Shell
  <2>6. CASE (ReadCounts(s) \/ ReadTimes(s)) /\ ~Fail(s)
    BY <1>1, <2>1, <2>6 DEF ReadCounts, ReadTimes, GoesOn, Shell
  <2>7. CASE (CreateDatFile(s) \/ WritePoints(s) \/ FillDatFile(s)) /\ ~Fail(s)
    BY <1>1, <2>1, <2>7 DEF CreateDatFile, WritePoints, FillDatFile, GoesOn, Shell
  <2>8. CASE CopyDatFile(s) /\ ~Fail(s)
    <3>1. CASE Goto(s, "refs")  BY <1>1, <2>1, <3>1, Going
    <3>2. CASE ~Goto(s, "refs")
      BY <1>1, <2>1, <2>8, <3>2 DEF CopyDatFile, GoesOn, Shell
    <3> QED BY <3>1, <3>2
  <2>9. CASE AddDatFileReference(s) /\ ~Fail(s)
    BY <1>1, <2>1, <2>9 DEF AddDatFileReference, GoesOn, Shell
  <2>10. CASE TruncateMetainfo(s) /\ ~Fail(s)
    BY <1>1, <2>1, <2>10 DEF TruncateMetainfo, GoesOn, Shell
  <2> QED BY <2>2, <2>3, <2>4, <2>5, <2>6, <2>7, <2>8, <2>9, <2>10 DEF Report
<1>4. Inputs(s)' = Inputs(s) /\ Output_(s)' = Output_(s)
  BY <1>3 DEF GoesOn, Inputs, Output_, Args
<1>5. SUFFICES ReportLeaves(s)  BY <1>2, <1>3, <1>4
<1>6. ASSUME dirs' = dirs PROVE ReportLeaves(s)  BY <1>6 DEF ReportLeaves, Grows, Kept
<1>7. sh[s].pc \in ReportPcs => o \in Dirs /\ Input(s) \in Dirs  BY <1>1, Names
\* The output directory is made, or one of its files is written.
<1>8. ASSUME NEW v, o \in Dirs,
             \/ dirs' = [dirs EXCEPT ![o].exists = TRUE]
             \/ dirs' = [dirs EXCEPT ![o].gnu = v]
             \/ (TruncateMetainfo(s) \/ WriteMetainfo(s)) /\ dirs' = [dirs EXCEPT ![o].meta = v]
      PROVE  ReportLeaves(s)
  <2>1. /\ \A d \in Dirs : d # o => dirs'[d] = dirs[d]
        /\ \/ dirs'[o] = [dirs[o] EXCEPT !.exists = TRUE]
           \/ dirs'[o] = [dirs[o] EXCEPT !.gnu = v]
           \/ (TruncateMetainfo(s) \/ WriteMetainfo(s)) /\ dirs'[o] = [dirs[o] EXCEPT !.meta = v]
    BY <1>8, <1>1
  <2>2. dirs[o] \in Directory  BY <1>1, <1>8
  <2> QED BY <2>1, <2>2 DEF ReportLeaves, Grows, Kept, Directory
\* A .dat file is written.
<1>9. ASSUME CreateDatFile(s) \/ WritePoints(s) \/ OpenDatFile(s) \/ FillDatFile(s),
             NEW d \in Dirs, NEW v,
             dirs' = [dirs EXCEPT ![d].dat = v]
      PROVE  ReportLeaves(s)
  <2>1. dirs'[d] = [dirs[d] EXCEPT !.dat = v] /\ \A e \in Dirs : e # d => dirs'[e] = dirs[e]
    BY <1>9, <1>1
  <2>2. dirs[d] \in Directory  BY <1>1, <1>9
  <2> QED BY <1>9, <2>1, <2>2 DEF ReportLeaves, Grows, Kept, Directory
<1>10. CASE CheckoutInputArgs(s) \/ TailLine(s) \/ ReadCounts(s) \/ ReadTimes(s)
            \/ CopyDatFile(s) \/ Draw(s)
  BY <1>6, <1>10 DEF CheckoutInputArgs, TailLine, ReadCounts, ReadTimes, CopyDatFile, Draw, files
<1>11. CASE MakeOutput(s)
  BY <1>6, <1>7, <1>8, <1>11 DEF MakeOutput, At, ReportPcs
<1>12. CASE CopyEmptyRoofline(s) \/ FillRoofline(s) \/ ContinuePlot(s)
  <2>1. o \in Dirs
    BY <1>7, <1>12
       DEF CopyEmptyRoofline, FillRoofline, ContinuePlot, At, ReportPcs, PlotPcs, LinesPcs
  <2>2. CASE CopyEmptyRoofline(s)
    <3>1. dirs' = dirs \/ \E v : dirs' = [dirs EXCEPT ![o].gnu = v]
      BY <2>2 DEF CopyEmptyRoofline
    <3> QED BY <1>6, <1>8, <2>1, <3>1
  <2>3. CASE FillRoofline(s)
    <3>1. dirs' = [dirs EXCEPT ![o].gnu.end = "complete", ![o].gnu.lines = sh[s].source]
      BY <2>3 DEF FillRoofline
    <3>2. dirs' = [dirs EXCEPT ![o].gnu =
                     [dirs[o].gnu EXCEPT !.end = "complete", !.lines = sh[s].source]]
      BY <1>1, <2>1, <3>1
    <3> QED BY <1>8, <2>1, <3>2
  <2>4. CASE ContinuePlot(s)
    <3>1. dirs' = dirs \/ \E v : dirs' = [dirs EXCEPT ![o].gnu.end = v]
      BY <2>4 DEF ContinuePlot
    <3>2. \A v : dirs' = [dirs EXCEPT ![o].gnu.end = v] =>
                   dirs' = [dirs EXCEPT ![o].gnu = [dirs[o].gnu EXCEPT !.end = v]]
      BY <1>1, <2>1
    <3> QED BY <1>6, <1>8, <2>1, <3>1, <3>2
  <2> QED BY <1>12, <2>2, <2>3, <2>4
<1>13. CASE AppendLines(s)
  <2>1. o \in Dirs  BY <1>7, <1>13 DEF AppendLines, At, ReportPcs, PlotPcs, LinesPcs
  <2>2. \/ dirs' = dirs \/ \E v : dirs' = [dirs EXCEPT ![o].gnu = v]
        \/ \E v : dirs' = [dirs EXCEPT ![o].gnu.end = v]
    BY <1>13 DEF AppendLines
  <2>3. \A v : dirs' = [dirs EXCEPT ![o].gnu.end = v] =>
                 dirs' = [dirs EXCEPT ![o].gnu = [dirs[o].gnu EXCEPT !.end = v]]
    BY <1>1, <2>1
  <2> QED BY <1>6, <1>8, <2>1, <2>2, <2>3
<1>14. CASE CreateDatFile(s) \/ WritePoints(s) \/ OpenDatFile(s) \/ FillDatFile(s)
  <2>1. o \in Dirs /\ Input(s) \in Dirs
    BY <1>7, <1>14
       DEF CreateDatFile, WritePoints, OpenDatFile, FillDatFile, At, ReportPcs, PlotPcs, DatPcs
  <2>2. PICK d \in {o, Input(s)} :
          dirs' = dirs \/ \E x, v : dirs' = [dirs EXCEPT ![d].dat[x] = v]
    <3>1. CASE CreateDatFile(s)  BY <3>1 DEF CreateDatFile
    <3>2. CASE WritePoints(s)  BY <3>2 DEF WritePoints
    <3>3. CASE OpenDatFile(s)  BY <3>3 DEF OpenDatFile
    <3>4. CASE FillDatFile(s)  BY <3>4 DEF FillDatFile
    <3> QED BY <1>14, <3>1, <3>2, <3>3, <3>4
  <2>3. \A x, v : dirs' = [dirs EXCEPT ![d].dat[x] = v] =>
                   dirs' = [dirs EXCEPT ![d].dat = [dirs[d].dat EXCEPT ![x] = v]]
    BY <1>1, <2>1, <2>2
  <2> QED BY <1>6, <1>9, <1>14, <2>1, <2>2, <2>3
<1>15. CASE AddDatFileReference(s) \/ AddPointLabels(s)
  <2>1. o \in Dirs
    BY <1>7, <1>15 DEF AddDatFileReference, AddPointLabels, At, ReportPcs, PlotPcs
  <2>2. CASE AddDatFileReference(s)
    <3>1. dirs' = dirs \/ \E v : dirs' = [dirs EXCEPT ![o].gnu = v]
      BY <2>2 DEF AddDatFileReference
    <3> QED BY <1>6, <1>8, <2>1, <3>1
  <2>3. CASE AddPointLabels(s)
    <3>1. PICK v : dirs' = [dirs EXCEPT ![o].gnu.labels = v]  BY <2>3 DEF AddPointLabels
    <3>2. dirs' = [dirs EXCEPT ![o].gnu = [dirs[o].gnu EXCEPT !.labels = v]]
      BY <1>1, <2>1, <3>1
    <3> QED BY <1>8, <2>1, <3>2
  <2> QED BY <1>15, <2>2, <2>3
<1>16. CASE TruncateMetainfo(s) \/ WriteMetainfo(s)
  <2>1. o \in Dirs  BY <1>7, <1>16 DEF TruncateMetainfo, WriteMetainfo, At, ReportPcs, PlotPcs
  <2>2. dirs' = dirs \/ \E v : dirs' = [dirs EXCEPT ![o].meta = v]
    BY <1>16 DEF TruncateMetainfo, WriteMetainfo
  <2> QED BY <1>6, <1>8, <1>16, <2>1, <2>2
<1> QED BY <1>10, <1>11, <1>12, <1>13, <1>14, <1>15, <1>16 DEF Report

\* A step of record_ert.
LEMMA ErtFrame ==
  ASSUME IInv, NEW s \in Shells, RecordErt(s)
  PROVE  sh[s].pc \in ErtPcs /\ GoesOn(s, ErtPcs)
<1>1. TypeOK /\ sh[s] \in Shell /\ sh \in [Shells -> Shell]  BY DEF IInv, TypeOK
<1>2. sh[s].pc \in ErtPcs
  BY DEF RecordErt, CopyConfig, SetPrecision, ToolStarts, ToolEnds, FindDatabase,
         MakeDatabase, ReadHostname, ReadPrecision, MoveRoofline, At, ErtPcs
<1> SUFFICES GoesOn(s, ErtPcs)  BY <1>2
<1>3. {"precision", "ert", "measuring", "database", "makedb", "hostname", "name", "move"}
        \subseteq ErtPcs
  BY DEF ErtPcs
<1>4. ASSUME Fail(s) \/ Return(s) PROVE GoesOn(s, ErtPcs)  BY <1>1, <1>4, Going
<1>5. ASSUME NEW pc \in ErtPcs, Goto(s, pc) PROVE GoesOn(s, ErtPcs)  BY <1>1, <1>5, Going
<1>6. CASE CopyConfig(s) \/ SetPrecision(s)
  <2>1. Goto(s, "precision") \/ Goto(s, "ert")  BY <1>6 DEF CopyConfig, SetPrecision
  <2> QED BY <1>3, <1>5, <2>1
<1>7. CASE FindDatabase(s) \/ MakeDatabase(s)
  <2>1. Goto(s, "hostname") \/ Goto(s, "makedb") \/ Fail(s)
    BY <1>7 DEF FindDatabase, MakeDatabase
  <2> QED BY <1>3, <1>4, <1>5, <2>1
<1>8. CASE ReadHostname(s) \/ MoveRoofline(s)
  <2>1. Goto(s, "name") \/ Fail(s) \/ Return(s)  BY <1>8 DEF ReadHostname, MoveRoofline
  <2> QED BY <1>3, <1>4, <1>5, <2>1
<1>9. ASSUME NEW pc \in ErtPcs, NEW n, sh' = [sh EXCEPT ![s].pc = pc, ![s].name = n]
      PROVE  GoesOn(s, ErtPcs)
  BY <1>1, <1>9 DEF GoesOn, Shell
<1>10. CASE ToolStarts(s) \/ ToolEnds(s)
  <2>1. \E n : \/ sh' = [sh EXCEPT ![s].pc = "measuring", ![s].name = n]
               \/ sh' = [sh EXCEPT ![s].pc = "database", ![s].name = n]
    BY <1>10 DEF ToolStarts, ToolEnds
  <2> QED BY <1>3, <1>9, <2>1
<1>11. CASE ReadPrecision(s)
  <2>1. Fail(s) \/ \E n : sh' = [sh EXCEPT ![s].pc = "move", ![s].name = n]
    BY <1>11 DEF ReadPrecision
  <2> QED BY <1>3, <1>4, <1>9, <2>1
<1> QED BY <1>2, <1>6, <1>7, <1>8, <1>10, <1>11 DEF RecordErt

\* The other steps change no directory.
LEMMA OtherFrame ==
  ASSUME NEW s \in Shells, Begin(s) \/ RecordErt(s) \/ Kill(s)
  PROVE  dirs' = dirs
  BY DEF Begin, RecordErt, CopyConfig, SetPrecision, ToolStarts, ToolEnds, FindDatabase,
         MakeDatabase, ReadHostname, ReadPrecision, MoveRoofline, Kill, files
-----------------------------------------------------------------------------
(***************************************************************************)
(* The invariant of a recording.                                           *)
(***************************************************************************)
\* A shell has a directory for itself from its making until it runs another
\* command, if the recording does not fail.
Holds(s) == Owns(s) \/ (At(s, "rest") /\ Done(s, "record"))
Held(s) == Holds(s) => dirs[OutDir(s)].exists
SoleHolder(s, r) == Holds(s) /\ Holds(r) /\ OutDir(s) = OutDir(r) => s = r
Fresh(d) ==
  ~dirs[d].exists => dirs[d].counts = NoFile /\ dirs[d].times = NoFile /\ dirs[d].saved = <<>>

\* The client runs that the command in a shell has started.
Started(x) ==
  /\ x.pc \in {"exists", "makedirs", "meta"} => x.runs = 0
  /\ x.pc \in {"running", "ran"} => x.runs > 0
  /\ x.pc # "rest" => x.result = "none"
\* Before the end of its first client run a recording has no counters.
Unrecorded(s) ==
  /\ Owns(s) /\ sh[s].runs = 0 => dirs[OutDir(s)].counts = NoFile
  /\ At(s, "running") /\ sh[s].runs = 1 => ~IsDocument(dirs[OutDir(s)].counts)

(***************************************************************************)
(* How far a time analysis is: its first run counts, the next n runs are   *)
(* timed and their documents moved away one by one, the documents are      *)
(* parsed, the application is timed, n more runs follow, and then the      *)
(* .csv files are written.                                                 *)
(***************************************************************************)
Numbered(saved, id) ==
  \A i \in DOMAIN saved : saved[i] = Broken \/ (saved[i].by = id /\ saved[i].run = i + 1)
Complete(saved, n) == Len(saved) = n /\ \A i \in DOMAIN saved : saved[i] # Broken
Phase(x, y, id) ==
  LET n == x.cmd.run_time_analysis
  IN \/ x.pc = "meta" /\ y.saved = <<>> /\ y.times = NoFile
     \/ /\ x.pc = "client" /\ x.runs <= n /\ y.times = NoFile
        /\ Len(y.saved) = IF x.runs = 0 THEN 0 ELSE x.runs - 1
     \/ x.pc \in {"running", "ran"} /\ x.runs = 1 /\ y.saved = <<>> /\ y.times = NoFile
     \/ /\ x.pc \in {"running", "ran"} /\ x.runs \in 2 .. n + 1 /\ Len(y.saved) = x.runs - 2
        /\ y.times \in {NoFile, Broken} \/ (y.times.by = id /\ y.times.run = x.runs)
     \/ x.pc = "statistics" /\ x.runs = n + 1 /\ Len(y.saved) = n
     \/ x.pc = "client" /\ x.runs > n /\ Complete(y.saved, n)
     \/ x.pc \in {"running", "ran"} /\ x.runs > n + 1 /\ Complete(y.saved, n)
     \/ x.pc = "timing" /\ x.runs = n + 1 /\ Complete(y.saved, n)
     \/ x.pc \in {"csv", "rest"} /\ Complete(y.saved, n)
Analysed(s) ==
  Holds(s) /\ ~OneRunOnly(s) /\ Analysis(s) > 1 =>
    /\ Numbered(dirs[OutDir(s)].saved, Id(s))
    /\ Phase(sh[s], dirs[OutDir(s)], Id(s))

InOrder(s) == Held(s) /\ Started(sh[s]) /\ Unrecorded(s) /\ Analysed(s)
RInv ==
  /\ \A d \in Dirs : Fresh(d)
  /\ \A s \in Shells : InOrder(s)
  /\ \A s, r \in Shells : SoleHolder(s, r)
-----------------------------------------------------------------------------
\* What a step of s leaves to the other shells: only an owner writes documents.
Leaves(s) ==
  /\ \A d \in Dirs : Grows(d) /\ (Kept(d) \/ (Owns(s) /\ d = OutDir(s)))
  /\ \A r \in Shells : r # s => sh'[r] = sh[r]
Works(s) == Begin(s) \/ Step(s) \/ Kill(s)

\* Whatever a shell does, it leaves documents it does not own.
LEMMA WorksLeaves ==
  ASSUME IInv, NEW s \in Shells, Works(s)
  PROVE  Leaves(s)
<1>1. CASE Record(s)
  <2>1. RecordLeaves(s) /\ GoesOn(s, RecordPcs)  BY <1>1, RecordFrame
  <2> QED BY <2>1 DEF RecordLeaves, GoesOn, Leaves, Kept
<1>2. CASE Report(s)
  <2>1. ReportLeaves(s) /\ GoesOn(s, ReportPcs)  BY <1>2, ReportFrame
  <2> QED BY <2>1 DEF ReportLeaves, GoesOn, Leaves
<1>3. CASE Begin(s) \/ RecordErt(s) \/ Kill(s)
  <2>1. dirs' = dirs  BY <1>3, OtherFrame
  <2>2. \A r \in Shells : r # s => sh'[r] = sh[r]
    <3>1. CASE Begin(s) \/ Kill(s)  BY <3>1 DEF IInv, TypeOK, Begin, Kill, Fail
    <3>2. CASE RecordErt(s)  BY <3>2, ErtKeeps DEF Keeps, ShellStep
    <3> QED BY <1>3, <3>1, <3>2
  <2> QED BY <2>1, <2>2 DEF Leaves, Grows, Kept
<1> QED BY <1>1, <1>2, <1>3 DEF Works, Step

\* The directory of a shell that holds one is a directory.
LEMMA HeldNames ==
  ASSUME TypeOK, NEW s \in Shells, Fits(sh[s]), Holds(s)
  PROVE  OutDir(s) \in Dirs /\ sh[s].cmd \in RecordCommand
<1>1. sh[s].cmd \in Command \cup {None}  BY DEF TypeOK, Shell
<1>2. CASE Owns(s)  BY <1>2 DEF Owns, OwnPcs, Fits, OutDir, Args, RecordCommand
<1>3. CASE Done(s, "record")
  <2>1. sh[s].cmd.cmd = "record"  BY <1>3 DEF Done, Args
  <2>2. sh[s].cmd \in RecordCommand
    BY <1>1, <2>1 DEF Command, ReportCommand, ErtCommand, None
  <2> QED BY <2>2 DEF OutDir, Args, RecordCommand
<1> QED BY <1>2, <1>3 DEF Holds

\* A step of s leaves what another shell holds.
LEMMA OthersKept ==
  ASSUME IInv, RInv, NEW s \in Shells, Leaves(s), NEW r \in Shells, r # s
  PROVE  /\ InOrder(r)'
         /\ Holds(r)' => Holds(r) /\ OutDir(r)' = OutDir(r) /\ OutDir(r) \in Dirs
                         /\ dirs[OutDir(r)].exists
<1>1. sh'[r] = sh[r]  BY DEF Leaves
<1>2. /\ (Holds(r)' <=> Holds(r)) /\ (Owns(r)' <=> Owns(r)) /\ OutDir(r)' = OutDir(r)
      /\ Id(r)' = Id(r) /\ (OneRunOnly(r)' <=> OneRunOnly(r)) /\ Analysis(r)' = Analysis(r)
  BY <1>1 DEF Holds, Owns, Done, At, OutDir, Args, Id, OneRunOnly, Analysis
<1>3. InOrder(r)  BY DEF RInv
<1>4. ASSUME Holds(r)
      PROVE  /\ OutDir(r) \in Dirs /\ dirs[OutDir(r)].exists
             /\ Grows(OutDir(r)) /\ Kept(OutDir(r))
  <2>1. OutDir(r) \in Dirs /\ dirs[OutDir(r)].exists
    BY <1>3, <1>4, HeldNames DEF IInv, InOrder, Held
  <2>2. ~(Owns(s) /\ OutDir(r) = OutDir(s))
    BY <1>4 DEF RInv, SoleHolder, Holds
  <2> QED BY <2>1, <2>2 DEF Leaves
<1>5. Held(r)'  BY <1>2, <1>4 DEF Held, Grows
<1>6. Started(sh[r])'  BY <1>1, <1>3 DEF InOrder, Started
<1>7. Unrecorded(r)'
  <2>1. At(r, "running") => Owns(r)  BY DEF At, Owns, OwnPcs, RecordPcs
  <2>2. Owns(r) => dirs'[OutDir(r)].counts = dirs[OutDir(r)].counts  BY <1>4 DEF Holds, Kept
  <2>3. Unrecorded(r)  BY <1>3 DEF InOrder
  <2> QED BY <1>1, <1>2, <2>1, <2>2, <2>3 DEF Unrecorded, At, IsDocument
<1>8. Analysed(r)'
  <2> SUFFICES ASSUME Holds(r), ~OneRunOnly(r), Analysis(r) > 1 PROVE Analysed(r)'
    BY <1>2 DEF Analysed
  <2>1. /\ Numbered(dirs[OutDir(r)].saved, Id(r)) /\ Phase(sh[r], dirs[OutDir(r)], Id(r))
    BY <1>3 DEF InOrder, Analysed
  <2>2. /\ dirs'[OutDir(r)].saved = dirs[OutDir(r)].saved
        /\ dirs'[OutDir(r)].times = dirs[OutDir(r)].times
    BY <1>4 DEF Kept
  <2>3. Phase(sh[r], dirs'[OutDir(r)], Id(r))  BY <2>1, <2>2 DEF Phase
  <2> QED BY <1>1, <1>2, <2>1, <2>2, <2>3 DEF Analysed
<1> QED BY <1>2, <1>4, <1>5, <1>6, <1>7, <1>8 DEF InOrder
-----------------------------------------------------------------------------
(***************************************************************************)
(* The steps of the shell itself.                                          *)
(***************************************************************************)
\* A process that fails, or is killed, holds nothing.
LEMMA FailInOrder ==
  ASSUME TypeOK, NEW s \in Shells, Fail(s)
  PROVE  InOrder(s)' /\ ~Holds(s)'
<1>1. sh'[s].pc = "rest" /\ sh'[s].result = "failed"  BY DEF TypeOK, Shell, Fail
<1>2. ~Owns(s)' /\ ~Holds(s)'
  BY <1>1 DEF Holds, Owns, OwnPcs, RecordPcs, Done
<1> QED BY <1>1, <1>2 DEF InOrder, Held, Started, Unrecorded, Analysed, At

\* What the directory of a recording holds after its client has written f.
LEMMA OutputSet ==
  ASSUME TypeOK, NEW s \in Shells, OutDir(s) \in Dirs, NEW n, NEW f, SetOutput(s, n, f)
  PROVE  LET y == dirs[OutDir(s)]
             z == dirs'[OutDir(s)]
         IN /\ z.exists = y.exists /\ z.saved = y.saved
            /\ Counting(s, n) => z.counts = f /\ z.times = y.times
            /\ ~Counting(s, n) => z.counts = y.counts /\ z.times = f
<1> DEFINE o == OutDir(s)
<1>1. dirs \in [Dirs -> Directory] /\ dirs[o] \in Directory  BY DEF TypeOK
<1>2. CASE Counting(s, n)
  <2>1. dirs'[o] = [dirs[o] EXCEPT !.counts = f]  BY <1>1, <1>2 DEF SetOutput
  <2> QED BY <1>1, <1>2, <2>1 DEF Directory
<1>3. CASE ~Counting(s, n)
  <2>1. dirs'[o] = [dirs[o] EXCEPT !.times = f]  BY <1>1, <1>3 DEF SetOutput
  <2> QED BY <1>1, <1>3, <2>1 DEF Directory
<1> QED BY <1>2, <1>3

\* The facts about a recording that its next step needs, and how it is
\* shown to be in order afterwards.
LEMMA RecordInOrder ==
  ASSUME IInv, RInv, NEW s \in Shells, Record(s)
  PROVE  InOrder(s)' /\ (Holds(s)' => Holds(s) \/ ~dirs[OutDir(s)].exists)
<1> DEFINE o == OutDir(s)
           x == sh[s]
           n == sh[s].cmd.run_time_analysis
           deep == ~OneRunOnly(s) /\ Analysis(s) > 1
<1>1. /\ TypeOK /\ x \in Shell /\ o \in Dirs /\ dirs \in [Dirs -> Directory]
      /\ dirs[o] \in Directory /\ Fits(x) /\ x.pc \in RecordPcs /\ x.runs \in Nat
      /\ x.cmd \in RecordCommand /\ n \in Nat
  BY RecordFrame DEF IInv, TypeOK, Shell, Fits, RecordCommand
<1>2. /\ OutDir(s)' = o /\ Id(s)' = Id(s) /\ sh'[s].cmd = x.cmd
      /\ (OneRunOnly(s)' <=> OneRunOnly(s)) /\ Analysis(s)' = n /\ Analysis(s) = n
  BY RecordFrame DEF GoesOn, OneRunOnly, Analysis, Args
<1>3. InOrder(s) /\ x.result = "none" /\ (Owns(s) => dirs[o].exists)
  BY <1>1 DEF RInv, InOrder, Started, RecordPcs, Held, Holds
<1>4. Owns(s) => Held(s) /\ (deep => Numbered(dirs[o].saved, Id(s)) /\ Phase(x, dirs[o], Id(s)))
  BY <1>3 DEF InOrder, Analysed, Holds
<1>5. Unrecorded(s) /\ Started(x)  BY <1>3 DEF InOrder
\* Another step of the recording.
<1>6. ASSUME NEW c \in RecordPcs, sh'[s].pc = c, sh'[s].result = "none", sh'[s].runs \in Nat,
             c \in {"exists", "makedirs", "meta"} => sh'[s].runs = 0,
             c \in {"running", "ran"} => sh'[s].runs > 0,
             c \in OwnPcs => /\ Owns(s) \/ ~dirs[o].exists
                             /\ dirs'[o].exists
                             /\ sh'[s].runs = 0 => dirs'[o].counts = NoFile,
             c = "running" /\ sh'[s].runs = 1 => ~IsDocument(dirs'[o].counts),
             c \in OwnPcs /\ deep => /\ Numbered(dirs'[o].saved, Id(s))
                                     /\ Phase(sh'[s], dirs'[o], Id(s))
      PROVE  InOrder(s)' /\ (Holds(s)' => Holds(s) \/ ~dirs[o].exists)
  <2>1. c # "rest"  BY DEF RecordPcs
  <2>2. (Owns(s)' <=> c \in OwnPcs) /\ (Holds(s)' <=> Owns(s)')
    BY <1>6, <2>1 DEF Owns, Holds, At
  <2>3. Held(s)'  BY <1>2, <1>6, <2>2 DEF Held
  <2>4. Started(sh[s])'  BY <1>6 DEF Started
  <2>5. Unrecorded(s)'  BY <1>2, <1>6, <2>2 DEF Unrecorded, At, IsDocument
  <2>6. Analysed(s)'  BY <1>2, <1>6, <2>2 DEF Analysed
  <2> QED BY <1>6, <2>2, <2>3, <2>4, <2>5, <2>6 DEF InOrder, Holds
<1>7. CASE Fail(s)  BY <1>1, <1>7, FailInOrder
<1>8. CASE CheckOutput(s) /\ ~Fail(s)
  <2>1. sh'[s] = [x EXCEPT !.pc = "makedirs"] /\ x.pc = "exists"
    BY <1>1, <1>8 DEF CheckOutput, Goto, At, TypeOK
  <2>2. sh'[s].pc = "makedirs" /\ sh'[s].result = "none" /\ sh'[s].runs = 0
    BY <1>1, <1>3, <1>5, <2>1 DEF Shell, Started
  <2> QED BY <2>2, <1>6 DEF RecordPcs, OwnPcs
<1>9. CASE MakeDirs(s) /\ ~Fail(s)
  <2>1. sh'[s] = [x EXCEPT !.pc = "meta"] /\ x.pc = "makedirs" /\ ~dirs[o].exists
        /\ dirs'[o] = [dirs[o] EXCEPT !.exists = TRUE]
    BY <1>1, <1>9 DEF MakeDirs, Goto, At, TypeOK
  <2>2. sh'[s].pc = "meta" /\ sh'[s].result = "none" /\ sh'[s].runs = 0
    BY <1>1, <1>3, <1>5, <2>1 DEF Shell, Started
  <2>3. dirs'[o].exists /\ dirs'[o].counts = NoFile /\ dirs'[o].times = NoFile
        /\ dirs'[o].saved = <<>>
    BY <1>1, <2>1 DEF RInv, Fresh, Directory
  <2>4. Numbered(dirs'[o].saved, Id(s)) /\ Phase(sh'[s], dirs'[o], Id(s))
    BY <2>2, <2>3 DEF Numbered, Phase
  <2> QED BY <2>1, <2>2, <2>3, <2>4, <1>6 DEF RecordPcs, OwnPcs
<1>10. CASE SaveMeta(s)
  <2>1. sh'[s] = [x EXCEPT !.pc = "client"] /\ x.pc = "meta" /\ Owns(s)
        /\ dirs'[o] = [dirs[o] EXCEPT !.meta = <<Args(s).app>>]
    BY <1>1, <1>10 DEF SaveMeta, Goto, At, TypeOK, Owns, OwnPcs, RecordPcs
  <2>2. sh'[s].pc = "client" /\ sh'[s].result = "none" /\ sh'[s].runs = 0 /\ x.runs = 0
        /\ sh'[s].cmd = x.cmd
    BY <1>1, <1>3, <1>5, <2>1 DEF Shell, Started
  <2>3. dirs'[o].exists = dirs[o].exists /\ dirs'[o].counts = dirs[o].counts
        /\ dirs'[o].times = dirs[o].times /\ dirs'[o].saved = dirs[o].saved
    BY <1>1, <2>1 DEF Directory
  <2>4. ASSUME deep PROVE Numbered(dirs'[o].saved, Id(s)) /\ Phase(sh'[s], dirs'[o], Id(s))
    <3>1. Numbered(dirs[o].saved, Id(s)) /\ Phase(x, dirs[o], Id(s))  BY <1>4, <2>1, <2>4
    <3>2. dirs[o].saved = <<>> /\ dirs[o].times = NoFile  BY <2>1, <3>1 DEF Phase
    <3> QED BY <1>1, <2>2, <2>3, <3>1, <3>2 DEF Phase
  <2> QED BY <2>1, <2>2, <2>3, <2>4, <1>3, <1>5, <1>6 DEF RecordPcs, OwnPcs, Unrecorded
<1>11. ASSUME Owns(s), deep PROVE Numbered(dirs[o].saved, Id(s)) /\ Phase(x, dirs[o], Id(s))
  BY <1>4, <1>11
<1>12. deep => Counting(s, 1) /\ n > 1
  BY <1>2 DEF OneRunOnly, Counting
<1>13. dirs[o].saved \in Seq(Document \cup {Broken}) /\ Len(dirs[o].saved) \in Nat
       /\ (Len(dirs[o].saved) = 0 => dirs[o].saved = <<>>)
  BY <1>1 DEF Directory
<1>14. CASE ClientStarts(s)
  <2>1. /\ x.pc = "client" /\ Owns(s) /\ SetOutput(s, x.runs + 1, Broken)
        /\ sh'[s] = [x EXCEPT !.pc = "running", !.runs = x.runs + 1]
    BY <1>1, <1>14 DEF ClientStarts, At, TypeOK, Owns, OwnPcs, RecordPcs
  <2>2. sh'[s].pc = "running" /\ sh'[s].result = "none" /\ sh'[s].runs = x.runs + 1
        /\ sh'[s].cmd = x.cmd
    BY <1>1, <1>3, <2>1 DEF Shell
  <2>3. /\ dirs'[o].exists = dirs[o].exists /\ dirs'[o].saved = dirs[o].saved
        /\ Counting(s, x.runs + 1) => dirs'[o].counts = Broken /\ dirs'[o].times = dirs[o].times
        /\ ~Counting(s, x.runs + 1) => dirs'[o].counts = dirs[o].counts /\ dirs'[o].times = Broken
    BY <1>1, <2>1, OutputSet
  <2>4. x.runs = 0 => ~IsDocument(dirs'[o].counts)
    BY <1>5, <2>1, <2>3 DEF Unrecorded, IsDocument
  <2>5. ASSUME deep PROVE Numbered(dirs'[o].saved, Id(s)) /\ Phase(sh'[s], dirs'[o], Id(s))
    <3>1. Numbered(dirs[o].saved, Id(s)) /\ Phase(x, dirs[o], Id(s))  BY <1>11, <2>1, <2>5
    <3>2. CASE x.runs = 0
      <4>1. dirs[o].times = NoFile /\ Len(dirs[o].saved) = 0
        BY <1>1, <2>1, <3>1, <3>2 DEF Phase
      <4>2. Counting(s, x.runs + 1) /\ sh'[s].runs = 1  BY <1>12, <2>2, <2>5, <3>2
      <4>3. Phase(sh'[s], dirs'[o], Id(s))
        BY <1>13, <2>2, <2>3, <4>1, <4>2 DEF Phase
      <4> QED BY <2>3, <3>1, <4>3
    <3>3. CASE x.runs # 0
      <4>1. ~Counting(s, x.runs + 1)  BY <1>1, <3>3 DEF Counting
      <4>2. dirs'[o].times = Broken  BY <2>3, <4>1
      <4>3. CASE x.runs <= n /\ Len(dirs[o].saved) = x.runs - 1
        <5>1. sh'[s].runs \in 2 .. n + 1 /\ Len(dirs'[o].saved) = sh'[s].runs - 2
          BY <1>1, <2>2, <2>3, <3>3, <4>3
        <5> QED BY <2>2, <2>3, <3>1, <4>2, <5>1 DEF Phase
      <4>4. CASE x.runs > n /\ Complete(dirs[o].saved, n)
        <5>1. sh'[s].runs > n + 1  BY <1>1, <2>2, <4>4
        <5> QED BY <2>2, <2>3, <3>1, <4>4, <5>1 DEF Phase
      <4> QED BY <2>1, <3>1, <3>3, <4>3, <4>4 DEF Phase
    <3> QED BY <3>2, <3>3
  <2> QED BY <1>1, <1>3, <1>6, <2>1, <2>2, <2>3, <2>4, <2>5 DEF RecordPcs, OwnPcs
<1>15. CASE ClientDoesNotStart(s)
  <2>1. /\ x.pc = "client" /\ Owns(s) /\ dirs' = dirs
        /\ sh'[s] = [x EXCEPT !.pc = "ran", !.runs = x.runs + 1]
    BY <1>1, <1>15 DEF ClientDoesNotStart, At, TypeOK, Owns, OwnPcs, RecordPcs, files
  <2>2. sh'[s].pc = "ran" /\ sh'[s].result = "none" /\ sh'[s].runs = x.runs + 1
        /\ sh'[s].cmd = x.cmd
    BY <1>1, <1>3, <2>1 DEF Shell
  <2>3. ASSUME deep PROVE Numbered(dirs'[o].saved, Id(s)) /\ Phase(sh'[s], dirs'[o], Id(s))
    <3>1. Numbered(dirs[o].saved, Id(s)) /\ Phase(x, dirs[o], Id(s))  BY <1>11, <2>1, <2>3
    <3>2. CASE x.runs = 0
      <4>1. dirs[o].times = NoFile /\ Len(dirs[o].saved) = 0
        BY <1>1, <2>1, <3>1, <3>2 DEF Phase
      <4>2. sh'[s].runs = 1  BY <2>2, <3>2
      <4> QED BY <1>13, <2>1, <2>2, <3>1, <4>1, <4>2 DEF Phase
    <3>3. CASE x.runs # 0 /\ x.runs <= n /\ Len(dirs[o].saved) = x.runs - 1 /\ dirs[o].times = NoFile
      <4>1. sh'[s].runs \in 2 .. n + 1 /\ Len(dirs[o].saved) = sh'[s].runs - 2
        BY <1>1, <2>2, <3>3
      <4> QED BY <2>1, <2>2, <3>1, <3>3, <4>1 DEF Phase
    <3>4. CASE x.runs > n /\ Complete(dirs[o].saved, n)
      <4>1. sh'[s].runs > n + 1  BY <1>1, <2>2, <3>4
      <4> QED BY <2>1, <2>2, <3>1, <3>4, <4>1 DEF Phase
    <3> QED BY <2>1, <3>1, <3>2, <3>3, <3>4 DEF Phase
  <2> QED BY <1>1, <1>3, <1>6, <2>1, <2>2, <2>3 DEF RecordPcs, OwnPcs
<1>16. CASE ClientEnds(s)
  <2>1. /\ x.pc = "running" /\ Owns(s) /\ sh'[s] = [x EXCEPT !.pc = "ran"]
        /\ \/ dirs' = dirs
           \/ \E f : f.by = Id(s) /\ f.run = x.runs /\ SetOutput(s, x.runs, f)
    BY <1>1, <1>16 DEF ClientEnds, At, TypeOK, Owns, OwnPcs, RecordPcs, Goto
  <2>2. sh'[s].pc = "ran" /\ sh'[s].result = "none" /\ sh'[s].runs = x.runs /\ x.runs > 0
        /\ sh'[s].cmd = x.cmd
    BY <1>1, <1>3, <1>5, <2>1 DEF Shell, Started
  <2>3. /\ dirs'[o].exists = dirs[o].exists /\ dirs'[o].saved = dirs[o].saved
        /\ Counting(s, x.runs) => dirs'[o].times = dirs[o].times
        /\ \/ dirs'[o].times = dirs[o].times
           \/ dirs'[o].times.by = Id(s) /\ dirs'[o].times.run = x.runs
    <3>1. CASE dirs' = dirs  BY <3>1
    <3>2. ASSUME NEW f, f.by = Id(s), f.run = x.runs, SetOutput(s, x.runs, f) PROVE <2>3
      BY <1>1, <3>2, OutputSet
    <3> QED BY <2>1, <3>1, <3>2
  <2>4. ASSUME deep PROVE Numbered(dirs'[o].saved, Id(s)) /\ Phase(sh'[s], dirs'[o], Id(s))
    <3>1. Numbered(dirs[o].saved, Id(s)) /\ Phase(x, dirs[o], Id(s))  BY <1>11, <2>1, <2>4
    <3>2. CASE x.runs = 1 /\ dirs[o].saved = <<>> /\ dirs[o].times = NoFile
      <4>1. dirs'[o].times = NoFile  BY <1>12, <2>3, <2>4, <3>2
      <4> QED BY <2>2, <2>3, <3>1, <3>2, <4>1 DEF Phase
    <3>3. CASE /\ x.runs \in 2 .. n + 1 /\ Len(dirs[o].saved) = x.runs - 2
               /\ dirs[o].times \in {NoFile, Broken}
                    \/ (dirs[o].times.by = Id(s) /\ dirs[o].times.run = x.runs)
      <4>1. dirs'[o].times \in {NoFile, Broken}
              \/ (dirs'[o].times.by = Id(s) /\ dirs'[o].times.run = x.runs)
        BY <2>3, <3>3
      <4> QED BY <2>2, <2>3, <3>1, <3>3, <4>1 DEF Phase
    <3>4. CASE x.runs > n + 1 /\ Complete(dirs[o].saved, n)
      BY <2>2, <2>3, <3>1, <3>4 DEF Phase
    <3> QED BY <2>1, <3>1, <3>2, <3>3, <3>4 DEF Phase
  <2> QED BY <1>1, <1>3, <1>6, <2>1, <2>2, <2>3, <2>4 DEF RecordPcs, OwnPcs
<1>17. CASE NextRun(s)
  <2>1. /\ x.pc = "ran" /\ Owns(s) /\ dirs' = dirs /\ ~InFirstLoop(s)
        /\ sh'[s] = [x EXCEPT !.pc = "client"]
    BY <1>1, <1>17 DEF NextRun, At, TypeOK, Owns, OwnPcs, RecordPcs, Goto, files
  <2>2. sh'[s].pc = "client" /\ sh'[s].result = "none" /\ sh'[s].runs = x.runs /\ x.runs > 0
        /\ sh'[s].cmd = x.cmd
    BY <1>1, <1>3, <1>5, <2>1 DEF Shell, Started
  <2>3. ASSUME deep PROVE Numbered(dirs'[o].saved, Id(s)) /\ Phase(sh'[s], dirs'[o], Id(s))
    <3>1. Numbered(dirs[o].saved, Id(s)) /\ Phase(x, dirs[o], Id(s))  BY <1>11, <2>1, <2>3
    <3>2. x.runs \notin 2 .. n + 1  BY <1>2, <2>1, <2>3 DEF InFirstLoop
    <3>3. CASE x.runs = 1 /\ dirs[o].saved = <<>> /\ dirs[o].times = NoFile
      <4>1. sh'[s].runs <= n /\ Len(dirs[o].saved) = sh'[s].runs - 1
        BY <1>1, <1>12, <2>2, <2>3, <3>3
      <4> QED BY <2>1, <2>2, <3>1, <3>3, <4>1 DEF Phase
    <3>4. CASE x.runs > n + 1 /\ Complete(dirs[o].saved, n)
      <4>1. sh'[s].runs > n  BY <1>1, <2>2, <3>4
      <4> QED BY <2>1, <2>2, <3>1, <3>4, <4>1 DEF Phase
    <3> QED BY <2>1, <3>1, <3>2, <3>3, <3>4 DEF Phase
  <2> QED BY <1>1, <1>3, <1>6, <2>1, <2>2, <2>3 DEF RecordPcs, OwnPcs
<1>18. CASE MoveTimes(s) /\ ~Fail(s)
  <2> DEFINE q == Append(dirs[o].saved, dirs[o].times)
             c == IF x.runs = n + 1 THEN "statistics" ELSE "client"
  <2>1. /\ x.pc = "ran" /\ Owns(s) /\ deep /\ x.runs \in 2 .. n + 1 /\ dirs[o].times # NoFile
        /\ dirs'[o] = [dirs[o] EXCEPT !.saved = q, !.times = NoFile]
        /\ sh'[s] = [x EXCEPT !.pc = c]
    BY <1>1, <1>2, <1>18
    DEF MoveTimes, At, TypeOK, Owns, OwnPcs, RecordPcs, Goto, InFirstLoop
  <2>2. sh'[s].pc = c /\ sh'[s].result = "none" /\ sh'[s].runs = x.runs /\ x.runs > 0
        /\ sh'[s].cmd = x.cmd
    BY <1>1, <1>3, <1>5, <2>1 DEF Shell, Started
  <2>3. dirs'[o].exists = dirs[o].exists /\ dirs'[o].counts = dirs[o].counts
        /\ dirs'[o].times = NoFile /\ dirs'[o].saved = q
    BY <1>1, <2>1 DEF Directory
  <2>4. /\ Numbered(dirs[o].saved, Id(s)) /\ Len(dirs[o].saved) = x.runs - 2
        /\ dirs[o].times = Broken \/ (dirs[o].times.by = Id(s) /\ dirs[o].times.run = x.runs)
    BY <1>1, <1>11, <2>1 DEF Phase
  <2>5. /\ Len(q) = x.runs - 1 /\ q[x.runs - 1] = dirs[o].times /\ DOMAIN q = 1 .. x.runs - 1
        /\ DOMAIN dirs[o].saved = 1 .. x.runs - 2
        /\ \A i \in 1 .. x.runs - 2 : q[i] = dirs[o].saved[i]
    BY <1>1, <1>13, <2>4
  <2> HIDE DEF q
  <2>6. Numbered(q, Id(s))
    <3> SUFFICES ASSUME NEW i \in 1 .. x.runs - 1
                 PROVE  q[i] = Broken \/ (q[i].by = Id(s) /\ q[i].run = i + 1)
      BY <2>5 DEF Numbered
    <3>1. CASE i = x.runs - 1
      <4>1. i + 1 = x.runs  BY <1>1, <3>1
      <4> QED BY <2>4, <2>5, <3>1, <4>1
    <3>2. CASE i # x.runs - 1
      <4>1. i \in 1 .. x.runs - 2  BY <1>1, <3>2
      <4> QED BY <2>4, <2>5, <4>1 DEF Numbered
    <3> QED BY <3>1, <3>2
  <2>7. Phase(sh'[s], dirs'[o], Id(s))
    <3>1. CASE x.runs = n + 1
      <4>1. Len(q) = n  BY <1>1, <2>5, <3>1
      <4> QED BY <2>2, <2>3, <3>1, <4>1 DEF Phase
    <3>2. CASE x.runs # n + 1
      <4>1. x.runs <= n /\ x.runs # 0  BY <1>1, <2>1, <3>2
      <4> QED BY <2>2, <2>3, <2>5, <3>2, <4>1 DEF Phase
    <3> QED BY <3>1, <3>2
  <2>8. c \in OwnPcs /\ c \notin {"meta", "running", "ran"}  BY DEF OwnPcs, RecordPcs
  <2> HIDE DEF c
  <2> QED BY <1>1, <1>3, <1>6, <2>1, <2>2, <2>3, <2>6, <2>7, <2>8 DEF RecordPcs, OwnPcs
<1>19. CASE ParseTimes(s) /\ ~Fail(s)
  <2>1. /\ x.pc = "statistics" /\ Owns(s) /\ dirs' = dirs /\ Broken \notin Range(dirs[o].saved)
        /\ sh'[s] = [x EXCEPT !.pc = "timing"]
    BY <1>1, <1>19 DEF ParseTimes, At, TypeOK, Owns, OwnPcs, RecordPcs, Goto, files
  <2>2. sh'[s].pc = "timing" /\ sh'[s].result = "none" /\ sh'[s].runs = x.runs
        /\ sh'[s].cmd = x.cmd
    BY <1>1, <1>3, <2>1 DEF Shell
  <2>3. ASSUME deep PROVE Numbered(dirs'[o].saved, Id(s)) /\ Phase(sh'[s], dirs'[o], Id(s))
    <3>1. Numbered(dirs[o].saved, Id(s)) /\ x.runs = n + 1 /\ Len(dirs[o].saved) = n
      BY <1>11, <2>1, <2>3 DEF Phase
    <3>2. Complete(dirs[o].saved, n)  BY <2>1, <3>1 DEF Complete, Range
    <3> QED BY <2>1, <2>2, <3>1, <3>2 DEF Phase
  <2>4. sh'[s].runs # 0 \/ dirs[o].counts = NoFile  BY <1>5, <2>1, <2>2 DEF Unrecorded
  <2> QED BY <1>1, <1>3, <1>6, <2>1, <2>2, <2>3, <2>4 DEF RecordPcs, OwnPcs
<1>20. CASE TimeApplication(s)
  <2>1. x.pc = "timing" /\ Owns(s) /\ dirs' = dirs
    BY <1>20 DEF TimeApplication, At, Owns, OwnPcs, RecordPcs, files
  <2>2. PICK c \in {"timing", "client"} :
          /\ sh'[s].pc = c /\ sh'[s].result = "none" /\ sh'[s].runs = x.runs
          /\ sh'[s].cmd = x.cmd
    BY <1>1, <1>3, <1>20, <2>1 DEF TimeApplication, Shell, TypeOK
  <2>3. ASSUME deep PROVE Numbered(dirs'[o].saved, Id(s)) /\ Phase(sh'[s], dirs'[o], Id(s))
    <3>1. Numbered(dirs[o].saved, Id(s)) /\ x.runs = n + 1 /\ Complete(dirs[o].saved, n)
      BY <1>11, <2>1, <2>3 DEF Phase
    <3>2. sh'[s].runs > n  BY <1>1, <2>2, <3>1
    <3> QED BY <2>1, <2>2, <3>1, <3>2 DEF Phase
  <2>4. sh'[s].runs # 0 \/ dirs[o].counts = NoFile  BY <1>5, <2>1, <2>2 DEF Unrecorded
  <2>5. c \in OwnPcs /\ c \in RecordPcs  BY DEF RecordPcs, OwnPcs
  <2> QED BY <1>1, <1>3, <1>6, <2>1, <2>2, <2>3, <2>4, <2>5
<1>21. CASE EndAnalysis(s)
  <2>1. /\ x.pc = "ran" /\ Owns(s) /\ dirs' = dirs /\ deep /\ x.runs = 2 * n + 1
        /\ sh'[s] = [x EXCEPT !.pc = "csv"]
    BY <1>1, <1>2, <1>21
    DEF EndAnalysis, LastRun, At, TypeOK, Owns, OwnPcs, RecordPcs, Goto, files
  <2>2. sh'[s].pc = "csv" /\ sh'[s].result = "none" /\ sh'[s].runs = x.runs
        /\ sh'[s].cmd = x.cmd
    BY <1>1, <1>3, <2>1 DEF Shell
  <2>3. Numbered(dirs'[o].saved, Id(s)) /\ Phase(sh'[s], dirs'[o], Id(s))
    <3>1. Numbered(dirs[o].saved, Id(s)) /\ Phase(x, dirs[o], Id(s))  BY <1>11, <2>1
    <3>2. x.runs > n + 1 /\ x.runs # 1  BY <1>1, <1>12, <2>1
    <3>3. Complete(dirs[o].saved, n)  BY <1>1, <2>1, <3>1, <3>2 DEF Phase
    <3> QED BY <2>1, <2>2, <3>1, <3>3 DEF Phase
  <2>4. sh'[s].runs # 0 \/ dirs[o].counts = NoFile  BY <1>5, <2>1, <2>2 DEF Unrecorded
  <2> QED BY <1>1, <1>3, <1>6, <2>1, <2>2, <2>3, <2>4 DEF RecordPcs, OwnPcs
<1>22. CASE SaveStatistics(s) \/ Recorded(s)
  <2>1. Owns(s) /\ (x.pc = "csv" \/ ~deep)
    BY <1>1, <1>2, <1>22 DEF SaveStatistics, Recorded, At, Owns, OwnPcs, RecordPcs
  <2>2. \/ sh'[s] = [x EXCEPT !.pc = "rest", !.result = "done"]
        \/ x.pc = "csv" /\ sh'[s] = [x EXCEPT !.k = x.k + 1]
    BY <1>1, <1>22 DEF SaveStatistics, Recorded, At, TypeOK, Return
  <2>3. sh'[s].cmd = x.cmd /\ sh'[s].runs = x.runs  BY <1>1, <2>2 DEF Shell
  <2>4. /\ dirs'[o].exists = dirs[o].exists /\ dirs'[o].saved = dirs[o].saved
        /\ dirs'[o].times = dirs[o].times /\ dirs'[o].counts = dirs[o].counts
    <3>1. CASE Recorded(s)  BY <3>1 DEF Recorded, files
    <3>2. CASE SaveStatistics(s)
      <4>1. \E v : dirs' = [dirs EXCEPT ![o].csv = v]  BY <3>2 DEF SaveStatistics
      <4>2. \E v : dirs'[o] = [dirs[o] EXCEPT !.csv = v]  BY <1>1, <4>1
      <4> QED BY <1>1, <4>2 DEF Directory
    <3> QED BY <1>22, <3>1, <3>2
  <2>5. ASSUME deep PROVE Numbered(dirs[o].saved, Id(s)) /\ Complete(dirs[o].saved, n)
    <3>1. Numbered(dirs[o].saved, Id(s)) /\ Phase(x, dirs[o], Id(s))  BY <1>11, <2>1, <2>5
    <3> QED BY <2>1, <2>5, <3>1 DEF Phase
  <2>6. ASSUME sh'[s].pc \in {"csv", "rest"}, deep
        PROVE  Numbered(dirs'[o].saved, Id(s)) /\ Phase(sh'[s], dirs'[o], Id(s))
    <3>1. Complete(dirs'[o].saved, n)  BY <2>4, <2>5, <2>6 DEF Complete
    <3> QED BY <2>3, <2>4, <2>5, <2>6, <3>1 DEF Phase
  <2>7. CASE sh'[s] = [x EXCEPT !.pc = "rest", !.result = "done"]
    <3>1. sh'[s].pc = "rest"  BY <1>1, <2>7 DEF Shell
    <3>2. ~Owns(s)' /\ Holds(s)
      BY <2>1, <3>1 DEF Owns, OwnPcs, RecordPcs, Holds
    <3>3. Held(s)'  BY <1>2, <1>3, <2>1, <2>4 DEF Held
    <3>4. Started(sh[s])' /\ Unrecorded(s)'  BY <3>1, <3>2 DEF Started, Unrecorded, At
    <3>5. Analysed(s)'  BY <1>2, <2>6, <3>1 DEF Analysed
    <3> QED BY <3>2, <3>3, <3>4, <3>5 DEF InOrder
  <2>8. CASE x.pc = "csv" /\ sh'[s] = [x EXCEPT !.k = x.k + 1]
    <3>1. sh'[s].pc = "csv" /\ sh'[s].result = "none"  BY <1>1, <1>3, <2>8 DEF Shell
    <3>2. sh'[s].runs # 0 \/ dirs[o].counts = NoFile  BY <1>5, <2>1, <2>3 DEF Unrecorded
    <3>3. "csv" \in RecordPcs /\ "csv" \in OwnPcs  BY DEF RecordPcs, OwnPcs
    <3> QED BY <1>1, <1>3, <1>6, <2>1, <2>3, <2>4, <2>6, <3>1, <3>2, <3>3
  <2> QED BY <2>2, <2>7, <2>8
<1> QED
  BY <1>7, <1>8, <1>9, <1>10, <1>14, <1>15, <1>16, <1>17, <1>18, <1>19, <1>20,
     <1>21, <1>22 DEF Record

\* A step that is not one of record ends or begins a command that holds no directory.
LEMMA OthersInOrder ==
  ASSUME IInv, RInv, NEW s \in Shells, Report(s) \/ RecordErt(s) \/ Begin(s) \/ Kill(s)
  PROVE  InOrder(s)' /\ ~Holds(s)'
<1>1. /\ TypeOK /\ sh[s] \in Shell /\ sh \in [Shells -> Shell] /\ Fits(sh[s])
      /\ (sh[s].pc # "rest" => sh[s].result = "none")
  BY DEF IInv, TypeOK, RInv, InOrder, Started
\* The process is at a step of another command, with no client run started.
<1>2. ASSUME sh'[s].pc \notin RecordPcs, sh'[s].pc # "rest" => sh'[s].result = "none",
             ~Done(s, "record")'
      PROVE  InOrder(s)' /\ ~Holds(s)'
  <2>1. ~Owns(s)' /\ ~Holds(s)'  BY <1>2 DEF Owns, OwnPcs, Holds
  <2> QED BY <1>2, <2>1 DEF InOrder, Held, Started, Unrecorded, Analysed, At, RecordPcs
<1>3. CASE Report(s)
  <2>1. GoesOn(s, ReportPcs) /\ sh[s].pc \in ReportPcs \cup {"args"}  BY <1>3, ReportFrame
  <2>2. sh[s].cmd.cmd = "report" /\ sh[s].result = "none"
    BY <1>1, <2>1 DEF Fits, ReportCommand, ReportPcs, PlotPcs, LinesPcs, DatPcs
  <2> QED BY <1>2, <2>1, <2>2
          DEF GoesOn, ReportPcs, PlotPcs, LinesPcs, DatPcs, RecordPcs, Done, Args
<1>4. CASE RecordErt(s)
  <2>1. GoesOn(s, ErtPcs) /\ sh[s].pc \in ErtPcs  BY <1>4, ErtFrame
  <2>2. sh[s].cmd.cmd = "record_ert" /\ sh[s].result = "none"
    BY <1>1, <2>1 DEF Fits, ErtCommand, ErtPcs
  <2> QED BY <1>2, <2>1, <2>2 DEF GoesOn, ErtPcs, RecordPcs, Done, Args
<1>5. CASE Begin(s)
  <2>1. PICK c \in Commands[s] :
          sh' = [sh EXCEPT ![s] = [AtRest EXCEPT !.pc = Entered(c), !.cmd = c,
                                                 !.count = sh[s].count + 1]]
    BY <1>5 DEF Begin
  <2>2. sh'[s].pc \in {"exists", "args", "template"} /\ sh'[s].result = "none" /\ sh'[s].runs = 0
    BY <1>1, <2>1 DEF AtRest, Entered
  <2>3. ~Owns(s)' /\ ~Holds(s)'  BY <2>2 DEF Owns, OwnPcs, RecordPcs, Holds, Done
  <2> QED BY <2>2, <2>3 DEF InOrder, Held, Started, Unrecorded, Analysed, At
<1>6. CASE Kill(s)  BY <1>1, <1>6, FailInOrder DEF Kill
<1> QED BY <1>3, <1>4, <1>5, <1>6

\* Every step keeps the recordings in order.
LEMMA RecordingsKept ==
  ASSUME IInv, RInv, [Next]_vars
  PROVE  RInv'
<1>1. CASE UNCHANGED vars
  <2>1. \A d \in Dirs : Fresh(d)'  BY <1>1 DEF vars, files, RInv, Fresh
  <2>2. ASSUME NEW r \in Shells PROVE InOrder(r)' /\ (Holds(r)' <=> Holds(r)) /\ OutDir(r)' = OutDir(r)
    <3>1. InOrder(r) /\ sh' = sh /\ dirs' = dirs  BY <1>1 DEF RInv, vars, files
    <3> QED BY <3>1 DEF InOrder, Held, Holds, Owns, Done, At, OutDir, Args, Id, OneRunOnly,
          Analysis, Started, Unrecorded, IsDocument, Analysed, Numbered, Phase, Complete
  <2>3. \A q, r \in Shells : SoleHolder(q, r)'  BY <2>2 DEF RInv, SoleHolder
  <2> QED BY <2>1, <2>2, <2>3 DEF RInv
<1>2. ASSUME NEW s \in Shells, Works(s) PROVE RInv'
  <2>1. Leaves(s)  BY <1>2, WorksLeaves
  <2>2. InOrder(s)' /\ (Holds(s)' => Record(s) /\ OutDir(s)' = OutDir(s)
                                     /\ (Holds(s) \/ ~dirs[OutDir(s)].exists))
    <3>1. CASE Record(s)  BY <3>1, RecordInOrder, RecordFrame
    <3>2. CASE ~Record(s)  BY <3>2, <1>2, OthersInOrder DEF Works, Step
    <3> QED BY <3>1, <3>2
  <2>3. ASSUME NEW d \in Dirs PROVE Fresh(d)'
    <3> SUFFICES ASSUME ~dirs'[d].exists
                 PROVE  dirs'[d].counts = NoFile /\ dirs'[d].times = NoFile /\ dirs'[d].saved = <<>>
      BY DEF Fresh
    <3>1. ~dirs[d].exists  BY <2>1 DEF Leaves, Grows
    <3>2. ~(Owns(s) /\ d = OutDir(s))  BY <3>1 DEF RInv, InOrder, Held, Holds
    <3> QED BY <2>1, <3>1, <3>2 DEF Leaves, Kept, RInv, Fresh
  <2>4. ASSUME NEW q \in Shells, NEW r \in Shells PROVE SoleHolder(q, r)'
    <3> SUFFICES ASSUME Holds(q)', Holds(r)', OutDir(q)' = OutDir(r)' PROVE q = r
      BY DEF SoleHolder
    <3>1. CASE q # s /\ r # s
      BY <2>1, <3>1, OthersKept DEF RInv, SoleHolder
    <3>2. ASSUME NEW u \in Shells, u # s, Holds(s)', Holds(u)', OutDir(u)' = OutDir(s)'
          PROVE  FALSE
      <4>1. Holds(u) /\ OutDir(u) = OutDir(s) /\ dirs[OutDir(s)].exists
        BY <2>1, <2>2, <3>2, OthersKept
      <4>2. Holds(s)  BY <2>2, <3>2, <4>1
      <4> QED BY <3>2, <4>1, <4>2 DEF RInv, SoleHolder
    <3> QED BY <3>1, <3>2
  <2>5. \A r \in Shells : InOrder(r)'  BY <2>1, <2>2, OthersKept
  <2> QED BY <2>3, <2>4, <2>5 DEF RInv
<1> QED BY <1>1, <1>2 DEF Next, Rest, Works

\* At first nobody records, and no directory has files without being there.
LEMMA RecordingsBegin ==
  ASSUME Init
  PROVE  RInv
<1>1. \A s \in Shells : sh[s] = AtRest  BY DEF Init
<1>2. ASSUME NEW s \in Shells PROVE ~Holds(s) /\ InOrder(s)
  <2>1. sh[s].pc = "rest" /\ sh[s].result = "none" /\ sh[s].runs = 0  BY <1>1 DEF AtRest
  <2>2. ~Owns(s) /\ ~Holds(s)  BY <2>1 DEF Owns, OwnPcs, RecordPcs, Holds, Done
  <2> QED BY <2>1, <2>2 DEF InOrder, Held, Started, Unrecorded, Analysed, At
<1>3. \A d \in Dirs : Fresh(d)
  BY RecordingsAssumption DEF Init, Fresh, NoDirectory
<1> QED BY <1>2, <1>3 DEF RInv, SoleHolder
-----------------------------------------------------------------------------
(***************************************************************************)
(* A time analysis that ends normally has kept a complete timing document  *)
(* of each of its n runs, each from a run of its own, whatever the client  *)
(* does and whoever else records under the same name of a directory.       *)
(***************************************************************************)
THEOREM TimesKept == Spec => []AnalysisKeepsTimes
<1>1. ASSUME IInv, RInv, NEW s \in Shells, Done(s, "record"), ~OneRunOnly(s), Analysis(s) > 1
      PROVE  LET saved == dirs[OutDir(s)].saved
             IN /\ Len(saved) = Analysis(s)
                /\ \A i, j \in DOMAIN saved :
                     saved[i].by = Id(s) /\ (saved[i].run = saved[j].run => i = j)
  <2> DEFINE saved == dirs[OutDir(s)].saved
  <2>1. At(s, "rest")  BY <1>1 DEF RInv, InOrder, Started, Done, At
  <2>2. Numbered(saved, Id(s)) /\ Phase(sh[s], dirs[OutDir(s)], Id(s))
    BY <1>1, <2>1 DEF RInv, InOrder, Analysed, Holds
  <2>3. Complete(saved, Analysis(s))  BY <2>1, <2>2 DEF Phase, At, Analysis, Args
  <2>4. saved \in Seq(Document \cup {Broken})
    <3>1. OutDir(s) \in Dirs  BY <1>1, <2>1, HeldNames DEF IInv, Holds
    <3> QED BY <1>1, <3>1 DEF IInv, TypeOK, Directory
  <2>5. \A i \in DOMAIN saved : saved[i].by = Id(s) /\ saved[i].run = i + 1 /\ i \in Nat
    BY <2>2, <2>3, <2>4 DEF Numbered, Complete
  <2>6. \A i, j \in DOMAIN saved : saved[i].run = saved[j].run => i = j
    BY <2>5
  <2> QED BY <2>3, <2>5, <2>6 DEF Complete
<1>2. IInv /\ RInv => AnalysisKeepsTimes  BY <1>1 DEF AnalysisKeepsTimes
<1> QED BY <1>2, Begins, Inductive, RecordingsBegin, RecordingsKept, PTL DEF Spec

(***************************************************************************)
(* A completed roofline.xml is never written again: the only step that     *)
(* could is a client run for the counters, and its recording has no        *)
(* counters yet and nobody else's directory.                               *)
(***************************************************************************)
LEMMA DocumentsStay ==
  ASSUME IInv, RInv, [Next]_vars, NEW d \in Dirs, IsDocument(dirs[d].counts)
  PROVE  dirs'[d].counts = dirs[d].counts
<1>1. CASE UNCHANGED vars  BY <1>1 DEF vars, files
<1>2. ASSUME NEW s \in Shells, Record(s) PROVE dirs'[d].counts = dirs[d].counts
  <2>1. /\ RecordLeaves(s) /\ TypeOK /\ OutDir(s) \in Dirs /\ sh[s].runs \in Nat /\ InOrder(s)
    BY <1>2, RecordFrame DEF IInv, TypeOK, Shell, RInv
  <2>2. ASSUME d = OutDir(s), ClientStarts(s) PROVE dirs'[d].counts = dirs[d].counts
    <3>1. Owns(s) /\ SetOutput(s, sh[s].runs + 1, Broken)
      BY <2>2 DEF ClientStarts, At, Owns, OwnPcs, RecordPcs
    <3>2. sh[s].runs # 0  BY <2>1, <2>2, <3>1 DEF InOrder, Unrecorded, IsDocument
    <3>3. ~Counting(s, sh[s].runs + 1)  BY <2>1, <3>2 DEF Counting
    <3> QED BY <2>1, <2>2, <3>1, <3>3, OutputSet
  <2>3. ASSUME d = OutDir(s), ClientEnds(s), ~UNCHANGED dirs PROVE dirs'[d].counts = dirs[d].counts
    <3>1. PICK f : At(s, "running") /\ SetOutput(s, sh[s].runs, f)  BY <2>3 DEF ClientEnds
    <3>2. sh[s].runs # 1  BY <2>1, <2>3, <3>1 DEF InOrder, Unrecorded
    <3>3. ~Counting(s, sh[s].runs)  BY <3>2 DEF Counting
    <3> QED BY <2>1, <2>3, <3>1, <3>3, OutputSet
  <2> QED BY <2>1, <2>2, <2>3 DEF RecordLeaves
<1>3. ASSUME NEW s \in Shells, Report(s) PROVE dirs'[d].counts = dirs[d].counts
  BY <1>3, ReportFrame DEF ReportLeaves, Kept
<1>4. ASSUME NEW s \in Shells, Begin(s) \/ RecordErt(s) \/ Kill(s) PROVE dirs'[d].counts = dirs[d].counts
  BY <1>4, OtherFrame
<1> QED BY <1>1, <1>2, <1>3, <1>4 DEF Next, Step, Rest

(***************************************************************************)
(* A recording that has its counters keeps them, for ever and for any      *)
(* commands of any users.                                                  *)
(***************************************************************************)
THEOREM CountersStay == Spec => CountersFinal
<1>1. IInv /\ RInv /\ [Next]_vars =>
        [\A d \in Dirs : IsDocument(dirs[d].counts) => dirs'[d].counts = dirs[d].counts]_vars
  BY DocumentsStay
<1> QED BY <1>1, Begins, Inductive, RecordingsBegin, RecordingsKept, PTL DEF Spec, CountersFinal
=============================================================================
