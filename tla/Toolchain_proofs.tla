---------------------------- MODULE Toolchain_proofs ----------------------------
(***************************************************************************)
(* Proofs about the commands, for any number of users and directories: a   *)
(* report never combines two recordings, a roofline has the precision that *)
(* its name tells, and every step finds what it uses.                      *)
(*                                                                         *)
(* Every directory that a recording has made is its own: Owner and         *)
(* SoleOwner.  A report that has read one document knows whose directory   *)
(* it reads: ReadFrom.                                                     *)
(***************************************************************************)
EXTENDS Toolchain, TLAPS

RecordPcs == {"exists", "makedirs", "meta", "client", "running", "ran", "statistics",
              "timing", "csv"}
OwnPcs == RecordPcs \ {"exists", "makedirs"}
LinesPcs == {"continue", "tail", "append"}
DatPcs == {"points", "open", "fill"}
PlotPcs == {"roofline", "counts", "times", "dat", "copy", "refs", "metainfo", "writemeta",
            "labels", "draw"} \cup LinesPcs \cup DatPcs
ReportPcs == {"makeout", "empty"} \cup PlotPcs
ErtPcs == {"template", "precision", "ert", "measuring", "database", "makedb", "hostname",
           "name", "move"}

\* A shell's command and variables are those that its next step needs.
Whole == {p \in Dot : p.counts = p.times}
Fits(x) ==
  /\ x.pc \in RecordPcs => x.cmd \in RecordCommand /\ x.k \in 1 .. Len(CsvFiles)
  /\ x.pc \in ReportPcs \cup {"args"} => x.cmd \in ReportCommand
  /\ x.pc \in ErtPcs => x.cmd \in ErtCommand
  /\ x.pc = "args" => x.k = 1
  /\ x.pc \in ReportPcs =>
       /\ x.cmd.input_dir # <<>> /\ x.cmd.line # <<>>
       /\ x.k \in 1 .. Len(x.cmd.input_dir)
       /\ x.cmd.output_dir = NoDir => Head(x.cmd.input_dir) \in Dirs
       /\ x.cmd.output_dir # NoDir => x.cmd.output_dir \in Dirs
  /\ x.pc \in LinesPcs => Len(x.cmd.line) > 1
  /\ x.pc \in DatPcs => x.title # <<>>
  /\ x.pc = "move" => x.name \in Rooflines
  /\ x.pc = "times" => x.read \in Document
  /\ x.current \in Seq(Whole) /\ x.point_list \in Seq(Whole)
HasPlot(s) == sh[s].pc \in PlotPcs => dirs[Output_(s)].gnu \in Gnuplot

\* Whose the documents in a directory are.
Docs(d) == {f \in {dirs[d].counts, dirs[d].times} : f \notin {NoFile, Broken}}
OneRecording(d) == \A f, g \in Docs(d) : dirs[d].exists /\ f.by = g.by
Owns(s) == sh[s].pc \in OwnPcs
Owner(s) == Owns(s) => dirs[OutDir(s)].exists /\ \A f \in Docs(OutDir(s)) : f.by = Id(s)
SoleOwner(s, r) == Owns(s) /\ Owns(r) /\ OutDir(s) = OutDir(r) => s = r
ReadFrom(s) ==
  At(s, "times") =>
    /\ dirs[Input(s)].exists /\ \A f \in Docs(Input(s)) : f.by = sh[s].read.by
    /\ \A r \in Shells : Owns(r) /\ OutDir(r) = Input(s) => sh[s].read.by = Id(r)
Owned ==
  /\ \A d \in Dirs : OneRecording(d)
  /\ \A s \in Shells : Owner(s) /\ ReadFrom(s)
  /\ \A s, r \in Shells : SoleOwner(s, r)

IInv == TypeOK /\ (\A s \in Shells : Fits(sh[s]) /\ HasPlot(s)) /\ Owned
-----------------------------------------------------------------------------
(***************************************************************************)
(* What a step of the command in s has to keep.                            *)
(***************************************************************************)
FilesTyped ==
  /\ dirs' \in [Dirs -> Directory]
  /\ rooflines' \in [Rooflines -> Entry \cup {NoFile}]
  /\ ert' \in ErtFiles
PlotsKept == \A d \in Dirs : dirs[d].gnu \in Gnuplot => dirs'[d].gnu \in Gnuplot
\* Documents disappear, or are written by the owner of their directory.
DocsKept(s) ==
  \A d \in Dirs :
    /\ dirs[d].exists => dirs'[d].exists
    /\ \/ Docs(d)' \subseteq Docs(d)
       \/ Owns(s) /\ d = OutDir(s) /\ \A f \in Docs(d)' : f.by = Id(s)
ShellStep(s) == sh' \in [Shells -> Shell] /\ \A r \in Shells : r # s => sh'[r] = sh[r]
\* An owner has been one before, or has made its directory.
OwnerStep(s) ==
  Owns(s)' => \/ Owns(s) /\ sh'[s].cmd = sh[s].cmd /\ sh'[s].count = sh[s].count
              \/ ~dirs[OutDir(s)'].exists /\ dirs'[OutDir(s)'].exists
Keeps(s) ==
  /\ FilesTyped /\ PlotsKept /\ DocsKept(s)
  /\ ShellStep(s) /\ OwnerStep(s) /\ Fits(sh'[s]) /\ HasPlot(s)' /\ ReadFrom(s)'

\* Sequences and their elements.
LEMMA FunctionSequence ==
  ASSUME NEW S, NEW n \in Nat, NEW q \in [1 .. n -> S]
  PROVE  q \in Seq(S)
  OBVIOUS

\* The elements of a sequence over S are in S.
LEMMA RangeOfSequence ==
  ASSUME NEW S, NEW q \in Seq(S)
  PROVE  Range(q) \subseteq S
<1>1. \A n \in DOMAIN q : q[n] \in S  OBVIOUS
<1> QED BY <1>1 DEF Range

\* The directories that a command's variables name.
LEMMA Names ==
  ASSUME TypeOK, NEW s \in Shells, Fits(sh[s])
  PROVE  /\ Owns(s) => OutDir(s) \in Dirs
         /\ sh[s].pc \in ReportPcs => Input(s) \in Dirs /\ Output_(s) \in Dirs
<1>1. ASSUME Owns(s) PROVE OutDir(s) \in Dirs
  BY <1>1 DEF Owns, OwnPcs, Fits, OutDir, Args, RecordCommand
<1>2. ASSUME sh[s].pc \in ReportPcs PROVE Input(s) \in Dirs /\ Output_(s) \in Dirs
  <2>1. sh[s].cmd.input_dir \in Seq(Dirs) /\ sh[s].k \in 1 .. Len(sh[s].cmd.input_dir)
    BY <1>2 DEF Fits, ReportCommand
  <2>2. Input(s) \in Dirs  BY <2>1 DEF Input, Inputs, Args
  <2>3. Output_(s) \in Dirs  BY <1>2 DEF Fits, Output_, Inputs, Args
  <2> QED BY <2>2, <2>3
<1> QED BY <1>1, <1>2

\* Ownership is kept.
LEMMA OwnedKept ==
  ASSUME IInv, NEW s \in Shells, Keeps(s)
  PROVE  Owned'
<1>1. \A r \in Shells : r # s => sh'[r] = sh[r]  BY DEF Keeps, ShellStep
<1>2. \A r \in Shells : Owns(r) => OutDir(r) \in Dirs
  BY Names DEF IInv
<1>3. ASSUME NEW r \in Shells, Owns(r)', r # s, NEW d \in Dirs, OutDir(r)' = d
      PROVE  /\ Owns(r) /\ OutDir(r) = d /\ Id(r)' = Id(r)
             /\ dirs[d].exists /\ dirs'[d].exists /\ \A f \in Docs(d)' : f.by = Id(r)
  <2>1. Owns(r) /\ OutDir(r) = d /\ Id(r)' = Id(r)
    BY <1>1, <1>3 DEF Owns, OutDir, Id, Args
  <2>3. dirs[d].exists /\ \A f \in Docs(d) : f.by = Id(r)
    BY <2>1 DEF IInv, Owned, Owner
  <2>4. ~(Owns(s) /\ d = OutDir(s))  BY <1>3, <2>1 DEF IInv, Owned, SoleOwner
  <2> QED BY <2>1, <2>3, <2>4 DEF Keeps, DocsKept
<1>4. ASSUME NEW r \in Shells, Owns(r)' PROVE OutDir(r)' \in Dirs
  <2>1. CASE r # s
    <3>1. Owns(r) /\ OutDir(r)' = OutDir(r)  BY <1>1, <1>4, <2>1 DEF Owns, OutDir, Args
    <3> QED BY <3>1, <1>2
  <2>2. CASE r = s
    <3>1. sh'[s].cmd \in RecordCommand  BY <1>4, <2>2 DEF Keeps, Fits, Owns, OwnPcs
    <3> QED BY <3>1, <2>2 DEF OutDir, Args, RecordCommand
  <2> QED BY <2>1, <2>2
<1>5. ASSUME Owns(s)', NEW d \in Dirs, OutDir(s)' = d
      PROVE  /\ dirs'[d].exists /\ \A f \in Docs(d)' : f.by = Id(s)'
             /\ \A r \in Shells : r # s /\ Owns(r)' => OutDir(r)' # d
  <2>1. CASE Owns(s) /\ sh'[s].cmd = sh[s].cmd /\ sh'[s].count = sh[s].count
    <3>1. OutDir(s) = d /\ Id(s)' = Id(s)  BY <2>1, <1>5 DEF OutDir, Id, Args
    <3>2. dirs[d].exists /\ \A f \in Docs(d) : f.by = Id(s)
      BY <2>1, <3>1 DEF IInv, Owned, Owner
    <3>3. dirs'[d].exists /\ \A f \in Docs(d)' : f.by = Id(s)
      BY <3>2 DEF Keeps, DocsKept
    <3>4. \A r \in Shells : r # s /\ Owns(r)' => OutDir(r)' # d
      BY <3>1, <2>1, <1>3 DEF IInv, Owned, SoleOwner
    <3> QED BY <3>1, <3>3, <3>4
  <2>2. CASE ~dirs[d].exists /\ dirs'[d].exists
    <3>1. Docs(d) = {}  BY <2>2 DEF IInv, Owned, OneRecording
    <3>2. ~(Owns(s) /\ d = OutDir(s))  BY <2>2 DEF IInv, Owned, Owner
    <3>3. Docs(d)' = {}  BY <3>1, <3>2 DEF Keeps, DocsKept
    <3>4. \A r \in Shells : r # s /\ Owns(r)' => OutDir(r)' # d
      BY <2>2, <1>3
    <3> QED BY <2>2, <3>3, <3>4
  <2> QED BY <2>1, <2>2, <1>5 DEF Keeps, OwnerStep
<1>6. ASSUME NEW d \in Dirs PROVE OneRecording(d)'
  <2>1. /\ dirs[d].exists => dirs'[d].exists
        /\ \/ Docs(d)' \subseteq Docs(d)
           \/ Owns(s) /\ d = OutDir(s) /\ \A f \in Docs(d)' : f.by = Id(s)
    BY DEF Keeps, DocsKept
  <2>2. OneRecording(d) /\ Owner(s)  BY DEF IInv, Owned
  <2> QED BY <2>1, <2>2 DEF OneRecording, Owner
<1>7. ASSUME NEW r \in Shells PROVE Owner(r)'
  <2> SUFFICES ASSUME Owns(r)', NEW d \in Dirs, OutDir(r)' = d
               PROVE  dirs'[d].exists /\ \A f \in Docs(d)' : f.by = Id(r)'
    BY <1>4 DEF Owner, Docs
  <2>1. CASE r = s  BY <2>1, <1>5
  <2>2. CASE r # s  BY <2>2, <1>3
  <2> QED BY <2>1, <2>2
<1>8. ASSUME NEW q \in Shells, NEW r \in Shells PROVE SoleOwner(q, r)'
  <2> SUFFICES ASSUME Owns(q)', Owns(r)', NEW d \in Dirs, OutDir(q)' = d, OutDir(r)' = d
               PROVE  q = r
    BY <1>4 DEF SoleOwner
  <2>1. CASE q = s  BY <2>1, <1>5
  <2>2. CASE r = s  BY <2>2, <1>5
  <2>3. CASE q # s /\ r # s
    BY <2>3, <1>3 DEF SoleOwner, IInv, Owned
  <2> QED BY <2>1, <2>2, <2>3
<1>9. ASSUME NEW u \in Shells PROVE ReadFrom(u)'
  <2>1. CASE u = s  BY <2>1 DEF Keeps
  <2>2. CASE u # s
    <3> SUFFICES ASSUME At(u, "times")' PROVE ReadFrom(u)'
      BY DEF ReadFrom
    <3>0. sh'[u] = sh[u] /\ At(u, "times")  BY <2>2, <1>1 DEF At
    <3>1. PICK d \in Dirs : Input(u) = d
      BY <3>0, Names DEF IInv, At, ReportPcs, PlotPcs, LinesPcs, DatPcs
    <3>2. /\ dirs[d].exists /\ \A f \in Docs(d) : f.by = sh[u].read.by
          /\ \A r \in Shells : Owns(r) /\ OutDir(r) = d => sh[u].read.by = Id(r)
      BY <3>0, <3>1 DEF IInv, Owned, ReadFrom
    <3>3. dirs'[d].exists /\ \A f \in Docs(d)' : f.by = sh[u].read.by
      BY <3>2 DEF Keeps, DocsKept
    <3>4. ASSUME NEW r \in Shells, Owns(r)', OutDir(r)' = d
          PROVE  sh[u].read.by = Id(r)'
      <4>1. CASE r # s  BY <4>1, <3>2, <3>4, <1>3
      <4>2. CASE r = s
        <5>1. Owns(s) /\ sh'[s].cmd = sh[s].cmd /\ sh'[s].count = sh[s].count
          BY <4>2, <3>2, <3>4 DEF Keeps, OwnerStep
        <5>2. OutDir(s)' = OutDir(s) /\ Id(s)' = Id(s)  BY <5>1 DEF OutDir, Id, Args
        <5> QED BY <5>1, <5>2, <4>2, <3>2, <3>4
      <4> QED BY <4>1, <4>2
    <3>5. Input(u)' = d  BY <3>0, <3>1 DEF Input, Inputs, Args
    <3> QED BY <3>0, <3>3, <3>4, <3>5 DEF ReadFrom, Docs
  <2> QED BY <2>1, <2>2
<1> QED BY <1>6, <1>7, <1>8, <1>9 DEF Owned

\* What Keeps asks of a step is enough for the invariant.
LEMMA KeepsIInv ==
  ASSUME IInv, NEW s \in Shells, Keeps(s)
  PROVE  IInv'
<1>1. TypeOK'  BY DEF Keeps, FilesTyped, ShellStep, TypeOK
<1>2. ASSUME NEW r \in Shells PROVE (Fits(sh[r]) /\ HasPlot(r))'
  <2>1. CASE r = s  BY <2>1 DEF Keeps
  <2>2. CASE r # s
    <3>1. sh'[r] = sh[r] /\ Fits(sh[r]) /\ HasPlot(r) /\ TypeOK
      BY <2>2 DEF Keeps, ShellStep, IInv
    <3>2. Fits(sh[r])'  BY <3>1 DEF Fits
    <3>3. HasPlot(r)'
      <4>1. Output_(r)' = Output_(r)  BY <3>1 DEF Output_, Inputs, Args
      <4>2. sh[r].pc \in PlotPcs => Output_(r) \in Dirs  BY <3>1, Names DEF ReportPcs
      <4> QED BY <3>1, <4>1, <4>2 DEF HasPlot, Keeps, PlotsKept
    <3> QED BY <3>2, <3>3
  <2> QED BY <2>1, <2>2
<1> QED BY <1>1, <1>2, OwnedKept DEF IInv
-----------------------------------------------------------------------------
(***************************************************************************)
(* The ways in which steps change shells and files.                        *)
(***************************************************************************)
\* Files that a step leaves alone.
LEMMA FilesLeft ==
  ASSUME TypeOK, UNCHANGED dirs, NEW s \in Shells
  PROVE  dirs' \in [Dirs -> Directory] /\ PlotsKept /\ DocsKept(s)
  BY DEF TypeOK, PlotsKept, DocsKept, Docs

\* A directory gets new contents, but no new documents.
LEMMA DirChanged ==
  ASSUME TypeOK, NEW s \in Shells, NEW d \in Dirs, NEW y \in Directory,
         dirs' = [dirs EXCEPT ![d] = y],
         dirs[d].exists => y.exists, dirs[d].gnu \in Gnuplot => y.gnu \in Gnuplot,
         y.counts = dirs[d].counts, y.times \in {dirs[d].times, NoFile}
  PROVE  dirs' \in [Dirs -> Directory] /\ PlotsKept /\ DocsKept(s)
<1>1. dirs \in [Dirs -> Directory]  BY DEF TypeOK
<1>2. dirs' \in [Dirs -> Directory] /\ dirs'[d] = y /\ \A e \in Dirs : e # d => dirs'[e] = dirs[e]
  BY <1>1
<1>3. PlotsKept  BY <1>2 DEF PlotsKept
<1>4. DocsKept(s)  BY <1>2 DEF DocsKept, Docs
<1> QED BY <1>2, <1>3, <1>4

\* The owner of a directory writes one of its documents.
LEMMA DocWritten ==
  ASSUME IInv, NEW s \in Shells, Owns(s), NEW y \in Directory,
         dirs' = [dirs EXCEPT ![OutDir(s)] = y],
         y.exists = dirs[OutDir(s)].exists, y.gnu = dirs[OutDir(s)].gnu,
         \A f \in {y.counts, y.times} :
           f \in {dirs[OutDir(s)].counts, dirs[OutDir(s)].times, NoFile, Broken} \/ f.by = Id(s)
  PROVE  dirs' \in [Dirs -> Directory] /\ PlotsKept /\ DocsKept(s)
<1> DEFINE d == OutDir(s)
<1>0. TypeOK /\ d \in Dirs  BY Names DEF IInv
<1>1. dirs \in [Dirs -> Directory]  BY <1>0 DEF TypeOK
<1>2. dirs' \in [Dirs -> Directory] /\ dirs'[d] = y /\ \A e \in Dirs : e # d => dirs'[e] = dirs[e]
  BY <1>0, <1>1
<1>3. PlotsKept  BY <1>2 DEF PlotsKept
<1>4. \A f \in Docs(d) : f.by = Id(s)  BY DEF IInv, Owned, Owner
<1>5. \A f \in {y.counts, y.times} : f \notin {NoFile, Broken} => f.by = Id(s)
  BY <1>4 DEF Docs
<1>6. ASSUME NEW e \in Dirs
      PROVE  /\ dirs[e].exists => dirs'[e].exists
             /\ \/ Docs(e)' \subseteq Docs(e)
                \/ Owns(s) /\ e = OutDir(s) /\ \A f \in Docs(e)' : f.by = Id(s)
  <2>1. CASE e = d  BY <2>1, <1>2, <1>5 DEF Docs
  <2>2. CASE e # d  BY <2>2, <1>2 DEF Docs
  <2> QED BY <2>1, <2>2
<1> QED BY <1>2, <1>3, <1>6 DEF DocsKept

\* A shell's process goes to another of its steps, or ends.
LEMMA ShellChanged ==
  ASSUME TypeOK, NEW s \in Shells, NEW x \in Shell, sh' = [sh EXCEPT ![s] = x]
  PROVE  ShellStep(s) /\ sh'[s] = x
  BY DEF TypeOK, ShellStep

\* A process that goes to another step keeps its variables.
LEMMA Goes ==
  ASSUME TypeOK, NEW s \in Shells, NEW c \in Control, Goto(s, c)
  PROVE  ShellStep(s) /\ sh'[s] = [sh[s] EXCEPT !.pc = c]
<1>1. sh[s] \in Shell  BY DEF TypeOK
<1>2. [sh[s] EXCEPT !.pc = c] \in Shell  BY <1>1 DEF Shell
<1> QED BY <1>2, ShellChanged DEF Goto

\* A process that ends owns nothing.
LEMMA Ends ==
  ASSUME IInv, NEW s \in Shells, Fail(s) \/ Return(s)
  PROVE  ShellStep(s) /\ Fits(sh'[s]) /\ HasPlot(s)' /\ OwnerStep(s) /\ ReadFrom(s)'
<1>1. TypeOK /\ sh[s] \in Shell /\ Fits(sh[s])  BY DEF IInv, TypeOK
<1>2. PICK r \in {"done", "failed"} :
        sh' = [sh EXCEPT ![s] = [sh[s] EXCEPT !.pc = "rest", !.result = r]]
  BY DEF Fail, Return
<1> DEFINE x == [sh[s] EXCEPT !.pc = "rest", !.result = r]
<1>3. x \in Shell  BY <1>1 DEF Shell, Control
<1>4. ShellStep(s) /\ sh'[s] = x  BY <1>1, <1>2, <1>3, ShellChanged
<1>5. x.pc = "rest" /\ x.current = sh[s].current /\ x.point_list = sh[s].point_list
  BY <1>1 DEF Shell
<1>6. sh'[s].pc = "rest" /\ Fits(sh'[s])
  BY <1>1, <1>4, <1>5 DEF Fits, RecordPcs, ReportPcs, PlotPcs, LinesPcs, DatPcs, ErtPcs
<1> QED BY <1>4, <1>6
    DEF HasPlot, PlotPcs, LinesPcs, DatPcs, OwnerStep, Owns, OwnPcs, RecordPcs, ReadFrom, At
-----------------------------------------------------------------------------
(***************************************************************************)
(* The steps of record.                                                    *)
(***************************************************************************)
LEMMA RecordGoesOn ==
  ASSUME IInv, NEW s \in Shells, NEW x \in Shell, sh' = [sh EXCEPT ![s] = x],
         x.pc \in RecordPcs, sh[s].pc \in RecordPcs, x.pc \in OwnPcs => Owns(s),
         x.cmd = sh[s].cmd, x.count = sh[s].count, x.k \in 1 .. Len(CsvFiles),
         x.current = sh[s].current, x.point_list = sh[s].point_list
  PROVE  ShellStep(s) /\ Fits(sh'[s]) /\ HasPlot(s)' /\ OwnerStep(s) /\ ReadFrom(s)'
<1>1. TypeOK /\ Fits(sh[s])  BY DEF IInv
<1>2. ShellStep(s) /\ sh'[s] = x  BY <1>1, ShellChanged
<1>3. x.pc \notin PlotPcs \cup ReportPcs \cup ErtPcs \cup {"times", "args"}
  BY DEF RecordPcs, ReportPcs, PlotPcs, LinesPcs, DatPcs, ErtPcs
<1>4. x.pc \notin LinesPcs \cup DatPcs \cup {"move"}
  BY DEF RecordPcs, LinesPcs, DatPcs
<1>5. Fits(x)  BY <1>1, <1>3, <1>4 DEF Fits
<1> QED BY <1>2, <1>3, <1>5 DEF HasPlot, OwnerStep, Owns, ReadFrom, At

\* A recording goes to another of its steps, and may count a client run.
LEMMA RecordMoves ==
  ASSUME IInv, NEW s \in Shells, NEW c \in RecordPcs, sh[s].pc \in RecordPcs,
         c \in OwnPcs => Owns(s),
         NEW n \in Nat,
         sh' \in {[sh EXCEPT ![s].pc = c], [sh EXCEPT ![s].pc = c, ![s].runs = n]}
  PROVE  ShellStep(s) /\ Fits(sh'[s]) /\ HasPlot(s)' /\ OwnerStep(s) /\ ReadFrom(s)'
<1>1. sh[s] \in Shell /\ Fits(sh[s])  BY DEF IInv, TypeOK
<1>2. PICK m \in Nat : sh' = [sh EXCEPT ![s] = [sh[s] EXCEPT !.pc = c, !.runs = m]]
  <2>1. /\ sh[s].runs \in Nat
        /\ [sh[s] EXCEPT !.pc = c] = [sh[s] EXCEPT !.pc = c, !.runs = sh[s].runs]
    BY <1>1 DEF Shell
  <2>2. CASE sh' = [sh EXCEPT ![s] = [sh[s] EXCEPT !.pc = c]]  BY <2>1, <2>2
  <2>3. CASE sh' = [sh EXCEPT ![s] = [sh[s] EXCEPT !.pc = c, !.runs = n]]  BY <2>3
  <2> QED BY <2>2, <2>3
<1> DEFINE x == [sh[s] EXCEPT !.pc = c, !.runs = m]
<1>3. x \in Shell  BY <1>1 DEF Shell, Control, RecordPcs
<1>4. /\ x.pc = c /\ x.cmd = sh[s].cmd /\ x.count = sh[s].count /\ x.k = sh[s].k
      /\ x.current = sh[s].current /\ x.point_list = sh[s].point_list
  BY <1>1 DEF Shell
<1>5. x.k \in 1 .. Len(CsvFiles)  BY <1>1, <1>4 DEF Fits
<1> QED BY <1>2, <1>3, <1>4, <1>5, RecordGoesOn

\* Every step of record.
LEMMA RecordKeeps ==
  ASSUME IInv, NEW s \in Shells, Record(s)
  PROVE  Keeps(s)
<1> DEFINE d == OutDir(s)
<1>1. TypeOK /\ sh[s] \in Shell /\ dirs \in [Dirs -> Directory] /\ Fits(sh[s])
  BY DEF IInv, TypeOK
<1>2. rooflines' = rooflines /\ ert' = ert
  BY DEF Record, CheckOutput, MakeDirs, SaveMeta, ClientStarts, ClientDoesNotStart,
         ClientEnds, NextRun, MoveTimes, ParseTimes, TimeApplication, EndAnalysis,
         SaveStatistics, Recorded, files
<1>3. rooflines' \in [Rooflines -> Entry \cup {NoFile}] /\ ert' \in ErtFiles
  BY <1>1, <1>2 DEF TypeOK
<1>4. SUFFICES ASSUME sh[s].pc \in RecordPcs, sh[s].cmd \in RecordCommand, d \in Dirs,
                      dirs[d] \in Directory, sh[s].runs \in Nat
               PROVE  Keeps(s)
  <2>1. sh[s].pc \in RecordPcs
    BY DEF Record, CheckOutput, MakeDirs, SaveMeta, ClientStarts, ClientDoesNotStart,
           ClientEnds, NextRun, MoveTimes, ParseTimes, TimeApplication, EndAnalysis,
         SaveStatistics, Recorded, At, RecordPcs
  <2>2. sh[s].cmd \in RecordCommand  BY <2>1, <1>1 DEF Fits
  <2>3. d \in Dirs  BY <2>2 DEF OutDir, Args, RecordCommand
  <2>4. sh[s].runs \in Nat  BY <1>1 DEF Shell
  <2> QED BY <2>1, <2>2, <2>3, <2>4, <1>1
<1>5. /\ dirs[d].exists \in BOOLEAN /\ sh[s].runs + 1 \in Nat
      /\ sh[s].cmd.app \in Apps /\ sh[s].cmd.run_time_analysis \in Nat /\ Id(s) \in Ids
  <2>1. dirs[d].exists \in BOOLEAN  BY <1>4 DEF Directory
  <2>2. sh[s].runs + 1 \in Nat  BY <1>4
  <2>3. sh[s].cmd.app \in Apps /\ sh[s].cmd.run_time_analysis \in Nat
    BY <1>4 DEF RecordCommand
  <2>4. sh[s].count \in Nat  BY <1>1 DEF Shell
  <2> QED BY <2>1, <2>2, <2>3, <2>4 DEF Id, Ids
<1>6. SUFFICES /\ dirs' \in [Dirs -> Directory] /\ PlotsKept /\ DocsKept(s)
               /\ ShellStep(s) /\ Fits(sh'[s]) /\ HasPlot(s)' /\ OwnerStep(s) /\ ReadFrom(s)'
  BY <1>3 DEF Keeps, FilesTyped
<1>7. CASE CheckOutput(s)
  <2>1. dirs' = dirs  BY <1>7 DEF CheckOutput, files
  <2>2. CASE dirs[d].exists  BY <2>1, <2>2, <1>1, <1>7, FilesLeft, Ends DEF CheckOutput
  <2>3. CASE ~dirs[d].exists
    <3>1. sh' = [sh EXCEPT ![s].pc = "makedirs"]  BY <2>3, <1>7 DEF CheckOutput, Goto
    <3> QED BY <3>1, <2>1, <1>1, <1>4, FilesLeft, RecordMoves DEF RecordPcs, OwnPcs
  <2> QED BY <2>2, <2>3
<1>8. CASE MakeDirs(s)
  <2>1. CASE dirs[d].exists  BY <2>1, <1>1, <1>8, FilesLeft, Ends DEF MakeDirs
  <2>2. CASE ~dirs[d].exists
    <3> DEFINE y == [dirs[d] EXCEPT !.exists = TRUE]
               x == [sh[s] EXCEPT !.pc = "meta"]
    <3>1. dirs' = [dirs EXCEPT ![d] = y] /\ sh' = [sh EXCEPT ![s] = x]
      BY <2>2, <1>8 DEF MakeDirs, Goto
    <3>2. y \in Directory /\ y.exists /\ y.counts = dirs[d].counts /\ y.times = dirs[d].times
          /\ y.gnu = dirs[d].gnu
      BY <1>4 DEF Directory
    <3>3. dirs' \in [Dirs -> Directory] /\ PlotsKept /\ DocsKept(s)
      BY <3>1, <3>2, <1>1, <1>4, DirChanged
    <3>4. x \in Shell  BY <1>1 DEF Shell, Control
    <3>5. ShellStep(s) /\ sh'[s] = x  BY <3>1, <3>4, <1>1, ShellChanged
    <3>6. /\ x.pc = "meta" /\ x.cmd = sh[s].cmd
          /\ x.current = sh[s].current /\ x.point_list = sh[s].point_list
      BY <1>1 DEF Shell
    <3>7. Fits(x)
      BY <1>1, <1>4, <3>6 DEF Fits, RecordPcs, ReportPcs, PlotPcs, LinesPcs, DatPcs, ErtPcs
    <3>8. OutDir(s)' = d  BY <3>5, <3>6 DEF OutDir, Args
    <3>9. dirs'[d] = y  BY <3>1, <1>1, <1>4
    <3>10. OwnerStep(s)  BY <3>2, <3>8, <3>9, <2>2 DEF OwnerStep
    <3> QED BY <3>3, <3>5, <3>6, <3>7, <3>10 DEF HasPlot, PlotPcs, LinesPcs, DatPcs, ReadFrom, At
  <2> QED BY <2>1, <2>2
<1>9. CASE SaveMeta(s)
  <2> DEFINE y == [dirs[d] EXCEPT !.meta = <<sh[s].cmd.app>>]
  <2>1. dirs' = [dirs EXCEPT ![d] = y] /\ sh' = [sh EXCEPT ![s].pc = "client"]
    BY <1>9 DEF SaveMeta, Goto, Args
  <2>2. <<sh[s].cmd.app>> \in Seq(Apps)  BY <1>5
  <2>3. y \in Directory /\ y.exists = dirs[d].exists /\ y.counts = dirs[d].counts
        /\ y.times = dirs[d].times /\ y.gnu = dirs[d].gnu
    BY <1>4, <2>2 DEF Directory
  <2>4. dirs' \in [Dirs -> Directory] /\ PlotsKept /\ DocsKept(s)
    BY <2>1, <2>3, <1>1, <1>4, DirChanged
  <2>5. Owns(s)  BY <1>9 DEF SaveMeta, At, Owns, OwnPcs, RecordPcs
  <2> QED BY <2>1, <2>4, <2>5, <1>4, RecordMoves DEF RecordPcs
<1>10. ASSUME NEW n \in Nat, NEW f \in Document \cup {NoFile, Broken}, SetOutput(s, n, f), Owns(s),
              f \in {NoFile, Broken} \/ f.by = Id(s)
       PROVE  dirs' \in [Dirs -> Directory] /\ PlotsKept /\ DocsKept(s)
  <2>1. CASE Counting(s, n)
    <3> DEFINE y == [dirs[d] EXCEPT !.counts = f]
    <3>1. dirs' = [dirs EXCEPT ![d] = y]  BY <2>1, <1>10 DEF SetOutput
    <3>2. y \in Directory /\ y.exists = dirs[d].exists /\ y.counts = f
          /\ y.times = dirs[d].times /\ y.gnu = dirs[d].gnu
      BY <1>4, <1>10 DEF Directory
    <3> QED BY <3>1, <3>2, <1>10, DocWritten
  <2>2. CASE ~Counting(s, n)
    <3> DEFINE y == [dirs[d] EXCEPT !.times = f]
    <3>1. dirs' = [dirs EXCEPT ![d] = y]  BY <2>2, <1>10 DEF SetOutput
    <3>2. y \in Directory /\ y.exists = dirs[d].exists /\ y.counts = dirs[d].counts
          /\ y.times = f /\ y.gnu = dirs[d].gnu
      BY <1>4, <1>10 DEF Directory
    <3> QED BY <3>1, <3>2, <1>10, DocWritten
  <2> QED BY <2>1, <2>2
<1>11. CASE ClientStarts(s)
  <2>1. SetOutput(s, sh[s].runs + 1, Broken) /\ Owns(s)
    BY <1>11 DEF ClientStarts, At, Owns, OwnPcs, RecordPcs
  <2>2. sh' = [sh EXCEPT ![s].pc = "running", ![s].runs = sh[s].runs + 1]
    BY <1>11 DEF ClientStarts
  <2>3. dirs' \in [Dirs -> Directory] /\ PlotsKept /\ DocsKept(s)  BY <2>1, <1>5, <1>10
  <2> QED BY <2>1, <2>2, <2>3, <1>4, <1>5, RecordMoves DEF RecordPcs
<1>12. CASE ClientDoesNotStart(s)
  <2>1. dirs' = dirs /\ Owns(s)
    BY <1>12 DEF ClientDoesNotStart, At, Owns, OwnPcs, RecordPcs, files
  <2>2. sh' = [sh EXCEPT ![s].pc = "ran", ![s].runs = sh[s].runs + 1]
    BY <1>12 DEF ClientDoesNotStart
  <2>3. dirs' \in [Dirs -> Directory] /\ PlotsKept /\ DocsKept(s)  BY <2>1, <1>1, FilesLeft
  <2> QED BY <2>1, <2>2, <2>3, <1>4, <1>5, RecordMoves DEF RecordPcs
<1>13. CASE ClientEnds(s)
  <2>1. Owns(s) /\ sh' = [sh EXCEPT ![s].pc = "ran"]
    BY <1>13 DEF ClientEnds, At, Owns, OwnPcs, RecordPcs, Goto
  <2>2. dirs' \in [Dirs -> Directory] /\ PlotsKept /\ DocsKept(s)
    <3>1. CASE UNCHANGED dirs  BY <3>1, <1>1, FilesLeft
    <3>2. ASSUME NEW o \in Outcomes,
                 SetOutput(s, sh[s].runs,
                   [by |-> Id(s), run |-> sh[s].runs, app |-> Args(s).app,
                    labels |-> o.labels, zero |-> o.zero])
          PROVE  dirs' \in [Dirs -> Directory] /\ PlotsKept /\ DocsKept(s)
      <4> DEFINE f == [by |-> Id(s), run |-> sh[s].runs, app |-> Args(s).app,
                       labels |-> o.labels, zero |-> o.zero]
      <4>1. o.labels \in Seq(Labels) /\ o.zero \in SUBSET Labels
        BY WorldAssumption DEF Outcome
      <4>2. f \in Document /\ f.by = Id(s)
        BY <4>1, <1>4, <1>5 DEF Document, Args
      <4> QED BY <4>2, <3>2, <2>1, <1>4, <1>10
    <3> QED BY <3>1, <3>2, <1>13 DEF ClientEnds
  <2> QED BY <2>1, <2>2, <1>4, RecordMoves DEF RecordPcs
<1>14. CASE NextRun(s)
  <2>1. dirs' = dirs /\ Owns(s) /\ sh' = [sh EXCEPT ![s].pc = "client"]
    BY <1>14 DEF NextRun, At, Owns, OwnPcs, RecordPcs, Goto, files
  <2>2. dirs' \in [Dirs -> Directory] /\ PlotsKept /\ DocsKept(s)  BY <2>1, <1>1, FilesLeft
  <2> QED BY <2>1, <2>2, <1>4, RecordMoves DEF RecordPcs
<1>15. CASE MoveTimes(s)
  <2>1. Owns(s)  BY <1>15 DEF MoveTimes, At, Owns, OwnPcs, RecordPcs
  <2>2. CASE dirs[d].times = NoFile  BY <2>2, <1>1, <1>15, FilesLeft, Ends DEF MoveTimes
  <2>3. CASE dirs[d].times # NoFile
    <3> DEFINE y == [dirs[d] EXCEPT !.saved = Append(@, dirs[d].times), !.times = NoFile]
    <3>1. dirs' = [dirs EXCEPT ![d] = y]  BY <2>3, <1>15 DEF MoveTimes
    <3>2. dirs[d].saved \in Seq(Document \cup {Broken}) /\ dirs[d].times \in Document \cup {Broken}
      BY <2>3, <1>4 DEF Directory
    <3>3. Append(dirs[d].saved, dirs[d].times) \in Seq(Document \cup {Broken})  BY <3>2
    <3>4. y \in Directory /\ y.exists = dirs[d].exists /\ y.counts = dirs[d].counts
          /\ y.times = NoFile /\ y.gnu = dirs[d].gnu
      BY <1>4, <3>3 DEF Directory
    <3>5. dirs' \in [Dirs -> Directory] /\ PlotsKept /\ DocsKept(s)
      BY <3>1, <3>4, <1>1, <1>4, DirChanged
    <3>6. PICK c \in {"statistics", "client"} : sh' = [sh EXCEPT ![s].pc = c]
      BY <2>3, <1>15 DEF MoveTimes, Goto
    <3> QED BY <2>1, <3>5, <3>6, <1>4, RecordMoves DEF RecordPcs
  <2> QED BY <2>2, <2>3
<1>16. CASE ParseTimes(s)
  <2>1. dirs' = dirs /\ Owns(s)
    BY <1>16 DEF ParseTimes, At, Owns, OwnPcs, RecordPcs, files
  <2>2. dirs' \in [Dirs -> Directory] /\ PlotsKept /\ DocsKept(s)  BY <2>1, <1>1, FilesLeft
  <2>3. CASE Fail(s)  BY <2>2, <2>3, Ends
  <2>4. CASE Goto(s, "timing")
    BY <2>1, <2>2, <2>4, <1>4, RecordMoves DEF RecordPcs, Goto
  <2> QED BY <2>3, <2>4, <1>16 DEF ParseTimes
<1>17. CASE SaveStatistics(s)
  <2> DEFINE file == CsvFiles[sh[s].k]
             z == [dirs[d].csv EXCEPT ![file] = Timed(s, file)]
             y == [dirs[d] EXCEPT !.csv = z]
  <2>1. dirs' = [dirs EXCEPT ![d] = y]  BY <1>17 DEF SaveStatistics
  <2>2. Owns(s) /\ sh[s].k \in 1 .. Len(CsvFiles)
    BY <1>1, <1>4, <1>17 DEF SaveStatistics, At, Owns, OwnPcs, RecordPcs, Fits
  <2>3. Timed(s, file) \in Seq(Program)
    <3>1. sh[s].cmd \in RecordCommand
      BY <1>1, <1>17 DEF SaveStatistics, At, RecordPcs, Fits
    <3>2. Analysis(s) \in Nat /\ sh[s].native \in Seq(Program) /\ sh[s].dynamorio \in Seq(Program)
      BY <1>1, <3>1 DEF Analysis, Args, RecordCommand, Shell
    <3>3. [j \in 1 .. Analysis(s) |-> <<"drrun", "-c", "app">>] \in [1 .. Analysis(s) -> Program]
      BY DEF Program
    <3>4. [j \in 1 .. Analysis(s) |-> <<"drrun", "-c", "app">>] \in Seq(Program)
      BY <3>2, <3>3, FunctionSequence
    <3> QED BY <3>2, <3>4 DEF Timed
  <2>4. z \in Statistics
    <3>1. dirs[d].csv \in Statistics  BY <1>4 DEF Directory
    <3> QED BY <2>3, <3>1 DEF Statistics
  <2>5. y \in Directory /\ y.exists = dirs[d].exists /\ y.counts = dirs[d].counts
        /\ y.times = dirs[d].times /\ y.gnu = dirs[d].gnu
    BY <1>4, <2>4 DEF Directory
  <2>6. dirs' \in [Dirs -> Directory] /\ PlotsKept /\ DocsKept(s)
    BY <2>1, <2>5, <1>1, <1>4, DirChanged
  <2>7. CASE Return(s)  BY <2>6, <2>7, Ends
  <2>8. CASE ~Return(s)
    <3> DEFINE x == [sh[s] EXCEPT !.k = sh[s].k + 1]
    <3>1. sh' = [sh EXCEPT ![s] = x] /\ sh[s].k # Len(CsvFiles)
      BY <2>8, <1>17 DEF SaveStatistics
    <3>2. x.k \in 1 .. Len(CsvFiles) /\ x \in Shell
      <4>1. sh[s].k + 1 \in Nat /\ sh[s].k + 1 \in 1 .. Len(CsvFiles)
        BY <2>2, <3>1 DEF CsvFiles
      <4> QED BY <4>1, <1>1 DEF Shell
    <3>3. /\ x.pc = sh[s].pc /\ x.cmd = sh[s].cmd /\ x.count = sh[s].count
          /\ x.current = sh[s].current /\ x.point_list = sh[s].point_list
      BY <1>1 DEF Shell
    <3> QED BY <2>2, <2>6, <3>1, <3>2, <3>3, <1>4, RecordGoesOn
  <2> QED BY <2>7, <2>8
<1>18. CASE Recorded(s)
  BY <1>18, <1>1, FilesLeft, Ends DEF Recorded, files
<1>19. CASE TimeApplication(s)
  <2>1. dirs' = dirs /\ Owns(s) /\ sh[s].k \in 1 .. Len(CsvFiles)
    BY <1>1, <1>4, <1>19 DEF TimeApplication, At, Owns, OwnPcs, RecordPcs, Fits, files
  <2>2. dirs' \in [Dirs -> Directory] /\ PlotsKept /\ DocsKept(s)  BY <2>1, <1>1, FilesLeft
  <2>3. PICK p \in Seq(Program), q \in Seq(Program), c \in {"client", "timing"} :
          sh' = [sh EXCEPT ![s].native = p, ![s].dynamorio = q, ![s].pc = c]
    <3>1. sh[s].native \in Seq(Program) /\ sh[s].dynamorio \in Seq(Program) /\ sh[s].pc = "timing"
      BY <1>1, <1>19 DEF Shell, TimeApplication, At
    <3>2. GetTimeInfo(<<>>) \in Program /\ GetTimeInfo(<<"drrun">>) \in Program
      BY DEF GetTimeInfo, Program
    <3> DEFINE p == Append(sh[s].native, GetTimeInfo(<<>>))
               q == Append(sh[s].dynamorio, GetTimeInfo(<<"drrun">>))
    <3>3. p \in Seq(Program) /\ q \in Seq(Program)  BY <3>1, <3>2
    <3>4. CASE sh' = [sh EXCEPT ![s].native = p]
      <4>1. sh' = [sh EXCEPT ![s].native = p, ![s].dynamorio = sh[s].dynamorio,
                             ![s].pc = "timing"]
        BY <3>1, <3>4, <1>1 DEF Shell, TypeOK
      <4> QED BY <4>1, <3>1, <3>3
    <3>5. ASSUME NEW c \in {"client", "timing"},
                 sh' = [sh EXCEPT ![s].dynamorio = q, ![s].pc = c]
          PROVE  \E e \in {"client", "timing"} :
                   sh' = [sh EXCEPT ![s].native = sh[s].native, ![s].dynamorio = q, ![s].pc = e]
      BY <3>1, <3>5, <1>1 DEF Shell, TypeOK
    <3>6. \/ sh' = [sh EXCEPT ![s].native = p]
          \/ \E c \in {"client", "timing"} : sh' = [sh EXCEPT ![s].dynamorio = q, ![s].pc = c]
      BY <1>19, <3>1 DEF TimeApplication
    <3> QED BY <3>1, <3>3, <3>4, <3>5, <3>6
  <2> DEFINE x == [sh[s] EXCEPT !.native = p, !.dynamorio = q, !.pc = c]
  <2>4. sh' = [sh EXCEPT ![s] = x]  BY <2>3
  <2>5. p \in Seq(Program) /\ q \in Seq(Program)  BY <2>3
  <2>6. x \in Shell  BY <2>5, <1>1 DEF Shell, Control
  <2>7. /\ x.pc = c /\ x.cmd = sh[s].cmd /\ x.count = sh[s].count /\ x.k = sh[s].k
        /\ x.current = sh[s].current /\ x.point_list = sh[s].point_list
    BY <1>1 DEF Shell
  <2>8. x.pc \in RecordPcs  BY <2>7 DEF RecordPcs
  <2> QED BY <2>1, <2>2, <2>4, <2>6, <2>7, <2>8, <1>4, RecordGoesOn
<1>20. CASE EndAnalysis(s)
  <2>1. dirs' = dirs /\ Owns(s) /\ sh' = [sh EXCEPT ![s].pc = "csv"]
    BY <1>20 DEF EndAnalysis, At, Owns, OwnPcs, RecordPcs, Goto, files
  <2>2. dirs' \in [Dirs -> Directory] /\ PlotsKept /\ DocsKept(s)  BY <2>1, <1>1, FilesLeft
  <2> QED BY <2>1, <2>2, <1>4, RecordMoves DEF RecordPcs
<1> QED BY <1>7, <1>8, <1>9, <1>11, <1>12, <1>13, <1>14, <1>15, <1>16, <1>17, <1>18, <1>19,
           <1>20 DEF Record
-----------------------------------------------------------------------------
(***************************************************************************)
(* The steps of report.                                                    *)
(***************************************************************************)
LEMMA ReportMoves ==
  ASSUME IInv, NEW s \in Shells, NEW x \in Shell, sh' = [sh EXCEPT ![s] = x],
         x.pc \in ReportPcs, x.pc # "times", x.cmd = sh[s].cmd, Fits(x),
         x.pc \in PlotPcs => dirs'[Output_(s)].gnu \in Gnuplot
  PROVE  ShellStep(s) /\ Fits(sh'[s]) /\ HasPlot(s)' /\ OwnerStep(s) /\ ReadFrom(s)'
<1>1. ShellStep(s) /\ sh'[s] = x  BY ShellChanged DEF IInv
<1>2. Output_(s)' = Output_(s)  BY <1>1 DEF Output_, Inputs, Args
<1>3. ~Owns(s)'  BY <1>1 DEF Owns, OwnPcs, RecordPcs, ReportPcs, PlotPcs, LinesPcs, DatPcs
<1> QED BY <1>1, <1>2, <1>3 DEF HasPlot, OwnerStep, ReadFrom, At

\* To another step, with the variables as they are.
LEMMA ReportGoes ==
  ASSUME IInv, NEW s \in Shells, sh[s].pc \in ReportPcs, NEW c \in ReportPcs \ ({"times"} \cup DatPcs),
         c \in LinesPcs => Len(Lines(s)) > 1,
         c \in PlotPcs => dirs'[Output_(s)].gnu \in Gnuplot,
         Goto(s, c)
  PROVE  ShellStep(s) /\ Fits(sh'[s]) /\ HasPlot(s)' /\ OwnerStep(s) /\ ReadFrom(s)'
<1> DEFINE x == [sh[s] EXCEPT !.pc = c]
<1>1. TypeOK /\ sh[s] \in Shell /\ Fits(sh[s])  BY DEF IInv, TypeOK
<1>2. x \in Shell  BY <1>1 DEF Shell, Control, ReportPcs, PlotPcs, LinesPcs, DatPcs
<1>3. sh' = [sh EXCEPT ![s] = x]  BY DEF Goto
<1>4. /\ x.pc = c /\ x.cmd = sh[s].cmd /\ x.k = sh[s].k /\ x.title = sh[s].title
      /\ x.current = sh[s].current /\ x.point_list = sh[s].point_list
  BY <1>1 DEF Shell
<1>5. c \notin RecordPcs \cup ErtPcs \cup {"args"}
  BY DEF ReportPcs, PlotPcs, LinesPcs, DatPcs, RecordPcs, ErtPcs
<1>6. Fits(x)
  <2>1. c \in LinesPcs => Len(x.cmd.line) > 1  BY <1>4 DEF Lines, Args
  <2>2. c \notin DatPcs \cup {"times", "move"}
    BY DEF ReportPcs, PlotPcs, LinesPcs, DatPcs
  <2> HIDE DEF x
  <2> QED BY <1>1, <1>4, <1>5, <2>1, <2>2 DEF Fits
<1> QED BY <1>2, <1>3, <1>4, <1>6, ReportMoves

\* Every step of report.
LEMMA ReportKeeps ==
  ASSUME IInv, NEW s \in Shells, Report(s)
  PROVE  Keeps(s)
<1> DEFINE i == Input(s)
           o == Output_(s)
<1>1. TypeOK /\ sh[s] \in Shell /\ dirs \in [Dirs -> Directory] /\ Fits(sh[s])
  BY DEF IInv, TypeOK
<1>2. rooflines' = rooflines /\ ert' = ert
  BY DEF Report, CheckoutInputArgs, MakeOutput, CopyEmptyRoofline, FillRoofline,
         ContinuePlot, TailLine, AppendLines, ReadCounts, ReadTimes, CreateDatFile,
         WritePoints, CopyDatFile, OpenDatFile, FillDatFile, AddDatFileReference,
         TruncateMetainfo, WriteMetainfo, AddPointLabels, Draw, files
<1>3. rooflines' \in [Rooflines -> Entry \cup {NoFile}] /\ ert' \in ErtFiles
  BY <1>1, <1>2 DEF TypeOK
<1>4. SUFFICES /\ dirs' \in [Dirs -> Directory] /\ PlotsKept /\ DocsKept(s)
               /\ ShellStep(s) /\ Fits(sh'[s]) /\ HasPlot(s)' /\ OwnerStep(s) /\ ReadFrom(s)'
  BY <1>3 DEF Keeps, FilesTyped
<1>5. CASE CheckoutInputArgs(s)
  <2>1. dirs' \in [Dirs -> Directory] /\ PlotsKept /\ DocsKept(s)
    BY <1>1, <1>5, FilesLeft DEF CheckoutInputArgs, files
  <2>2. CASE Fail(s)  BY <2>1, <2>2, Ends
  <2>3. ASSUME NEW c \in {"empty", "makeout"}, Goto(s, c), Inputs(s) # <<>>, Lines(s) # <<>>
        PROVE  ShellStep(s) /\ Fits(sh'[s]) /\ HasPlot(s)' /\ OwnerStep(s) /\ ReadFrom(s)'
    <3> DEFINE x == [sh[s] EXCEPT !.pc = c]
    <3>1. sh[s].pc = "args" /\ sh[s].cmd \in ReportCommand /\ sh[s].k = 1
      BY <1>5, <1>1 DEF CheckoutInputArgs, At, Fits
    <3>2. x \in Shell /\ sh' = [sh EXCEPT ![s] = x]  BY <2>3, <1>1 DEF Shell, Control, Goto
    <3>3. /\ x.pc = c /\ x.cmd = sh[s].cmd /\ x.k = 1
          /\ x.current = sh[s].current /\ x.point_list = sh[s].point_list
      BY <1>1, <3>1 DEF Shell
    <3>4. /\ x.cmd.input_dir \in Seq(Dirs) /\ x.cmd.output_dir \in Dirs \cup {NoDir}
          /\ x.cmd.input_dir # <<>> /\ x.cmd.line # <<>>
      BY <2>3, <3>1, <3>3 DEF ReportCommand, Inputs, Lines, Args
    <3>5. x.k \in 1 .. Len(x.cmd.input_dir) /\ Head(x.cmd.input_dir) \in Dirs
      BY <3>3, <3>4
    <3>6. Fits(x)
      <4>1. c \notin RecordPcs \cup ErtPcs \cup LinesPcs \cup DatPcs \cup {"args", "times"}
        BY DEF RecordPcs, ErtPcs, LinesPcs, DatPcs
      <4>2. x.pc # "move" /\ x.cmd \in ReportCommand  BY <3>1, <3>3
      <4> HIDE DEF x
      <4> QED BY <1>1, <3>3, <3>4, <3>5, <4>1, <4>2 DEF Fits
    <3> QED BY <3>2, <3>3, <3>6, ReportMoves DEF ReportPcs, PlotPcs, LinesPcs, DatPcs
  <2> QED BY <2>1, <2>2, <2>3, <1>5 DEF CheckoutInputArgs
<1>6. SUFFICES ASSUME sh[s].pc \in ReportPcs, i \in Dirs, o \in Dirs,
                      dirs[i] \in Directory, dirs[o] \in Directory,
                      sh[s].cmd.input_dir \in Seq(Dirs), sh[s].cmd.input_dir # <<>>,
                      sh[s].k \in 1 .. Len(sh[s].cmd.input_dir)
               PROVE  /\ dirs' \in [Dirs -> Directory] /\ PlotsKept /\ DocsKept(s)
                      /\ ShellStep(s) /\ Fits(sh'[s]) /\ HasPlot(s)' /\ OwnerStep(s) /\ ReadFrom(s)'
  <2>1. CASE CheckoutInputArgs(s)  BY <2>1, <1>5
  <2>2. CASE ~CheckoutInputArgs(s)
    <3>1. sh[s].pc \in ReportPcs
      BY <2>2 DEF Report, MakeOutput, CopyEmptyRoofline, FillRoofline,
             ContinuePlot, TailLine, AppendLines, ReadCounts,
             ReadTimes, CreateDatFile, WritePoints, CopyDatFile, OpenDatFile, FillDatFile,
             AddDatFileReference, TruncateMetainfo, WriteMetainfo, AddPointLabels, Draw,
             At, ReportPcs, PlotPcs, LinesPcs, DatPcs
    <3>2. i \in Dirs /\ o \in Dirs  BY <3>1, <1>1, Names
    <3>3. /\ sh[s].cmd.input_dir \in Seq(Dirs) /\ sh[s].cmd.input_dir # <<>>
          /\ sh[s].k \in 1 .. Len(sh[s].cmd.input_dir)
      BY <3>1, <1>1 DEF Fits, ReportCommand
    <3> QED BY <3>1, <3>2, <3>3, <1>1
  <2> QED BY <2>1, <2>2
<1>7. sh[s].pc \in PlotPcs => dirs[o].gnu \in Gnuplot  BY DEF IInv, HasPlot
<1>8. ASSUME PlotsKept, sh[s].pc \in PlotPcs PROVE dirs'[o].gnu \in Gnuplot
  BY <1>8, <1>7, <1>6 DEF PlotsKept
<1>9. CASE MakeOutput(s)
  <2>1. CASE dirs[o].exists  BY <2>1, <1>1, <1>9, FilesLeft, Ends DEF MakeOutput
  <2>2. CASE ~dirs[o].exists
    <3> DEFINE y == [dirs[o] EXCEPT !.exists = TRUE]
    <3>1. dirs' = [dirs EXCEPT ![o] = y] /\ Goto(s, "empty")  BY <2>2, <1>9 DEF MakeOutput
    <3>2. y \in Directory /\ y.exists /\ y.counts = dirs[o].counts /\ y.times = dirs[o].times
          /\ y.gnu = dirs[o].gnu
      BY <1>6 DEF Directory
    <3>3. dirs' \in [Dirs -> Directory] /\ PlotsKept /\ DocsKept(s)
      BY <3>1, <3>2, <1>1, <1>6, DirChanged
    <3>4. "empty" \in ReportPcs \ ({"times"} \cup DatPcs) /\ "empty" \notin PlotPcs \cup LinesPcs
      BY DEF ReportPcs, PlotPcs, LinesPcs, DatPcs
    <3> QED BY <3>1, <3>3, <3>4, <1>6, ReportGoes
  <2> QED BY <2>1, <2>2
\* A script is written to the output directory.
<1>15. ASSUME NEW g \in Gnuplot, dirs' = [dirs EXCEPT ![o].gnu = g]
       PROVE  /\ dirs' \in [Dirs -> Directory] /\ PlotsKept /\ DocsKept(s)
              /\ dirs'[o].gnu \in Gnuplot
  <2> DEFINE y == [dirs[o] EXCEPT !.gnu = g]
  <2>1. dirs' = [dirs EXCEPT ![o] = y]  BY <1>15
  <2>2. y \in Directory /\ y.exists = dirs[o].exists /\ y.counts = dirs[o].counts
        /\ y.times = dirs[o].times /\ y.gnu = g
    BY <1>6, <1>15 DEF Directory
  <2> HIDE DEF y
  <2>3. dirs' \in [Dirs -> Directory] /\ PlotsKept /\ DocsKept(s)
    BY <2>1, <2>2, <1>1, <1>6, DirChanged
  <2>4. dirs'[o] = y  BY <2>1, <1>1, <1>6
  <2> QED BY <2>2, <2>3, <2>4, <1>15
\* The process goes to another step and keeps a roofline, or none.
<1>16. ASSUME NEW r \in Seq(Roofline), NEW c \in PlotPcs \ ({"times"} \cup DatPcs),
              sh' = [sh EXCEPT ![s].pc = c, ![s].source = r],
              c \in LinesPcs => Len(Lines(s)) > 1, dirs'[o].gnu \in Gnuplot
       PROVE  ShellStep(s) /\ Fits(sh'[s]) /\ HasPlot(s)' /\ OwnerStep(s) /\ ReadFrom(s)'
  <2> DEFINE x == [sh[s] EXCEPT !.pc = c, !.source = r]
  <2>1. sh' = [sh EXCEPT ![s] = x]  BY <1>16
  <2>2. x \in Shell  BY <1>1, <1>16 DEF Shell, Control, PlotPcs, LinesPcs, DatPcs
  <2>3. /\ x.pc = c /\ x.cmd = sh[s].cmd /\ x.k = sh[s].k
        /\ x.current = sh[s].current /\ x.point_list = sh[s].point_list
    BY <1>1 DEF Shell
  <2>4. c \notin RecordPcs \cup ErtPcs \cup {"args"} /\ c \in ReportPcs
    BY <1>16 DEF ReportPcs, PlotPcs, LinesPcs, DatPcs, RecordPcs, ErtPcs
  <2>5. c \in LinesPcs => Len(x.cmd.line) > 1  BY <1>16, <2>3 DEF Lines, Args
  <2>6. c # "move"  BY <2>4 DEF ErtPcs
  <2>7. Fits(x)  BY <1>1, <1>6, <1>16, <2>3, <2>4, <2>5, <2>6 DEF Fits
  <2> QED BY <2>1, <2>2, <2>3, <2>4, <2>7, <1>16, ReportMoves
<1>10. CASE CopyEmptyRoofline(s)
  <2> DEFINE r == rooflines[Lines(s)[1]].gnu
             g == [end |-> "empty", lines |-> <<>>, refs |-> <<>>, labels |-> {}]
  <2>1. CASE ~HasRoofline(Lines(s)[1])
    BY <2>1, <1>1, <1>10, FilesLeft, Ends DEF CopyEmptyRoofline
  <2>2. CASE HasRoofline(Lines(s)[1])
    <3>1. /\ dirs' = [dirs EXCEPT ![o].gnu = g]
          /\ sh' = [sh EXCEPT ![s].pc = "roofline", ![s].source = <<r>>]
      BY <2>2, <1>10 DEF CopyEmptyRoofline
    <3>2. Lines(s)[1] \in Rooflines
      BY <1>1, <1>6 DEF Fits, ReportCommand, Lines, Args
    <3>3. r \in Roofline  BY <2>2, <3>2, <1>1 DEF TypeOK, Entry, HasRoofline
    <3>4. g \in Gnuplot
      <4>1. <<>> \in Seq(Roofline) /\ <<>> \in Seq(Apps)  OBVIOUS
      <4> QED BY <4>1 DEF Gnuplot
    <3>5. <<r>> \in Seq(Roofline)  BY <3>3
    <3>6. "roofline" \in PlotPcs \ ({"times"} \cup DatPcs) /\ "roofline" \notin LinesPcs
      BY DEF PlotPcs, LinesPcs, DatPcs
    <3> HIDE DEF g, r
    <3> QED BY <3>1, <3>4, <3>5, <3>6, <1>15, <1>16
  <2> QED BY <2>1, <2>2
<1>11. CASE FillRoofline(s)
  <2> DEFINE g == [dirs[o].gnu EXCEPT !.end = "complete", !.lines = sh[s].source]
  <2>1. dirs' = [dirs EXCEPT ![o].gnu = g]  BY <1>11 DEF FillRoofline
  <2>2. sh[s].pc \in PlotPcs  BY <1>11 DEF FillRoofline, At, PlotPcs
  <2>3. g \in Gnuplot  BY <2>2, <1>7, <1>1 DEF Gnuplot, Shell
  <2>4. PICK c \in {"continue", "counts"} :
          /\ sh' = [sh EXCEPT ![s].pc = c, ![s].source = <<>>]
          /\ c = "continue" => Len(Lines(s)) > 1
    BY <1>11 DEF FillRoofline
  <2>5. c \in PlotPcs \ ({"times"} \cup DatPcs) /\ (c \in LinesPcs => c = "continue")
    BY DEF PlotPcs, LinesPcs, DatPcs
  <2>6. <<>> \in Seq(Roofline)  OBVIOUS
  <2> HIDE DEF g
  <2> QED BY <2>1, <2>3, <2>4, <2>5, <2>6, <1>15, <1>16
<1>24. CASE ContinuePlot(s)
  <2>1. sh[s].pc \in PlotPcs /\ Len(Lines(s)) > 1
    BY <1>1, <1>24 DEF ContinuePlot, At, PlotPcs, LinesPcs, Fits, Lines, Args
  <2>2. CASE dirs[o].gnu.end = "empty"
    BY <2>2, <1>1, <1>24, FilesLeft, Ends DEF ContinuePlot
  <2>3. CASE dirs[o].gnu.end # "empty"
    <3> DEFINE end == IF dirs[o].gnu.end = "complete" THEN "continued" ELSE "rejected"
               g == [dirs[o].gnu EXCEPT !.end = end]
    <3>1. dirs' = [dirs EXCEPT ![o].gnu = g] /\ Goto(s, "tail")
      BY <2>3, <1>24 DEF ContinuePlot
    <3>2. g \in Gnuplot  BY <2>1, <1>7 DEF Gnuplot
    <3>3. "tail" \in ReportPcs \ ({"times"} \cup DatPcs)
      BY DEF ReportPcs, PlotPcs, LinesPcs, DatPcs
    <3> HIDE DEF g
    <3> QED BY <3>1, <3>2, <3>3, <2>1, <1>6, <1>15, ReportGoes
  <2> QED BY <2>2, <2>3
<1>25. CASE TailLine(s)
  <2> DEFINE r == IF HasRoofline(Lines(s)[2]) THEN <<rooflines[Lines(s)[2]].gnu>> ELSE <<>>
  <2>1. dirs' = dirs /\ sh' = [sh EXCEPT ![s].pc = "append", ![s].source = r]
    BY <1>25 DEF TailLine, files
  <2>2. sh[s].pc \in PlotPcs /\ Len(Lines(s)) > 1 /\ Lines(s) \in Seq(Rooflines)
    BY <1>1, <1>6, <1>25 DEF TailLine, At, PlotPcs, LinesPcs, Fits, ReportCommand, Lines, Args
  <2>3. r \in Seq(Roofline)
    <3>1. CASE HasRoofline(Lines(s)[2])
      <4>1. rooflines[Lines(s)[2]].gnu \in Roofline
        BY <3>1, <2>2, <1>1 DEF HasRoofline, TypeOK, Entry
      <4> QED BY <4>1, <3>1
    <3>2. CASE ~HasRoofline(Lines(s)[2])  BY <3>2
    <3> QED BY <3>1, <3>2
  <2>4. "append" \in PlotPcs \ ({"times"} \cup DatPcs)  BY DEF PlotPcs, LinesPcs, DatPcs
  <2>5. dirs' \in [Dirs -> Directory] /\ PlotsKept /\ DocsKept(s)  BY <2>1, <1>1, FilesLeft
  <2> HIDE DEF r
  <2> QED BY <2>1, <2>2, <2>3, <2>4, <2>5, <1>8, <1>16
<1>26. CASE AppendLines(s)
  <2>1. sh[s].pc \in PlotPcs  BY <1>26 DEF AppendLines, At, PlotPcs, LinesPcs
  <2>2. dirs' \in [Dirs -> Directory] /\ PlotsKept /\ DocsKept(s)
    <3>1. CASE UNCHANGED dirs  BY <3>1, <1>1, FilesLeft
    <3>2. ASSUME NEW end \in {"complete", "continued", "rejected"}, NEW r \in Seq(Roofline),
                 dirs' = [dirs EXCEPT ![o].gnu = [dirs[o].gnu EXCEPT !.end = end, !.lines = r]]
          PROVE  dirs' \in [Dirs -> Directory] /\ PlotsKept /\ DocsKept(s)
      <4>1. [dirs[o].gnu EXCEPT !.end = end, !.lines = r] \in Gnuplot
        BY <2>1, <1>7, <3>2 DEF Gnuplot
      <4> QED BY <4>1, <3>2, <1>15
    <3> DEFINE g == dirs[o].gnu
               end == IF g.end = "continued" THEN "complete" ELSE "rejected"
    <3>3. CASE dirs' = [dirs EXCEPT ![o].gnu =
                          [g EXCEPT !.end = end, !.lines = g.lines \o sh[s].source]]
      <4>1. g.lines \in Seq(Roofline) /\ sh[s].source \in Seq(Roofline)
        BY <1>1, <2>1, <1>7 DEF Gnuplot, Shell
      <4>2. g.lines \o sh[s].source \in Seq(Roofline)  BY <4>1
      <4> QED BY <4>2, <3>2, <3>3
    <3>4. ASSUME NEW e \in {"complete", "continued", "rejected"},
                 dirs' = [dirs EXCEPT ![o].gnu.end = e]
          PROVE  dirs' \in [Dirs -> Directory] /\ PlotsKept /\ DocsKept(s)
      <4>1. g \in Gnuplot  BY <2>1, <1>7
      <4>2. g.lines \in Seq(Roofline) /\ [g EXCEPT !.end = e] = [g EXCEPT !.end = e, !.lines = g.lines]
        BY <4>1 DEF Gnuplot
      <4> QED BY <4>2, <3>2, <3>4
    <3> QED BY <3>1, <3>3, <3>4, <1>26 DEF AppendLines
  <2>3. CASE Fail(s)  BY <2>2, <2>3, Ends
  <2>4. CASE sh' = [sh EXCEPT ![s].pc = "counts", ![s].source = <<>>]
    <3>1. "counts" \in PlotPcs \ ({"times"} \cup DatPcs) /\ "counts" \notin LinesPcs
      BY DEF PlotPcs, LinesPcs, DatPcs
    <3>2. <<>> \in Seq(Roofline)  OBVIOUS
    <3> QED BY <3>1, <3>2, <2>1, <2>2, <2>4, <1>8, <1>16
  <2> QED BY <2>3, <2>4, <1>26 DEF AppendLines
<1>12. CASE ReadCounts(s)
  <2>1. dirs' = dirs /\ dirs' \in [Dirs -> Directory] /\ PlotsKept /\ DocsKept(s)
    BY <1>1, <1>12, FilesLeft DEF ReadCounts, files
  <2>2. CASE Fail(s)  BY <2>1, <2>2, Ends
  <2>3. CASE ~Fail(s)
    <3> DEFINE f == dirs[i].counts
               x == [sh[s] EXCEPT !.pc = "times", !.read = f]
    <3>1. sh' = [sh EXCEPT ![s] = x] /\ f \notin {NoFile, Broken}
      BY <2>3, <1>12 DEF ReadCounts
    <3>2. f \in Document /\ f \in Docs(i)  BY <3>1, <1>6 DEF Directory, Docs
    <3>3. x \in Shell  BY <3>2, <1>1 DEF Shell, Control
    <3>4. ShellStep(s) /\ sh'[s] = x  BY <3>1, <3>3, <1>1, ShellChanged
    <3>5. /\ x.pc = "times" /\ x.cmd = sh[s].cmd /\ x.k = sh[s].k /\ x.read = f
          /\ x.current = sh[s].current /\ x.point_list = sh[s].point_list
      BY <1>1 DEF Shell
    <3>6. Fits(x)
      BY <1>1, <1>6, <3>2, <3>5 DEF Fits, RecordPcs, ErtPcs, ReportPcs, PlotPcs, LinesPcs, DatPcs
    <3>7. Output_(s)' = o /\ Input(s)' = i
      BY <3>4, <3>5 DEF Output_, Input, Inputs, Args
    <3>8. HasPlot(s)'
      BY <3>7, <2>1, <1>7, <1>12 DEF HasPlot, ReadCounts, At, PlotPcs, LinesPcs, DatPcs
    <3>9. ReadFrom(s)'
      <4>1. dirs[i].exists /\ \A g \in Docs(i) : g.by = f.by
        BY <3>2, <1>6 DEF IInv, Owned, OneRecording
      <4>2. ASSUME NEW r \in Shells, Owns(r)', OutDir(r)' = i PROVE f.by = Id(r)'
        <5>1. r # s  BY <4>2, <3>4, <3>5 DEF Owns, OwnPcs, RecordPcs
        <5>2. sh'[r] = sh[r]  BY <5>1, <3>4 DEF ShellStep
        <5>3. Owns(r) /\ OutDir(r) = i /\ Id(r)' = Id(r)
          BY <5>2, <4>2 DEF Owns, OutDir, Args, Id
        <5> QED BY <5>3, <3>2 DEF IInv, Owned, Owner
      <4>3. dirs'[i] = dirs[i]  BY <2>1
      <4> QED BY <2>1, <3>4, <3>5, <3>7, <4>1, <4>2, <4>3 DEF ReadFrom, Docs
    <3>10. OwnerStep(s)  BY <3>4, <3>5 DEF OwnerStep, Owns, OwnPcs, RecordPcs
    <3> QED BY <2>1, <3>4, <3>6, <3>8, <3>9, <3>10
  <2> QED BY <2>2, <2>3
<1>13. CASE ReadTimes(s)
  <2>1. dirs' = dirs /\ dirs' \in [Dirs -> Directory] /\ PlotsKept /\ DocsKept(s)
    BY <1>1, <1>13, FilesLeft DEF ReadTimes, files
  <2>2. CASE Fail(s)  BY <2>1, <2>2, Ends
  <2>3. CASE ~Fail(s)
    <3> DEFINE counts == sh[s].read
               times == dirs[i].times
               dots == [n \in DOMAIN counts.labels |->
                          [label |-> counts.labels[n], app |-> counts.app,
                           counts |-> counts.by, times |-> times.by]]
               x == [sh[s] EXCEPT !.pc = "dat", !.current = dots]
    <3>1. sh' = [sh EXCEPT ![s] = x] /\ times \notin {NoFile, Broken}
      BY <2>3, <1>13 DEF ReadTimes
    <3>2. At(s, "times") /\ counts \in Document
      BY <1>1, <1>13 DEF ReadTimes, At, Fits
    <3>3. times \in Docs(i)  BY <3>1 DEF Docs
    <3>4. times.by = counts.by  BY <3>2, <3>3 DEF IInv, Owned, ReadFrom
    <3>5. /\ counts.labels \in Seq(Labels) /\ counts.app \in Apps /\ counts.by \in Ids
      BY <3>2 DEF Document
    <3>6. dots \in Seq(Whole)
      <4>1. ASSUME NEW n \in 1 .. Len(counts.labels)
            PROVE  [label |-> counts.labels[n], app |-> counts.app,
                    counts |-> counts.by, times |-> times.by] \in Whole
        <5>1. counts.labels[n] \in Labels  BY <4>1, <3>5
        <5> QED BY <5>1, <3>4, <3>5 DEF Whole, Dot
      <4>2. DOMAIN counts.labels = 1 .. Len(counts.labels) /\ Len(counts.labels) \in Nat
        BY <3>5
      <4>3. dots \in [1 .. Len(counts.labels) -> Whole]  BY <4>1, <4>2
      <4> QED BY <4>2, <4>3
    <3>7. dots \in Seq(Dot)
      <4>1. Seq(Whole) \subseteq Seq(Dot)  BY DEF Whole
      <4> QED BY <4>1, <3>6
    <3> HIDE DEF dots
    <3>8. x \in Shell  BY <3>7, <1>1 DEF Shell, Control
    <3>9. /\ x.pc = "dat" /\ x.cmd = sh[s].cmd /\ x.k = sh[s].k
          /\ x.current = dots /\ x.point_list = sh[s].point_list
      BY <1>1 DEF Shell
    <3>10. Fits(x)
      BY <1>1, <1>6, <3>6, <3>9 DEF Fits, RecordPcs, ErtPcs, ReportPcs, PlotPcs, LinesPcs, DatPcs
    <3>11. sh[s].pc \in PlotPcs /\ "dat" \in ReportPcs \ {"times"}
      BY <3>2 DEF At, PlotPcs, LinesPcs, DatPcs, ReportPcs
    <3> QED BY <2>1, <3>1, <3>8, <3>9, <3>10, <3>11, <1>8, ReportMoves
  <2> QED BY <2>2, <2>3
<1>14. ASSUME ~NoTitle(s) PROVE Title(s) \in Apps
  <2>1. dirs[i].meta \in Seq(Apps) /\ dirs[i].meta # <<>>
    BY <1>6, <1>14 DEF Directory, NoTitle
  <2> QED BY <2>1 DEF Title, GetAppTitle
\* A .dat file is written into directory d.
<1>27. ASSUME NEW d \in {i, o}, NEW t \in Apps, NEW v \in Seq(Dot) \cup {NoFile},
              dirs' = [dirs EXCEPT ![d].dat[t] = v]
       PROVE  dirs' \in [Dirs -> Directory] /\ PlotsKept /\ DocsKept(s)
  <2> DEFINE z == [dirs[d].dat EXCEPT ![t] = v]
             y == [dirs[d] EXCEPT !.dat = z]
  <2>1. d \in Dirs /\ dirs[d] \in Directory  BY <1>6, <1>27
  <2>2. z \in [Apps -> Seq(Dot) \cup {NoFile}]  BY <2>1 DEF Directory
  <2>3. dirs' = [dirs EXCEPT ![d] = y]  BY <1>27
  <2>4. y \in Directory /\ y.exists = dirs[d].exists /\ y.counts = dirs[d].counts
        /\ y.times = dirs[d].times /\ y.gnu = dirs[d].gnu
    BY <2>1, <2>2 DEF Directory
  <2> QED BY <2>1, <2>3, <2>4, <1>1, DirChanged
\* The process goes to another step and keeps the name of a file, or none.
<1>28. ASSUME NEW r \in Seq(Apps), NEW c \in PlotPcs \ ({"times"} \cup LinesPcs),
              sh' = [sh EXCEPT ![s].pc = c, ![s].title = r],
              c \in DatPcs => r # <<>>, dirs'[o].gnu \in Gnuplot
       PROVE  ShellStep(s) /\ Fits(sh'[s]) /\ HasPlot(s)' /\ OwnerStep(s) /\ ReadFrom(s)'
  <2> DEFINE x == [sh[s] EXCEPT !.pc = c, !.title = r]
  <2>1. sh' = [sh EXCEPT ![s] = x]  BY <1>28
  <2>2. x \in Shell  BY <1>1, <1>28 DEF Shell, Control, PlotPcs, LinesPcs, DatPcs
  <2>3. /\ x.pc = c /\ x.cmd = sh[s].cmd /\ x.k = sh[s].k /\ x.title = r
        /\ x.current = sh[s].current /\ x.point_list = sh[s].point_list
    BY <1>1 DEF Shell
  <2>4. c \notin RecordPcs \cup ErtPcs \cup {"args"} /\ c \in ReportPcs /\ c \notin LinesPcs
    BY <1>28 DEF ReportPcs, PlotPcs, LinesPcs, DatPcs, RecordPcs, ErtPcs
  <2>5. c # "move"  BY <2>4 DEF ErtPcs
  <2>6. Fits(x)  BY <1>1, <1>6, <1>28, <2>3, <2>4, <2>5 DEF Fits
  <2> QED BY <2>1, <2>2, <2>3, <2>4, <2>6, <1>28, ReportMoves
<1>29. CASE CreateDatFile(s)
  <2>1. CASE NoTitle(s) \/ Title(s) \in PathApps
    BY <2>1, <1>1, <1>29, FilesLeft, Ends DEF CreateDatFile
  <2>2. CASE ~(NoTitle(s) \/ Title(s) \in PathApps)
    <3>1. /\ dirs' = [dirs EXCEPT ![i].dat[Title(s)] = <<>>]
          /\ sh' = [sh EXCEPT ![s].pc = "points", ![s].title = <<Title(s)>>]
      BY <2>2, <1>29 DEF CreateDatFile
    <3>2. <<>> \in Seq(Dot) /\ Title(s) \in Apps  BY <2>2, <1>14
    <3>3. dirs' \in [Dirs -> Directory] /\ PlotsKept /\ DocsKept(s)
      BY <3>1, <3>2, <1>27
    <3>4. sh[s].pc \in PlotPcs /\ "points" \in PlotPcs \ ({"times"} \cup LinesPcs)
      BY <1>29 DEF CreateDatFile, At, PlotPcs, LinesPcs, DatPcs
    <3>5. <<Title(s)>> \in Seq(Apps) /\ <<Title(s)>> # <<>>  BY <3>2
    <3> QED BY <3>1, <3>3, <3>4, <3>5, <1>8, <1>28
  <2> QED BY <2>1, <2>2
<1>30. ASSUME sh[s].pc \in DatPcs PROVE Head(sh[s].title) \in Apps
  <2>1. sh[s].title \in Seq(Apps) /\ sh[s].title # <<>>  BY <1>1, <1>30 DEF Shell, Fits
  <2> QED BY <2>1
<1>31. CASE WritePoints(s)
  <2>1. /\ dirs' = [dirs EXCEPT ![i].dat[Head(sh[s].title)] = sh[s].current]
        /\ sh' = [sh EXCEPT ![s].pc = "copy", ![s].title = <<>>]
    BY <1>31 DEF WritePoints
  <2>2. sh[s].current \in Seq(Dot)  BY <1>1 DEF Shell
  <2>3. sh[s].pc \in PlotPcs /\ sh[s].pc \in DatPcs
    BY <1>31 DEF WritePoints, At, PlotPcs, DatPcs
  <2>4. dirs' \in [Dirs -> Directory] /\ PlotsKept /\ DocsKept(s)
    BY <2>1, <2>2, <2>3, <1>27, <1>30
  <2>5. "copy" \in PlotPcs \ ({"times"} \cup LinesPcs) /\ "copy" \notin DatPcs
    BY DEF PlotPcs, LinesPcs, DatPcs
  <2>6. <<>> \in Seq(Apps)  OBVIOUS
  <2> QED BY <2>1, <2>3, <2>4, <2>5, <2>6, <1>8, <1>28
<1>17. CASE CopyDatFile(s)
  <2> DEFINE t == Title(s)
  <2>1. sh[s].pc \in PlotPcs  BY <1>17 DEF CopyDatFile, At, PlotPcs
  <2>2. dirs' = dirs /\ dirs' \in [Dirs -> Directory] /\ PlotsKept /\ DocsKept(s)
    BY <1>1, <1>17, FilesLeft DEF CopyDatFile, files
  <2>3. CASE NoTitle(s)  BY <2>2, <2>3, <1>17, Ends DEF CopyDatFile
  <2>4. CASE ~NoTitle(s) /\ Goto(s, "refs")
    <3>1. "refs" \in ReportPcs \ ({"times"} \cup DatPcs) /\ "refs" \notin LinesPcs
      BY DEF PlotPcs, LinesPcs, DatPcs, ReportPcs
    <3> QED BY <3>1, <2>1, <2>2, <2>4, <1>6, <1>8, ReportGoes
  <2>5. CASE ~NoTitle(s) /\ sh' = [sh EXCEPT ![s].pc = "open", ![s].title = <<t>>]
    <3>1. <<t>> \in Seq(Apps) /\ <<t>> # <<>>  BY <2>5, <1>14
    <3>2. "open" \in PlotPcs \ ({"times"} \cup LinesPcs)  BY DEF PlotPcs, LinesPcs, DatPcs
    <3> QED BY <3>1, <3>2, <2>1, <2>2, <2>5, <1>8, <1>28
  <2> QED BY <2>3, <2>4, <2>5, <1>17 DEF CopyDatFile
<1>32. CASE OpenDatFile(s)
  <2> DEFINE t == Head(sh[s].title)
  <2>1. sh[s].pc \in PlotPcs /\ sh[s].pc \in DatPcs
    BY <1>32 DEF OpenDatFile, At, PlotPcs, DatPcs
  <2>2. CASE dirs[i].dat[t] = NoFile  BY <2>2, <1>1, <1>32, FilesLeft, Ends DEF OpenDatFile
  <2>3. CASE dirs[i].dat[t] # NoFile
    <3>1. dirs' = [dirs EXCEPT ![o].dat[t] = <<>>] /\ Goto(s, "fill")
      BY <2>3, <1>32 DEF OpenDatFile
    <3>2. t \in Apps /\ <<>> \in Seq(Dot)  BY <2>1, <1>30
    <3>3. dirs' \in [Dirs -> Directory] /\ PlotsKept /\ DocsKept(s)  BY <3>1, <3>2, <1>27
    <3>4. "fill" \in PlotPcs \ ({"times"} \cup LinesPcs)  BY DEF PlotPcs, LinesPcs, DatPcs
    <3>5. /\ sh[s].title \in Seq(Apps) /\ sh[s].title # <<>>
          /\ sh' = [sh EXCEPT ![s].pc = "fill", ![s].title = sh[s].title]
      <4>1. sh[s].title \in Seq(Apps) /\ sh[s].title # <<>>  BY <2>1, <1>1 DEF Fits, Shell
      <4>2. [sh[s] EXCEPT !.pc = "fill"] = [sh[s] EXCEPT !.pc = "fill", !.title = sh[s].title]
        BY <1>1 DEF Shell
      <4> QED BY <4>1, <4>2, <3>1 DEF Goto
    <3> QED BY <3>3, <3>4, <3>5, <2>1, <1>8, <1>28
  <2> QED BY <2>2, <2>3
<1>18. CASE FillDatFile(s)
  <2> DEFINE t == Head(sh[s].title)
  <2>1. /\ dirs' = [dirs EXCEPT ![o].dat[t] = dirs[i].dat[t]]
        /\ sh' = [sh EXCEPT ![s].pc = "refs", ![s].title = <<>>]
    BY <1>18 DEF FillDatFile
  <2>2. sh[s].pc \in PlotPcs /\ sh[s].pc \in DatPcs
    BY <1>18 DEF FillDatFile, At, PlotPcs, DatPcs
  <2>3. t \in Apps  BY <2>2, <1>30
  <2>4. dirs[i].dat[t] \in Seq(Dot) \cup {NoFile}  BY <2>3, <1>6 DEF Directory
  <2>5. dirs' \in [Dirs -> Directory] /\ PlotsKept /\ DocsKept(s)  BY <2>1, <2>3, <2>4, <1>27
  <2>6. "refs" \in PlotPcs \ ({"times"} \cup LinesPcs) /\ "refs" \notin DatPcs
    BY DEF PlotPcs, LinesPcs, DatPcs
  <2>7. <<>> \in Seq(Apps)  OBVIOUS
  <2> QED BY <2>1, <2>2, <2>5, <2>6, <2>7, <1>8, <1>28
<1>19. CASE AddDatFileReference(s)
  <2>1. sh[s].pc \in PlotPcs  BY <1>19 DEF AddDatFileReference, At, PlotPcs, LinesPcs, DatPcs
  <2>2. CASE NoTitle(s) \/ dirs[o].gnu.end = "empty"
    BY <2>2, <1>1, <1>19, FilesLeft, Ends DEF AddDatFileReference
  <2>3. CASE ~(NoTitle(s) \/ dirs[o].gnu.end = "empty")
    <3> DEFINE c == IF sh[s].k = Len(Inputs(s)) THEN "metainfo" ELSE "counts"
               k == IF sh[s].k = Len(Inputs(s)) THEN sh[s].k ELSE sh[s].k + 1
               pl == sh[s].point_list \o sh[s].current
               end == IF dirs[o].gnu.end = "complete" THEN dirs[o].gnu.end ELSE "rejected"
               g == [dirs[o].gnu EXCEPT !.end = end, !.refs = Append(@, Title(s))]
               x == [sh[s] EXCEPT !.point_list = pl, !.k = k, !.pc = c]
    <3>1. dirs' = [dirs EXCEPT ![o].gnu = g] /\ sh' = [sh EXCEPT ![s] = x]
      BY <2>3, <1>19 DEF AddDatFileReference
    <3>2. Append(dirs[o].gnu.refs, Title(s)) \in Seq(Apps)
      BY <2>3, <2>1, <1>7, <1>14 DEF Gnuplot
    <3>3. g \in Gnuplot  BY <3>2, <2>1, <1>7 DEF Gnuplot
    <3>5. dirs' \in [Dirs -> Directory] /\ PlotsKept /\ DocsKept(s)
      BY <3>1, <3>3, <1>15
    <3>6. pl \in Seq(Whole)  BY <1>1 DEF Fits
    <3>7. pl \in Seq(Dot)  BY <1>1 DEF Shell
    <3>8. k \in 1 .. Len(sh[s].cmd.input_dir) /\ k \in Nat
      BY <1>6 DEF Inputs, Args
    <3>9. c \in {"metainfo", "counts"}  OBVIOUS
    <3> HIDE DEF c, k, pl
    <3>10. x \in Shell  BY <3>7, <3>8, <3>9, <1>1 DEF Shell, Control
    <3>11. /\ x.pc = c /\ x.cmd = sh[s].cmd /\ x.k = k
           /\ x.current = sh[s].current /\ x.point_list = pl
      BY <1>1 DEF Shell
    <3>12. Fits(x)
      BY <1>1, <1>6, <3>6, <3>8, <3>9, <3>11 DEF Fits, RecordPcs, ErtPcs, ReportPcs, PlotPcs, LinesPcs, DatPcs
    <3>13. x.pc \in ReportPcs \ {"times"}  BY <3>9, <3>11 DEF PlotPcs, LinesPcs, DatPcs, ReportPcs
    <3> QED BY <3>1, <3>5, <3>10, <3>11, <3>12, <3>13, <2>1, <1>8, ReportMoves
  <2> QED BY <2>2, <2>3
\* The meta information of the output directory is written.
<1>20. ASSUME NEW m \in Seq(Apps), dirs' = [dirs EXCEPT ![o].meta = m]
       PROVE  dirs' \in [Dirs -> Directory] /\ PlotsKept /\ DocsKept(s)
  <2> DEFINE y == [dirs[o] EXCEPT !.meta = m]
  <2>1. y \in Directory /\ y.exists = dirs[o].exists /\ y.counts = dirs[o].counts
        /\ y.times = dirs[o].times /\ y.gnu = dirs[o].gnu
    BY <1>6 DEF Directory
  <2> QED BY <2>1, <1>20, <1>1, <1>6, DirChanged
<1>21. CASE TruncateMetainfo(s)
  <2> DEFINE raises == \E d \in Range(Inputs(s)) : dirs[d].meta = <<>>
  <2>1. CASE raises  BY <2>1, <1>1, <1>21, FilesLeft, Ends DEF TruncateMetainfo
  <2>2. CASE ~raises
    <3> DEFINE x == [sh[s] EXCEPT !.pc = "writemeta", !.meta = GetMetainfo(s)]
    <3>1. dirs' = [dirs EXCEPT ![o].meta = <<>>] /\ sh' = [sh EXCEPT ![s] = x]
      BY <2>2, <1>21 DEF TruncateMetainfo
    <3>2. GetMetainfo(s) \in Seq(Apps)
      <4> DEFINE in == sh[s].cmd.input_dir
                 others == [n \in 1 .. Len(in) - 1 |-> Head(dirs[in[n + 1]].meta)]
      <4>1. Len(in) \in Nat \ {0} /\ Head(in) \in Dirs  BY <1>6
      <4>2. ASSUME NEW n \in 1 .. Len(in) - 1 PROVE Head(dirs[in[n + 1]].meta) \in Apps
        <5>1. n + 1 \in DOMAIN in /\ in[n + 1] \in Dirs  BY <4>1, <4>2, <1>6
        <5>2. dirs[in[n + 1]].meta # <<>>
          BY <5>1, <2>2 DEF Range, Inputs, Args
        <5>3. dirs[in[n + 1]].meta \in Seq(Apps)  BY <5>1, <1>1 DEF Directory
        <5> QED BY <5>2, <5>3
      <4>3. others \in Seq(Apps)
        <5>1. others \in [1 .. Len(in) - 1 -> Apps]  BY <4>2
        <5>2. Len(in) - 1 \in Nat  BY <4>1
        <5> QED BY <5>1, <5>2, FunctionSequence
      <4>4. dirs[Head(in)].meta \in Seq(Apps)  BY <4>1, <1>1 DEF Directory
      <4>5. GetMetainfo(s) = dirs[Head(in)].meta \o others
        BY DEF GetMetainfo, GetAppTitle, Inputs, Args
      <4> HIDE DEF others
      <4>6. \A u, v \in Seq(Apps) : u \o v \in Seq(Apps)  OBVIOUS
      <4> QED BY <4>3, <4>4, <4>5, <4>6
    <3>3. dirs' \in [Dirs -> Directory] /\ PlotsKept /\ DocsKept(s)
      <4>1. <<>> \in Seq(Apps)  OBVIOUS
      <4> QED BY <4>1, <3>1, <1>20
    <3>4. x \in Shell  BY <3>2, <1>1 DEF Shell, Control
    <3>5. /\ x.pc = "writemeta" /\ x.cmd = sh[s].cmd /\ x.k = sh[s].k
          /\ x.current = sh[s].current /\ x.point_list = sh[s].point_list
      BY <1>1 DEF Shell
    <3>6. Fits(x)
      BY <1>1, <1>6, <3>5 DEF Fits, RecordPcs, ErtPcs, ReportPcs, PlotPcs, LinesPcs, DatPcs
    <3>7. sh[s].pc \in PlotPcs /\ "writemeta" \in ReportPcs \ {"times"}
      BY <1>21 DEF TruncateMetainfo, At, PlotPcs, LinesPcs, DatPcs, ReportPcs
    <3> QED BY <3>1, <3>3, <3>4, <3>5, <3>6, <3>7, <1>8, ReportMoves
  <2> QED BY <2>1, <2>2
<1>22. CASE WriteMetainfo(s)
  <2>1. dirs' = [dirs EXCEPT ![o].meta = sh[s].meta] /\ Goto(s, "labels")
    BY <1>22 DEF WriteMetainfo
  <2>2. sh[s].meta \in Seq(Apps)  BY <1>1 DEF Shell
  <2>3. dirs' \in [Dirs -> Directory] /\ PlotsKept /\ DocsKept(s)  BY <2>1, <2>2, <1>20
  <2>4. sh[s].pc \in PlotPcs /\ "labels" \in ReportPcs \ ({"times"} \cup DatPcs)
        /\ "labels" \notin LinesPcs
    BY <1>22 DEF WriteMetainfo, At, PlotPcs, LinesPcs, DatPcs, ReportPcs
  <2> QED BY <2>1, <2>3, <2>4, <1>6, <1>8, ReportGoes
<1>23. CASE AddPointLabels(s)
  <2> DEFINE l == {p.label : p \in Range(sh[s].point_list)}
             g == [dirs[o].gnu EXCEPT !.labels = @ \cup l]
  <2>1. dirs' = [dirs EXCEPT ![o].gnu = g] /\ Goto(s, "draw")  BY <1>23 DEF AddPointLabels
  <2>2. l \subseteq Labels
    <3>1. sh[s].point_list \in Seq(Dot)  BY <1>1 DEF Shell
    <3>2. Range(sh[s].point_list) \subseteq Dot  BY <3>1, RangeOfSequence
    <3> QED BY <3>2 DEF Dot
  <2>3. dirs[o].gnu \in Gnuplot  BY <1>7, <1>23 DEF AddPointLabels, At, PlotPcs
  <2> HIDE DEF l
  <2>4. g \in Gnuplot  BY <2>2, <2>3 DEF Gnuplot
  <2>5. "draw" \in ReportPcs \ ({"times"} \cup DatPcs) /\ "draw" \notin LinesPcs
    BY DEF PlotPcs, LinesPcs, DatPcs, ReportPcs
  <2> HIDE DEF g
  <2> QED BY <2>1, <2>4, <2>5, <1>6, <1>15, ReportGoes
<1>33. CASE Draw(s)
  BY <1>33, <1>1, FilesLeft, Ends DEF Draw, files
<1> QED
  BY <1>5, <1>9, <1>10, <1>11, <1>12, <1>13, <1>17, <1>18, <1>19, <1>21, <1>22, <1>23, <1>24,
     <1>25, <1>26, <1>29, <1>31, <1>32, <1>33
  DEF Report
-----------------------------------------------------------------------------
(***************************************************************************)
(* The steps of record_ert, of the shells, and the theorems.               *)
(***************************************************************************)
LEMMA ErtMoves ==
  ASSUME IInv, NEW s \in Shells, sh[s].pc \in ErtPcs, NEW c \in ErtPcs,
         NEW n \in Rooflines \cup {NoFile}, c = "move" => n \in Rooflines,
         sh' = [sh EXCEPT ![s].pc = c, ![s].name = n]
  PROVE  ShellStep(s) /\ Fits(sh'[s]) /\ HasPlot(s)' /\ OwnerStep(s) /\ ReadFrom(s)'
<1> DEFINE x == [sh[s] EXCEPT !.pc = c, !.name = n]
<1>1. TypeOK /\ sh[s] \in Shell /\ Fits(sh[s])  BY DEF IInv, TypeOK
<1>2. sh' = [sh EXCEPT ![s] = x] /\ x \in Shell
  <2>1. c \in Control  BY DEF Control, ErtPcs
  <2>2. x \in Shell  BY <2>1, <1>1 DEF Shell
  <2> QED BY <2>2
<1>3. /\ x.pc = c /\ x.cmd = sh[s].cmd /\ x.name = n
      /\ x.current = sh[s].current /\ x.point_list = sh[s].point_list
  BY <1>1 DEF Shell
<1>4. c \notin RecordPcs \cup ReportPcs \cup PlotPcs \cup {"args", "times"}
  BY DEF ErtPcs, RecordPcs, ReportPcs, PlotPcs, LinesPcs, DatPcs
<1>5. c \notin LinesPcs \cup DatPcs  BY DEF ErtPcs, LinesPcs, DatPcs
<1>6. Fits(x)  BY <1>1, <1>3, <1>4, <1>5 DEF Fits
<1>7. ShellStep(s) /\ sh'[s] = x  BY <1>1, <1>2, ShellChanged
<1> QED BY <1>3, <1>4, <1>6, <1>7
    DEF HasPlot, OwnerStep, Owns, OwnPcs, ReadFrom, At

\* To another step, with the variables as they are.
LEMMA ErtGoes ==
  ASSUME IInv, NEW s \in Shells, sh[s].pc \in ErtPcs, NEW c \in ErtPcs, c # "move",
         Goto(s, c)
  PROVE  ShellStep(s) /\ Fits(sh'[s]) /\ HasPlot(s)' /\ OwnerStep(s) /\ ReadFrom(s)'
<1>1. sh[s] \in Shell  BY DEF IInv, TypeOK
<1>2. sh[s].name \in Rooflines \cup {NoFile}
      /\ [sh[s] EXCEPT !.pc = c] = [sh[s] EXCEPT !.pc = c, !.name = sh[s].name]
  BY <1>1 DEF Shell
<1>3. sh' = [sh EXCEPT ![s].pc = c, ![s].name = sh[s].name]  BY <1>2 DEF Goto
<1> QED BY <1>2, <1>3, ErtMoves

\* Every step of record_ert.
LEMMA ErtKeeps ==
  ASSUME IInv, NEW s \in Shells, RecordErt(s)
  PROVE  Keeps(s)
<1>1. /\ TypeOK /\ sh[s] \in Shell /\ Fits(sh[s])
      /\ ert \in ErtFiles /\ rooflines \in [Rooflines -> Entry \cup {NoFile}]
  BY DEF IInv, TypeOK
<1>2. dirs' = dirs
  BY DEF RecordErt, CopyConfig, SetPrecision, ToolStarts, ToolEnds, FindDatabase,
         MakeDatabase, ReadHostname, ReadPrecision, MoveRoofline, files
<1>3. dirs' \in [Dirs -> Directory] /\ PlotsKept /\ DocsKept(s)  BY <1>1, <1>2, FilesLeft
<1>4. SUFFICES ASSUME sh[s].pc \in ErtPcs, sh[s].cmd \in ErtCommand, Id(s) \in Ids
               PROVE  /\ rooflines' \in [Rooflines -> Entry \cup {NoFile}] /\ ert' \in ErtFiles
                      /\ ShellStep(s) /\ Fits(sh'[s]) /\ HasPlot(s)' /\ OwnerStep(s) /\ ReadFrom(s)'
  <2>1. sh[s].pc \in ErtPcs
    BY DEF RecordErt, CopyConfig, SetPrecision, ToolStarts, ToolEnds, FindDatabase,
           MakeDatabase, ReadHostname, ReadPrecision, MoveRoofline, At, ErtPcs
  <2>2. sh[s].cmd \in ErtCommand  BY <2>1, <1>1 DEF Fits
  <2>3. Id(s) \in Ids  BY <1>1 DEF Id, Ids, Shell
  <2> QED BY <2>1, <2>2, <2>3, <1>3 DEF Keeps, FilesTyped
<1>5. {"precision", "ert", "measuring", "database", "makedb", "hostname", "name"}
        \subseteq ErtPcs \ {"move"}
  BY DEF ErtPcs
<1>6. Args(s).precision \in Rooflines  BY <1>4 DEF ErtCommand, Args
<1>7. CASE CopyConfig(s)
  <2>1. ert' \in ErtFiles /\ rooflines' = rooflines  BY <1>1, <1>7 DEF CopyConfig, ErtFiles
  <2> QED BY <2>1, <1>1, <1>4, <1>5, <1>7, ErtGoes DEF CopyConfig
<1>8. CASE SetPrecision(s)
  <2>1. ert' \in ErtFiles /\ rooflines' = rooflines
    BY <1>1, <1>6, <1>8 DEF SetPrecision, ErtFiles
  <2> QED BY <2>1, <1>1, <1>4, <1>5, <1>8, ErtGoes DEF SetPrecision
<1>9. CASE ToolStarts(s)
  <2>1. ert' \in ErtFiles /\ rooflines' = rooflines  BY <1>1, <1>9 DEF ToolStarts, ErtFiles
  <2>2. ert.config \in Rooflines \cup {NoFile}  BY <1>1 DEF ErtFiles
  <2>3. sh' = [sh EXCEPT ![s].pc = "measuring", ![s].name = ert.config]
    BY <1>9 DEF ToolStarts
  <2> QED BY <2>1, <2>2, <2>3, <1>1, <1>4, <1>5, ErtMoves
<1>10. CASE ToolEnds(s)
  <2>1. rooflines' = rooflines /\ sh' = [sh EXCEPT ![s].pc = "database", ![s].name = NoFile]
    BY <1>10 DEF ToolEnds
  <2>2. ert' \in ErtFiles
    <3>1. CASE UNCHANGED ert  BY <3>1, <1>1
    <3>2. ASSUME NEW p \in Rooflines,
                 ert' = [ert EXCEPT !.run = [by |-> Id(s), precision |-> p]]
          PROVE  ert' \in ErtFiles
      <4>1. [by |-> Id(s), precision |-> p] \in Roofline  BY <1>4, <3>2 DEF Roofline
      <4> QED BY <4>1, <3>2, <1>1 DEF ErtFiles
    <3> QED BY <3>1, <3>2, <1>10 DEF ToolEnds
  <2> QED BY <2>1, <2>2, <1>1, <1>4, <1>5, ErtMoves
<1>11. CASE FindDatabase(s)
  <2>1. ert' = ert /\ rooflines' = rooflines  BY <1>11 DEF FindDatabase, files
  <2>2. PICK c \in {"hostname", "makedb"} : Goto(s, c)  BY <1>11 DEF FindDatabase
  <2> QED BY <2>1, <2>2, <1>1, <1>4, <1>5, ErtGoes
<1>12. CASE MakeDatabase(s)
  <2>1. rooflines' = rooflines  BY <1>12 DEF MakeDatabase
  <2>2. CASE ert.db  BY <2>1, <2>2, <1>1, <1>12, Ends DEF MakeDatabase
  <2>3. CASE ~ert.db
    <3>1. ert' \in ErtFiles /\ Goto(s, "hostname")
      BY <2>3, <1>1, <1>12 DEF MakeDatabase, ErtFiles
    <3> QED BY <2>1, <3>1, <1>1, <1>4, <1>5, ErtGoes
  <2> QED BY <2>2, <2>3
<1>13. CASE ReadHostname(s)
  <2>1. ert' = ert /\ rooflines' = rooflines  BY <1>13 DEF ReadHostname, files
  <2>2. CASE Fail(s)  BY <2>1, <2>2, <1>1, Ends
  <2>3. CASE Goto(s, "name")  BY <2>1, <2>3, <1>1, <1>4, <1>5, ErtGoes
  <2> QED BY <2>2, <2>3, <1>13 DEF ReadHostname
<1>14. CASE ReadPrecision(s)
  <2>1. ert' = ert /\ rooflines' = rooflines  BY <1>14 DEF ReadPrecision, files
  <2>2. CASE Fail(s)  BY <2>1, <2>2, <1>1, Ends
  <2>3. CASE ~Fail(s)
    <3>1. /\ ert.run \notin {NoFile, Broken}
          /\ sh' = [sh EXCEPT ![s].pc = "move", ![s].name = EntryName(s)]
      BY <2>3, <1>14 DEF ReadPrecision
    <3>2. EntryName(s) \in Rooflines  BY <3>1, <1>1 DEF ErtFiles, Roofline, EntryName
    <3>3. "move" \in ErtPcs  BY DEF ErtPcs
    <3> QED BY <2>1, <3>1, <3>2, <3>3, <1>1, <1>4, ErtMoves
  <2> QED BY <2>2, <2>3
<1>15. CASE MoveRoofline(s)
  <2>1. CASE Fail(s) /\ UNCHANGED <<rooflines, ert>>
    BY <1>1, <2>1, Ends
  <2>2. CASE ~(Fail(s) /\ UNCHANGED <<rooflines, ert>>)
    <3> DEFINE n == sh[s].name
               e == IF rooflines[n] = NoFile THEN [gnu |-> ert.run, nested |-> NoFile]
                                             ELSE [rooflines[n] EXCEPT !.nested = ert.run]
    <3>1. /\ ert.run # NoFile /\ Return(s) /\ ert' = [ert EXCEPT !.run = NoFile]
          /\ rooflines' = [rooflines EXCEPT ![n] = e]
      BY <1>15, <2>2 DEF MoveRoofline
    <3>2. ert.run \in Roofline \cup {Broken} /\ n \in Rooflines
      BY <1>1, <1>15, <3>1 DEF ErtFiles, MoveRoofline, At, Fits
    <3>3. rooflines[n] \in Entry \cup {NoFile}  BY <1>1, <3>2
    <3>4. e \in Entry  BY <3>2, <3>3 DEF Entry
    <3>5. rooflines' \in [Rooflines -> Entry \cup {NoFile}]  BY <1>1, <3>1, <3>4
    <3>6. ert' \in ErtFiles  BY <1>1, <3>1 DEF ErtFiles
    <3> QED BY <3>1, <3>5, <3>6, Ends
  <2> QED BY <2>1, <2>2
<1> QED BY <1>7, <1>8, <1>9, <1>10, <1>11, <1>12, <1>13, <1>14, <1>15 DEF RecordErt

\* A user runs a command.
LEMMA BeginKeeps ==
  ASSUME IInv, NEW s \in Shells, Begin(s)
  PROVE  Keeps(s)
<1>1. TypeOK /\ sh[s] \in Shell /\ UNCHANGED files  BY DEF IInv, TypeOK, Begin
<1>2. FilesTyped /\ PlotsKept /\ DocsKept(s)
  BY <1>1, FilesLeft DEF files, FilesTyped, TypeOK
<1>3. PICK c \in Commands[s] :
        sh' = [sh EXCEPT ![s] = [AtRest EXCEPT !.pc = Entered(c), !.cmd = c,
                                               !.count = sh[s].count + 1]]
  BY DEF Begin
<1> DEFINE x == [AtRest EXCEPT !.pc = Entered(c), !.cmd = c, !.count = sh[s].count + 1]
<1>4. c \in Command  BY <1>3, CommandsAssumption
<1>5. /\ Entered(c) \in {"exists", "args", "template"}
      /\ Entered(c) = "exists" => c \in RecordCommand
      /\ Entered(c) = "args" => c \in ReportCommand
      /\ Entered(c) = "template" => c \in ErtCommand
  BY <1>4 DEF Entered, Command, RecordCommand, ReportCommand, ErtCommand
<1>6. sh[s].count + 1 \in Nat  BY <1>1 DEF Shell
<1>7. /\ <<>> \in Seq(Dot) /\ <<>> \in Seq(Apps) /\ <<>> \in Seq(Whole)
      /\ <<>> \in Seq(Roofline) /\ <<>> \in Seq(Program) /\ 1 \in 1 .. Len(CsvFiles)
  BY DEF CsvFiles
<1>8. x \in Shell  BY <1>4, <1>5, <1>6, <1>7 DEF Shell, AtRest, Control
<1>9. /\ x.pc = Entered(c) /\ x.cmd = c /\ x.k = 1
      /\ x.current = <<>> /\ x.point_list = <<>>
  BY DEF AtRest
<1>10. Fits(x)
  BY <1>5, <1>7, <1>9 DEF Fits, RecordPcs, ReportPcs, PlotPcs, LinesPcs, DatPcs, ErtPcs
<1>11. ShellStep(s) /\ sh'[s] = x  BY <1>1, <1>3, <1>8, ShellChanged
<1> QED BY <1>2, <1>5, <1>9, <1>10, <1>11
    DEF Keeps, HasPlot, PlotPcs, LinesPcs, DatPcs, OwnerStep, Owns, OwnPcs, RecordPcs, ReadFrom, At

\* A user kills one.
LEMMA KillKeeps ==
  ASSUME IInv, NEW s \in Shells, Kill(s)
  PROVE  Keeps(s)
<1>1. TypeOK /\ UNCHANGED files /\ Fail(s)  BY DEF IInv, Kill
<1>2. FilesTyped /\ PlotsKept /\ DocsKept(s)
  BY <1>1, FilesLeft DEF files, FilesTyped, TypeOK
<1> QED BY <1>1, <1>2, Ends DEF Keeps

\* The invariant at first.
LEMMA Begins ==
  ASSUME Init
  PROVE  IInv
<1>1. AtRest \in Shell
  <2>1. /\ <<>> \in Seq(Dot) /\ <<>> \in Seq(Apps)
        /\ <<>> \in Seq(Roofline) /\ <<>> \in Seq(Program)
    OBVIOUS
  <2> QED BY <2>1 DEF AtRest, Shell, Control
<1>2. TypeOK  BY <1>1, WorldAssumption DEF Init, TypeOK, ErtFiles
<1>3. \A s \in Shells : sh[s] = AtRest  BY DEF Init
<1>4. Fits(AtRest)
  <2>1. <<>> \in Seq(Whole)  OBVIOUS
  <2> QED BY <2>1 DEF AtRest, Fits, RecordPcs, ReportPcs, PlotPcs, LinesPcs, DatPcs, ErtPcs
<1>5. \A s \in Shells : sh[s].pc = "rest"  BY <1>3 DEF AtRest
<1>6. \A s \in Shells : ~Owns(s) /\ ~At(s, "times") /\ sh[s].pc \notin PlotPcs
  BY <1>5 DEF Owns, OwnPcs, RecordPcs, PlotPcs, LinesPcs, DatPcs, At
<1>7. \A d \in Dirs : OneRecording(d)
  BY RecordingsAssumption DEF Init, OneRecording, Docs, NoDirectory, IsDocument
<1> QED BY <1>2, <1>3, <1>4, <1>6, <1>7 DEF IInv, HasPlot, Owned, Owner, ReadFrom, SoleOwner

\* The invariant is inductive.
LEMMA Inductive ==
  ASSUME IInv, [Next]_vars
  PROVE  IInv'
<1>1. CASE UNCHANGED vars
  BY <1>1 DEF vars, files, IInv, TypeOK, Fits, HasPlot, Output_, Inputs, Args, Owned, Owner,
    OneRecording, Docs, ReadFrom, SoleOwner, Owns, OutDir, Input, Id, At
<1>2. ASSUME NEW s \in Shells, Begin(s) \/ Step(s) \/ Kill(s) PROVE IInv'
  BY <1>2, BeginKeeps, RecordKeeps, ReportKeeps, ErtKeeps, KillKeeps, KeepsIInv DEF Step
<1> QED BY <1>1, <1>2 DEF Next, Rest

(***************************************************************************)
(* Files and variables have their types, for every user and command: no    *)
(* command is at a step that another one's arguments belong to, a plot is  *)
(* a plot when it is added to, and the variables of a report are set when  *)
(* it uses them.                                                           *)
(***************************************************************************)
THEOREM ToolchainTypes == Spec => []TypeOK
<1>1. IInv => TypeOK  BY DEF IInv
<1> QED BY <1>1, Begins, Inductive, PTL DEF Spec

(***************************************************************************)
(* The counters and the time of every point that a report holds are of one *)
(* recording, although the report reads the two documents at different     *)
(* moments, while any number of other commands run, and may be killed, in  *)
(* the same directories.                                                   *)
(***************************************************************************)
THEOREM RecordingsNotMixed == Spec => []PointsBelongTogether
<1>1. ASSUME IInv, NEW s \in Shells, NEW p \in Range(sh[s].current \o sh[s].point_list)
      PROVE  p.counts = p.times
  <2>1. sh[s].current \in Seq(Whole) /\ sh[s].point_list \in Seq(Whole)
    BY <1>1 DEF IInv, Fits
  <2>2. sh[s].current \o sh[s].point_list \in Seq(Whole)  BY <2>1
  <2>3. p \in Whole  BY <1>1, <2>2, RangeOfSequence
  <2> QED BY <2>3 DEF Whole
<1>2. IInv => PointsBelongTogether  BY <1>1 DEF PointsBelongTogether
<1> QED BY <1>2, Begins, Inductive, PTL DEF Spec

-----------------------------------------------------------------------------
(***************************************************************************)
(* The database, if one user alone measures rooflines.                     *)
(***************************************************************************)
\* The only step that changes the database moves Run.001 to its place there, or
\* into an entry that is in its place.
LEMMA RooflinesChange ==
  ASSUME IInv, [Next]_vars, NEW r \in Rooflines, rooflines'[r] # rooflines[r]
  PROVE  \E s \in Shells :
           /\ At(s, "move") /\ sh[s].name = r /\ ert.run \in Roofline \cup {Broken}
           /\ rooflines'[r] # NoFile
           /\ \/ /\ rooflines[r] = NoFile
                 /\ rooflines'[r].gnu = ert.run /\ rooflines'[r].nested = NoFile
              \/ /\ rooflines[r] # NoFile
                 /\ rooflines'[r].gnu = rooflines[r].gnu /\ rooflines'[r].nested = ert.run
<1>1. \E s \in Shells : MoveRoofline(s)
  <2>1. ASSUME NEW s \in Shells, Record(s) PROVE UNCHANGED rooflines
    BY <2>1 DEF Record, CheckOutput, MakeDirs, SaveMeta, ClientStarts, ClientDoesNotStart,
      ClientEnds, NextRun, MoveTimes, ParseTimes, TimeApplication, EndAnalysis, SaveStatistics,
      Recorded, files
  <2>2. ASSUME NEW s \in Shells, Report(s) PROVE UNCHANGED rooflines
    BY <2>2 DEF Report, CheckoutInputArgs, MakeOutput, CopyEmptyRoofline,
      FillRoofline, ContinuePlot, TailLine, AppendLines, ReadCounts, ReadTimes,
      CreateDatFile, WritePoints, CopyDatFile, OpenDatFile, FillDatFile,
      AddDatFileReference, TruncateMetainfo, WriteMetainfo, AddPointLabels, Draw, files
  <2>3. ASSUME NEW s \in Shells, RecordErt(s), ~MoveRoofline(s) PROVE UNCHANGED rooflines
    BY <2>3 DEF RecordErt, CopyConfig, SetPrecision, ToolStarts, ToolEnds, FindDatabase,
      MakeDatabase, ReadHostname, ReadPrecision, files
  <2>4. ASSUME NEW s \in Shells, Begin(s) \/ Kill(s) PROVE UNCHANGED rooflines
    BY <2>4 DEF Begin, Kill, files
  <2> QED BY <2>1, <2>2, <2>3, <2>4 DEF Next, Step, Rest, vars, files
<1>2. PICK s \in Shells : MoveRoofline(s)  BY <1>1
<1> DEFINE n == sh[s].name
           e == IF rooflines[n] = NoFile THEN [gnu |-> ert.run, nested |-> NoFile]
                                         ELSE [rooflines[n] EXCEPT !.nested = ert.run]
<1>3. /\ At(s, "move") /\ ert.run # NoFile
      /\ rooflines' = [rooflines EXCEPT ![n] = e]
  BY <1>2 DEF MoveRoofline
<1>4. rooflines \in [Rooflines -> Entry \cup {NoFile}] /\ ert.run \in Roofline \cup {Broken}
  BY <1>3 DEF IInv, TypeOK, ErtFiles
<1>5. n = r /\ rooflines'[r] = e  BY <1>3, <1>4
<1>6. e \in Entry  BY <1>4, <1>5 DEF Entry
<1>7. e # NoFile  BY <1>6, FilesAssumption
<1>8. rooflines[r] = NoFile => e.gnu = ert.run /\ e.nested = NoFile  BY <1>5
<1>9. rooflines[r] # NoFile => e.gnu = rooflines[r].gnu /\ e.nested = ert.run
  BY <1>4, <1>5 DEF Entry
<1> HIDE DEF e
<1> QED BY <1>3, <1>4, <1>5, <1>7, <1>8, <1>9

\* Every command that runs in a shell is one of the shell's.
OwnCommands == \A s \in Shells : sh[s].cmd \in Commands[s] \cup {None}

\* A command stays the same up to its end.
LEMMA CommandStays ==
  ASSUME TypeOK, NEW s \in Shells, Step(s) \/ Kill(s)
  PROVE  sh'[s].cmd = sh[s].cmd
<1>0. sh \in [Shells -> Shell] /\ sh[s] \in Shell  BY DEF TypeOK
<1>1. \A c \in Control : Goto(s, c) => sh'[s].cmd = sh[s].cmd  BY <1>0 DEF Goto, Shell
<1>2. Fail(s) \/ Return(s) => sh'[s].cmd = sh[s].cmd  BY <1>0 DEF Fail, Return, Shell
<1>3. CASE Kill(s)  BY <1>2, <1>3 DEF Kill
<1>4. CASE Record(s)
  <2>1. CASE CheckOutput(s) \/ MakeDirs(s) \/ SaveMeta(s)
    BY <1>0, <1>2, <2>1 DEF CheckOutput, MakeDirs, SaveMeta, Goto, Shell
  <2>2. CASE ClientStarts(s) \/ ClientDoesNotStart(s) \/ ClientEnds(s)
    BY <1>0, <1>2, <2>2 DEF ClientStarts, ClientDoesNotStart, ClientEnds, Goto, Shell
  <2>3. CASE NextRun(s) \/ MoveTimes(s)
    BY <1>0, <1>2, <2>3 DEF NextRun, MoveTimes, Goto, Shell
  <2>4. CASE ParseTimes(s) \/ TimeApplication(s)
    BY <1>0, <1>2, <2>4 DEF ParseTimes, TimeApplication, Goto, Shell
  <2>5. CASE EndAnalysis(s) \/ SaveStatistics(s) \/ Recorded(s)
    BY <1>0, <1>2, <2>5 DEF EndAnalysis, SaveStatistics, Recorded, Goto, Shell
  <2> QED BY <1>4, <2>1, <2>2, <2>3, <2>4, <2>5 DEF Record
<1>5. CASE Report(s)
  <2>1. CASE CheckoutInputArgs(s) \/ MakeOutput(s) \/ CopyEmptyRoofline(s) \/ FillRoofline(s)
    BY <1>0, <1>2, <2>1
       DEF CheckoutInputArgs, MakeOutput, CopyEmptyRoofline, FillRoofline, Goto, Shell
  <2>2. CASE ContinuePlot(s) \/ TailLine(s) \/ AppendLines(s)
    BY <1>0, <1>2, <2>2 DEF ContinuePlot, TailLine, AppendLines, Goto, Shell
  <2>3. CASE ReadCounts(s) \/ ReadTimes(s)
    BY <1>0, <1>2, <2>3 DEF ReadCounts, ReadTimes, Shell
  <2>4. CASE CreateDatFile(s) \/ WritePoints(s) \/ CopyDatFile(s) \/ OpenDatFile(s)
    BY <1>0, <1>2, <2>4
       DEF CreateDatFile, WritePoints, CopyDatFile, OpenDatFile, Goto, Shell
  <2>5. CASE FillDatFile(s) \/ AddDatFileReference(s)
    BY <1>0, <1>2, <2>5 DEF FillDatFile, AddDatFileReference, Shell
  <2>6. CASE TruncateMetainfo(s) \/ WriteMetainfo(s) \/ AddPointLabels(s) \/ Draw(s)
    BY <1>0, <1>2, <2>6
       DEF TruncateMetainfo, WriteMetainfo, AddPointLabels, Draw, Goto, Shell
  <2> QED BY <1>5, <2>1, <2>2, <2>3, <2>4, <2>5, <2>6 DEF Report
<1>6. CASE RecordErt(s)
  <2>1. CASE CopyConfig(s) \/ SetPrecision(s) \/ ToolStarts(s) \/ ToolEnds(s)
    BY <1>0, <2>1 DEF CopyConfig, SetPrecision, ToolStarts, ToolEnds, Goto, Shell
  <2>2. CASE FindDatabase(s) \/ MakeDatabase(s) \/ ReadHostname(s)
    BY <1>0, <1>2, <2>2 DEF FindDatabase, MakeDatabase, ReadHostname, Goto, Shell
  <2>3. CASE ReadPrecision(s) \/ MoveRoofline(s)
    BY <1>0, <1>2, <2>3 DEF ReadPrecision, MoveRoofline, Shell
  <2> QED BY <1>6, <2>1, <2>2, <2>3 DEF RecordErt
<1> QED BY <1>3, <1>4, <1>5, <1>6 DEF Step

\* So every command that runs in a shell stays one of the shell's.
LEMMA OwnCommandsKept ==
  ASSUME IInv, OwnCommands, [Next]_vars
  PROVE  OwnCommands'
<1>1. CASE UNCHANGED vars  BY <1>1 DEF OwnCommands, vars
<1>2. ASSUME NEW u \in Shells, Begin(u) \/ Step(u) \/ Kill(u) PROVE OwnCommands'
  <2>1. Keeps(u)
    BY <1>2, BeginKeeps, RecordKeeps, ReportKeeps, ErtKeeps, KillKeeps DEF Step
  <2>2. \A s \in Shells : s # u => sh'[s].cmd = sh[s].cmd  BY <2>1 DEF Keeps, ShellStep
  <2>3. CASE Begin(u)
    <3>1. sh \in [Shells -> Shell]  BY DEF IInv, TypeOK
    <3>2. sh'[u].cmd \in Commands[u]  BY <2>3, <3>1 DEF Begin, AtRest
    <3> QED BY <2>2, <3>2 DEF OwnCommands
  <2>4. CASE ~Begin(u)
    <3>1. sh'[u].cmd = sh[u].cmd  BY <1>2, <2>4, CommandStays DEF IInv
    <3> QED BY <2>2, <3>1 DEF OwnCommands
  <2> QED BY <2>3, <2>4
<1> QED BY <1>1, <1>2 DEF Next, Rest

\* Whose record_ert has read a name finds Run.001 as it was.
NameRead ==
  \A s \in Shells :
    At(s, "move") => ert.run \in Roofline /\ ert.run.precision = sh[s].name

\* The files of the tool change in a step of record_ert only.
LEMMA ErtChanges ==
  ASSUME NEW s \in Shells, Begin(s) \/ Step(s) \/ Kill(s), ert' # ert
  PROVE  RecordErt(s) /\ sh[s].pc \in ErtPcs
<1>1. ~Record(s)
  BY DEF Record, CheckOutput, MakeDirs, SaveMeta, ClientStarts, ClientDoesNotStart,
    ClientEnds, NextRun, MoveTimes, ParseTimes, TimeApplication, EndAnalysis, SaveStatistics,
    Recorded, files
<1>2. ~Report(s)
  BY DEF Report, CheckoutInputArgs, MakeOutput, CopyEmptyRoofline,
    FillRoofline, ContinuePlot, TailLine, AppendLines, ReadCounts, ReadTimes,
    CreateDatFile, WritePoints, CopyDatFile, OpenDatFile, FillDatFile,
    AddDatFileReference, TruncateMetainfo, WriteMetainfo, AddPointLabels, Draw, files
<1>3. RecordErt(s)  BY <1>1, <1>2 DEF Begin, Kill, Step, files
<1>4. sh[s].pc \in ErtPcs
  BY <1>3 DEF RecordErt, CopyConfig, SetPrecision, ToolStarts, ToolEnds, FindDatabase,
         MakeDatabase, ReadHostname, ReadPrecision, MoveRoofline, At, ErtPcs
<1> QED BY <1>3, <1>4

\* A name has been read in the step before the move.
LEMMA NameJustRead ==
  ASSUME IInv, NEW s \in Shells, Begin(s) \/ Step(s) \/ Kill(s), At(s, "move")'
  PROVE  ReadPrecision(s)
<1>0. sh \in [Shells -> Shell] /\ sh[s] \in Shell /\ Fits(sh[s])  BY DEF IInv, TypeOK
<1>1. \A c \in Control : Goto(s, c) => sh'[s].pc = c  BY <1>0 DEF Goto, Shell
<1>2. Fail(s) \/ Return(s) => sh'[s].pc = "rest"  BY <1>0 DEF Fail, Return, Shell
<1>3. sh'[s].pc = "move"  BY DEF At
<1>4. ~Kill(s)  BY <1>2, <1>3 DEF Kill
<1>5. ~Begin(s)
  <2>1. \A c \in Commands[s] : Entered(c) # "move"  BY DEF Entered
  <2> QED BY <2>1, <1>0, <1>3 DEF Begin, AtRest
<1>6. sh'[s].cmd = sh[s].cmd  BY <1>4, <1>5, CommandStays DEF IInv
<1>7. sh'[s].cmd \in ErtCommand
  <2>1. Keeps(s)  BY BeginKeeps, RecordKeeps, ReportKeeps, ErtKeeps, KillKeeps DEF Step
  <2> QED BY <2>1, <1>3 DEF Keeps, Fits, ErtPcs
<1>8. sh[s].cmd \notin RecordCommand \cup ReportCommand
  BY <1>6, <1>7 DEF ErtCommand, RecordCommand, ReportCommand
<1>9. ~Record(s)
  <2>1. Record(s) => sh[s].pc \in RecordPcs
    BY DEF Record, CheckOutput, MakeDirs, SaveMeta, ClientStarts, ClientDoesNotStart,
      ClientEnds, NextRun, MoveTimes, ParseTimes, TimeApplication, EndAnalysis, SaveStatistics,
      Recorded, At, RecordPcs
  <2> QED BY <2>1, <1>0, <1>8 DEF Fits
<1>10. ~Report(s)
  <2>1. Report(s) => sh[s].pc \in ReportPcs \cup {"args"}
    BY DEF Report, CheckoutInputArgs, MakeOutput, CopyEmptyRoofline,
      FillRoofline, ContinuePlot, TailLine, AppendLines, ReadCounts, ReadTimes,
      CreateDatFile, WritePoints, CopyDatFile, OpenDatFile, FillDatFile,
      AddDatFileReference, TruncateMetainfo, WriteMetainfo, AddPointLabels, Draw, At,
      ReportPcs, PlotPcs, LinesPcs, DatPcs
  <2> QED BY <2>1, <1>0, <1>8 DEF Fits
<1>11. RecordErt(s)  BY <1>4, <1>5, <1>9, <1>10 DEF Step
<1>12. ~CopyConfig(s) /\ ~SetPrecision(s)
  BY <1>0, <1>3 DEF CopyConfig, SetPrecision, Goto, Shell
<1>13. ~ToolStarts(s) /\ ~ToolEnds(s)  BY <1>0, <1>3 DEF ToolStarts, ToolEnds, Shell
<1>14. ~FindDatabase(s) /\ ~MakeDatabase(s) /\ ~ReadHostname(s)
  BY <1>0, <1>2, <1>3 DEF FindDatabase, MakeDatabase, ReadHostname, Goto, Shell
<1>15. ~MoveRoofline(s)
  <2>1. MoveRoofline(s) => Fail(s) \/ Return(s)  BY DEF MoveRoofline
  <2> QED BY <2>1, <1>2, <1>3
<1> QED BY <1>11, <1>12, <1>13, <1>14, <1>15 DEF RecordErt

\* Nobody else changes Run.001 then.
LEMMA NameReadKept ==
  ASSUME OneErtShell, IInv, OwnCommands, NameRead, [Next]_vars
  PROVE  NameRead'
<1> SUFFICES ASSUME NEW s \in Shells, At(s, "move")'
             PROVE  ert'.run \in Roofline /\ ert'.run.precision = sh'[s].name
  BY DEF NameRead
<1>1. CASE UNCHANGED vars  BY <1>1 DEF NameRead, At, vars, files
<1>2. ASSUME NEW u \in Shells, Begin(u) \/ Step(u) \/ Kill(u)
      PROVE  ert'.run \in Roofline /\ ert'.run.precision = sh'[s].name
  <2>1. Keeps(u)
    BY <1>2, BeginKeeps, RecordKeeps, ReportKeeps, ErtKeeps, KillKeeps DEF Step
  <2>2. CASE u # s
    <3>1. At(s, "move") /\ sh'[s] = sh[s]  BY <2>1, <2>2 DEF Keeps, ShellStep, At
    <3>2. ASSUME ert' # ert PROVE FALSE
      <4>1. sh[u].pc \in ErtPcs  BY <1>2, <3>2, ErtChanges
      <4>2. sh[s].pc \in ErtPcs  BY <3>1 DEF At, ErtPcs
      <4>3. ASSUME NEW v \in Shells, sh[v].pc \in ErtPcs
            PROVE  \E c \in Commands[v] : c.cmd = "record_ert"
        <5>1. sh[v].cmd \in ErtCommand  BY <4>3 DEF IInv, Fits
        <5>2. sh[v].cmd.cmd = "record_ert"  BY <5>1 DEF ErtCommand
        <5>3. sh[v].cmd # None  BY <5>2 DEF None
        <5> QED BY <5>2, <5>3, <4>3 DEF OwnCommands
      <4> QED BY <4>1, <4>2, <4>3, <2>2 DEF OneErtShell
    <3> QED BY <3>1, <3>2 DEF NameRead
  <2>3. CASE u = s
    <3>1. ReadPrecision(s)  BY <1>2, <2>3, NameJustRead
    <3>2. ~Fail(s)
      BY DEF Fail, At, IInv, TypeOK, Shell
    <3>3. /\ ert.run \notin {NoFile, Broken} /\ ert' = ert
          /\ sh' = [sh EXCEPT ![s].pc = "move", ![s].name = EntryName(s)]
      BY <3>1, <3>2 DEF ReadPrecision, files
    <3>4. ert.run \in Roofline  BY <3>3 DEF IInv, TypeOK, ErtFiles
    <3>5. sh'[s].name = ert.run.precision  BY <3>3 DEF EntryName, IInv, TypeOK, Shell
    <3> QED BY <3>3, <3>4, <3>5
  <2> QED BY <2>2, <2>3
<1> QED BY <1>1, <1>2 DEF Next, Rest

\* What is moved into the database has the precision of its name.
LEMMA PrecisionsKept ==
  ASSUME IInv, NameRead, NameTellsPrecision, [Next]_vars
  PROVE  NameTellsPrecision'
<1> SUFFICES ASSUME NEW r \in Rooflines, rooflines'[r] # NoFile
             PROVE  InPlace(rooflines', r)
  BY DEF NameTellsPrecision, InPlace
<1>1. CASE rooflines'[r] = rooflines[r]
  BY <1>1 DEF NameTellsPrecision, InPlace
<1>2. CASE rooflines'[r] # rooflines[r]
  <2>1. PICK s \in Shells :
          /\ At(s, "move") /\ sh[s].name = r
          /\ \/ /\ rooflines[r] = NoFile
                /\ rooflines'[r].gnu = ert.run /\ rooflines'[r].nested = NoFile
             \/ /\ rooflines[r] # NoFile
                /\ rooflines'[r].gnu = rooflines[r].gnu /\ rooflines'[r].nested = ert.run
    BY <1>2, RooflinesChange
  <2>2. ert.run \in Roofline /\ ert.run.precision = r  BY <2>1 DEF NameRead
  <2>3. ert.run # Broken  BY <2>2, FilesAssumption
  <2>4. rooflines[r] # NoFile => rooflines[r].gnu # Broken /\ rooflines[r].gnu.precision = r
    BY DEF NameTellsPrecision, InPlace
  <2> QED BY <2>1, <2>2, <2>3, <2>4 DEF InPlace
<1> QED BY <1>1, <1>2

\* At first nobody measures, and the database is as record_ert has left it.
LEMMA PrecisionsBegin ==
  ASSUME Init
  PROVE  OwnCommands /\ NameRead /\ NameTellsPrecision
<1>1. \A s \in Shells : sh[s] = AtRest  BY DEF Init
<1>2. OwnCommands /\ NameRead  BY <1>1 DEF AtRest, OwnCommands, NameRead, At
<1>3. NameTellsPrecision
  BY RooflinesAssumption DEF Init, NameTellsPrecision, InPlace
<1> QED BY <1>2, <1>3

(***************************************************************************)
(* If one user alone measures rooflines, every directory of the database   *)
(* has a roofline of the precision that its name tells: also when the tool *)
(* failed or was killed in an earlier record_ert and left Run.001, and     *)
(* whatever other users record and report meanwhile.                       *)
(***************************************************************************)
THEOREM NamesTellPrecisions == ASSUME OneErtShell PROVE Spec => []NameTellsPrecision
<1> DEFINE Inv == IInv /\ OwnCommands /\ NameRead /\ NameTellsPrecision
<1>1. Init => Inv  BY Begins, PrecisionsBegin
<1>2. Inv /\ [Next]_vars => Inv'
  BY Inductive, OwnCommandsKept, NameReadKept, PrecisionsKept
<1>3. Inv => NameTellsPrecision  OBVIOUS
<1> QED BY <1>1, <1>2, <1>3, PTL DEF Spec
=============================================================================
