------------------------------ MODULE Toolchain ------------------------------
(***************************************************************************)
(* roofline.py as its users run it: in every shell one command after the   *)
(* other, each a process that may be killed at any step, over the same     *)
(* directories and the same database of rooflines.                         *)
(***************************************************************************)
EXTENDS Recorder, Report, ErtDatabase

IsDocument(f) == f \notin {NoFile, Broken}
\* A report of other recordings may be told to go to directory d: it then
\* replaces the meta information there by theirs.
Retitled(d) ==
  \E s \in Shells : \E c \in Commands[s] :
    c.cmd = "report" /\ c.output_dir = d /\ Head(c.input_dir) # d

\* The directories are as earlier commands leave them: what one has recorded
\* is in a directory of its own, under its title ...
ASSUME RecordingsAssumption ==
  \A d \in Dirs : LET y == InitialDirs[d] IN
    /\ y.exists \/ y = NoDirectory
    /\ \A f, g \in {y.counts, y.times} : IsDocument(f) /\ IsDocument(g) => f.by = g.by
    /\ IsDocument(y.counts) /\ y.meta # <<>> /\ ~Retitled(d) => Head(y.meta) = y.counts.app
\* ... and told apart from what any other command records, ...
ToCome == Shells \X (1 .. MaxCommands)
ASSUME IdsAssumption ==
  \A d \in Dirs : LET f == InitialDirs[d].counts IN IsDocument(f) =>
    /\ f.by \notin ToCome
    /\ \A e \in Dirs : LET g == InitialDirs[e].counts IN IsDocument(g) /\ f.by = g.by => d = e
\* ... in the .dat files, too.
ASSUME DotsAssumption ==
  \A d \in Dirs, x \in Apps : InitialDirs[d].dat[x] # NoFile =>
    \A dot \in Range(InitialDirs[d].dat[x]) :
      /\ dot.counts \notin ToCome
      /\ \A e \in Dirs : LET f == InitialDirs[e].counts IN
           IsDocument(f) /\ ~Retitled(e) /\ dot.counts = f.by => dot.app = x
\* A roofline of the database is there, has the precision that its name tells,
\* and so has one that has been moved into its directory.
InPlace(db, r) ==
  /\ db[r].gnu # Broken /\ db[r].gnu.precision = r
  /\ db[r].nested # NoFile => db[r].nested # Broken /\ db[r].nested.precision = r
\* And the rooflines of the database have been put there by record_ert.
ASSUME RooflinesAssumption ==
  \A r \in Rooflines : InitialRooflines[r] # NoFile => InPlace(InitialRooflines, r)

Init ==
  /\ dirs = InitialDirs
  /\ rooflines = InitialRooflines
  /\ ert = [config |-> NoFile, run |-> NoFile,
            db |-> \E r \in Rooflines : InitialRooflines[r] # NoFile]
  /\ sh = [s \in Shells |-> AtRest]

\* main: the command line is parsed and its function called.
Entered(c) == IF c.cmd = "record" THEN "exists"
              ELSE IF c.cmd = "report" THEN "args" ELSE "template"
Begin(s) ==
  /\ At(s, "rest") /\ sh[s].count < MaxCommands
  /\ \E c \in Commands[s] :
       sh' = [sh EXCEPT ![s] = [AtRest EXCEPT !.pc = Entered(c), !.cmd = c,
                                              !.count = sh[s].count + 1]]
  /\ UNCHANGED files

Step(s) == Record(s) \/ Report(s) \/ RecordErt(s)

\* The process, and the client run under it, is killed.
Kill(s) == ~At(s, "rest") /\ Fail(s) /\ UNCHANGED files

\* Nobody runs anything more.
Rest == (\A s \in Shells : At(s, "rest")) /\ UNCHANGED vars

Next == (\E s \in Shells : Begin(s) \/ Step(s) \/ Kill(s)) \/ Rest

\* A command goes on as long as it can: what it waits for, the client and
\* the tool, ends.
Fairness == \A s \in Shells : WF_vars(Step(s))
Spec == Init /\ [][Next]_vars /\ Fairness
-----------------------------------------------------------------------------
Done(s, cmd) == sh[s].result = "done" /\ Args(s).cmd = cmd
Plot(s) == dirs[Output_(s)].gnu

(***************************************************************************)
(* The counters and the time of a point that a report combines are from    *)
(* one recording, although they are read at different moments and several  *)
(* recordings may be made for the same name of a directory.                *)
(***************************************************************************)
PointsBelongTogether ==
  \A s \in Shells : \A p \in Range(sh[s].current \o sh[s].point_list) : p.counts = p.times

(***************************************************************************)
(* A time analysis that ends normally has kept as many timing documents as *)
(* it was asked for, each written by a different run of its client,        *)
(* although runs may fail and nobody looks at how they ended.              *)
(***************************************************************************)
AnalysisKeepsTimes ==
  \A s \in Shells : Done(s, "record") /\ ~OneRunOnly(s) /\ Analysis(s) > 1 =>
    LET saved == dirs[OutDir(s)].saved
    IN /\ Len(saved) = Analysis(s)
       /\ \A i, j \in DOMAIN saved :
            saved[i].by = Id(s) /\ (saved[i].run = saved[j].run => i = j)

(***************************************************************************)
(* A completed roofline.xml is final: nobody writes it again or removes    *)
(* it, also when other users record into a directory of the same name, or  *)
(* reports write into it.                                                  *)
(***************************************************************************)
CountersFinal ==
  [][\A d \in Dirs : IsDocument(dirs[d].counts) => dirs'[d].counts = dirs[d].counts]_vars

(***************************************************************************)
(* Whatever else has been written into a recording's directory, the first  *)
(* application of its meta information is the one it recorded: the next    *)
(* report takes its title from there.  Reports of other recordings that    *)
(* are sent to this directory are the exception.                           *)
(***************************************************************************)
MetaNamesTheApp ==
  \A d \in Dirs : IsDocument(dirs[d].counts) /\ dirs[d].meta # <<>> /\ ~Retitled(d) =>
    Head(dirs[d].meta) = dirs[d].counts.app

(***************************************************************************)
(* The points plotted under an application's title are that application's, *)
(* also in a directory where several reports have left their .dat files,   *)
(* as long as their recordings' directories have kept their titles.        *)
(***************************************************************************)
DotsAreRecorded ==
  \A d, e \in Dirs, x \in Apps :
    dirs[d].dat[x] # NoFile /\ IsDocument(dirs[e].counts) /\ ~Retitled(e) =>
    \A dot \in Range(dirs[d].dat[x]) : dot.counts = dirs[e].counts.by => dot.app = x

(***************************************************************************)
(* The plot of a report that ends normally carries the label of every      *)
(* point of every input.                                                   *)
(***************************************************************************)
LabelsComplete ==
  \A s \in Shells : Done(s, "report") =>
    \A i \in DOMAIN Inputs(s) :
      Range(dirs[Inputs(s)[i]].counts.labels) \subseteq Plot(s).labels

(***************************************************************************)
(* A report that ends normally has drawn its plot, with the rooflines that *)
(* the database has under the names asked for, if the further ones of them *)
(* have been there since before the report; the first may have come since. *)
(***************************************************************************)
FurtherLines(s) == {Lines(s)[i] : i \in 2 .. Len(Lines(s))}
LinesShown ==
  \A s \in Shells :
    Done(s, "report") /\ (\A l \in FurtherLines(s) : InitialRooflines[l] # NoFile) =>
      /\ Draws(Plot(s))
      /\ \A l \in Range(Lines(s)) : rooflines[l].gnu \in Range(Plot(s).lines)

\* Only one user measures rooflines.
OneErtShell ==
  \A s, t \in Shells :
    /\ \E c \in Commands[s] : c.cmd = "record_ert"
    /\ \E c \in Commands[t] : c.cmd = "record_ert"
    => s = t
(***************************************************************************)
(* A directory of the database has a roofline, of the precision that its   *)
(* name tells, also when Run.001 was left by an earlier run of the tool    *)
(* that failed or was killed; if one user alone measures rooflines.        *)
(***************************************************************************)
NameTellsPrecision == \A r \in Rooflines : rooflines[r] # NoFile => InPlace(rooflines, r)

(***************************************************************************)
(* Every command ends, whatever the other shells do and however often the  *)
(* client fails to start or to complete its document.                      *)
(***************************************************************************)
CommandEnds == \A s \in Shells : ~At(s, "rest") ~> At(s, "rest")

(***************************************************************************)
(* What documents and comments say that the code does not do in general.   *)
(***************************************************************************)

(***************************************************************************)
(* Every input of a report is plotted: its points are among the dots of    *)
(* the output directory (README.md, "Multiple -i or -line targets").       *)
(***************************************************************************)
EveryInputPlotted ==
  \A s \in Shells : Done(s, "report") =>
    \A i \in DOMAIN Inputs(s) :
      \E x \in Range(Plot(s).refs) :
        \A n \in DOMAIN dirs[Inputs(s)[i]].counts.labels :
          \E p \in Range(dirs[Output_(s)].dat[x]) :
            /\ p.label = dirs[Inputs(s)[i]].counts.labels[n]
            /\ p.counts = dirs[Inputs(s)[i]].counts.by

(***************************************************************************)
(* A record_ert that ends normally has put the roofline that it measured   *)
(* in the database under its name (the comment before the move).           *)
(***************************************************************************)
RooflineInPlace ==
  \A s \in Shells : Done(s, "record_ert") =>
    \E r \in Rooflines : HasRoofline(r) /\ rooflines[r].gnu.by = Id(s)
=============================================================================
