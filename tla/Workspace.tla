------------------------------ MODULE Workspace ------------------------------
(***************************************************************************)
(* What the commands of roofline.py work on: the directories of recordings *)
(* and reports, the database of rooflines, the output of the Empirical     *)
(* Roofline Tool, and the shells in which the commands run.  Recorder,     *)
(* Report and ErtDatabase extend this module with the steps of the         *)
(* commands; Toolchain composes them.                                      *)
(*                                                                         *)
(* A file is NoFile, Broken (an XML document that does not parse: the      *)
(* client is still writing it, was killed, or wrote one document for each  *)
(* of several threads) or its content.  An application is named by its     *)
(* command line, which is also the title of its points; blanks that the    *)
(* title turns into underscores are left out.                              *)
(***************************************************************************)
EXTENDS Integers, Sequences, SequencesExt, FiniteSets

CONSTANTS
  Shells,        \* where users run commands of roofline.py
  Dirs,          \* names of directories
  Apps,          \* target applications, with their arguments
  PathApps,      \* those whose command line has a "/"
  Rooflines,     \* names <HOSTNAME>_<PRECISION> of the database
  Labels,        \* labels of regions of interest
  Commands,      \* Commands[s]: the commands that may be run in shell s
  MaxCommands,   \* bound: commands run in one shell
  Outcomes,      \* what a run of the client may write
  InitialDirs, InitialRooflines,   \* what earlier commands have left
  NoFile, Broken, NoDir

None == [cmd |-> "none"]
RecordCommand == [cmd : {"record"}, app : Apps, output : Dirs, flops_only : BOOLEAN,
                  time_only : BOOLEAN, run_time_analysis : Nat]
ReportCommand == [cmd : {"report"}, input_dir : Seq(Dirs), line : Seq(Rooflines),
                  output_dir : Dirs \cup {NoDir}]
ErtCommand == [cmd : {"record_ert"}, precision : Rooflines]
Command == RecordCommand \cup ReportCommand \cup ErtCommand

\* A recording, or a roofline, is known by the command that made it.
Ids == Shells \X Nat

(***************************************************************************)
(* A document that a run of the client has completed: the labels of its    *)
(* points in order, and those with no bytes (or, in a timing run, with no  *)
(* time).                                                                  *)
(***************************************************************************)
Outcome == [labels : Seq(Labels), zero : SUBSET Labels]
Document == [by : Ids, run : Nat, app : Apps, labels : Seq(Labels), zero : SUBSET Labels]

\* A point as plotted: its application, and the recordings that its counters
\* and its time are from.
Dot == [label : Labels, app : Apps, counts : Ids, times : Ids]
Roofline == [by : Ids, precision : Rooflines]
\* roofline.gnu.  Its plot command is not there yet, is complete, ends in ",\"
\* and goes on with what comes next, or is one that gnuplot rejects.
Gnuplot == [end : {"empty", "complete", "continued", "rejected"},
            lines : Seq(Roofline), refs : Seq(Apps), labels : SUBSET Labels]
\* The .csv files, with the programs whose runs they have times of.
Program == {<<"app">>, <<"drrun", "app">>, <<"drrun", "-c", "app">>}
CsvFiles == <<"roi_runtime", "native_runtime", "dynamorio_runtime",
              "dynamorio_and_client_runtime">>
Statistics == [Range(CsvFiles) -> Seq(Program) \cup {NoFile}]

Directory ==
  [exists : BOOLEAN,
   meta : Seq(Apps),                            \* roofline_meta.xml, <<>> if none
   counts : Document \cup {NoFile, Broken},     \* roofline.xml
   times : Document \cup {NoFile, Broken},      \* roofline_time.xml
   saved : Seq(Document \cup {Broken}),         \* roofline_time_<i>.xml
   csv : Statistics,                            \* <file>.csv
   dat : [Apps -> Seq(Dot) \cup {NoFile}],      \* <title>.dat
   gnu : Gnuplot \cup {NoFile}]                 \* roofline.gnu
NoDirectory == [exists |-> FALSE, meta |-> <<>>, counts |-> NoFile, times |-> NoFile,
                saved |-> <<>>, csv |-> [f \in Range(CsvFiles) |-> NoFile],
                dat |-> [x \in Apps |-> NoFile], gnu |-> NoFile]

\* A directory of the database: its roofline, and one moved into it.  Broken is
\* output of the tool that has no roofline.gnu.
Entry == [gnu : Roofline \cup {Broken}, nested : Roofline \cup {NoFile, Broken}]
\* What record_ert and the tool work on: roofline_config (NoFile if it has no
\* precision of a command yet), Roofline/Run.001, and whether there is a
\* database.
ErtFiles == [config : Rooflines \cup {NoFile}, run : Roofline \cup {NoFile, Broken}, db : BOOLEAN]

\* A missing file and one that does not parse are different, and no content.
ASSUME FilesAssumption ==
  /\ NoFile # Broken
  /\ \A f \in {NoFile, Broken} :
       f \notin Document /\ f \notin Roofline /\ f \notin Entry /\ f \notin Rooflines
ASSUME CommandsAssumption == Commands \in [Shells -> SUBSET Command]
ASSUME WorldAssumption ==
  /\ PathApps \subseteq Apps /\ MaxCommands \in Nat
  /\ Outcomes \subseteq Outcome
  /\ InitialDirs \in [Dirs -> Directory]
  /\ InitialRooflines \in [Rooflines -> Entry \cup {NoFile}]

VARIABLES
  dirs,       \* dirs[d]: the directory called d
  rooflines,  \* rooflines[r]: the entry of the database called r
  ert,        \* the files of the tool
  sh          \* sh[s]: the command running in s and its variables

files == <<dirs, rooflines, ert>>
vars == <<files, sh>>

Control == {"rest", "exists", "makedirs", "meta", "client", "running", "ran", "statistics",
            "timing", "csv",
            "args", "makeout", "empty", "roofline", "continue", "tail", "append", "counts",
            "times", "dat", "points", "copy", "open", "fill", "refs", "metainfo", "writemeta",
            "labels", "draw",
            "template", "precision", "ert", "measuring", "database", "makedb", "hostname",
            "name", "move"}
Shell == [pc : Control, cmd : Command \cup {None}, count : Nat,
          result : {"none", "done", "failed"},
          runs : Nat,                          \* client runs started
          native : Seq(Program), dynamorio : Seq(Program),   \* timed without the client
          k : Nat,            \* the input being reported, the .csv file being written
          source : Seq(Roofline),              \* the roofline read from the database
          read : Document \cup {NoFile},       \* the input's roofline.xml
          current : Seq(Dot), point_list : Seq(Dot),
          title : Seq(Apps), meta : Seq(Apps),
          name : Rooflines \cup {NoFile}]      \* what the tool measures; the name read
AtRest == [pc |-> "rest", cmd |-> None, count |-> 0, result |-> "none", runs |-> 0,
           native |-> <<>>, dynamorio |-> <<>>, k |-> 1, source |-> <<>>, read |-> NoFile,
           current |-> <<>>, point_list |-> <<>>, title |-> <<>>, meta |-> <<>>,
           name |-> NoFile]

TypeOK ==
  /\ dirs \in [Dirs -> Directory]
  /\ rooflines \in [Rooflines -> Entry \cup {NoFile}]
  /\ ert \in ErtFiles
  /\ sh \in [Shells -> Shell]
-----------------------------------------------------------------------------
At(s, pc) == sh[s].pc = pc
Args(s) == sh[s].cmd
Id(s) == <<s, sh[s].count>>

Goto(s, pc) == sh' = [sh EXCEPT ![s].pc = pc]
\* The process ends: normally, or by sys.exit or an exception.
Return(s) == sh' = [sh EXCEPT ![s].pc = "rest", ![s].result = "done"]
Fail(s) == sh' = [sh EXCEPT ![s].pc = "rest", ![s].result = "failed"]
=============================================================================
