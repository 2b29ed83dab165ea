------------------------------- MODULE Recorder -------------------------------
(***************************************************************************)
(* roofline.py record: makes a new directory and runs the client in it,    *)
(* once for the counters and once, or many times, for the time.  The exit  *)
(* status of a client run is not looked at.                                *)
(***************************************************************************)
EXTENDS Workspace

OutDir(s) == Args(s).output
Analysis(s) == Args(s).run_time_analysis
\* The client run that comes next, or runs, is the one for the counters.
Counting(s, run) == run = 1 /\ (Args(s).flops_only \/ ~Args(s).time_only)

\* record: the output directory must not exist ...
CheckOutput(s) ==
  /\ At(s, "exists")
  /\ IF dirs[OutDir(s)].exists THEN Fail(s) ELSE Goto(s, "makedirs")
  /\ UNCHANGED files

\* makedirs as it would be with exist_ok.
MakeDirs_ExistOk(s) ==
  /\ At(s, "makedirs")
  /\ Goto(s, "meta") /\ dirs' = [dirs EXCEPT ![OutDir(s)].exists = TRUE]
  /\ UNCHANGED <<rooflines, ert>>

\* ... and os.makedirs raises if another command has made it since.
MakeDirs(s) ==
  /\ At(s, "makedirs")
  /\ IF dirs[OutDir(s)].exists
     THEN Fail(s) /\ UNCHANGED dirs
     ELSE Goto(s, "meta") /\ dirs' = [dirs EXCEPT ![OutDir(s)].exists = TRUE]
  /\ UNCHANGED <<rooflines, ert>>

\* save_meta_information
SaveMeta(s) ==
  /\ At(s, "meta")
  /\ dirs' = [dirs EXCEPT ![OutDir(s)].meta = <<Args(s).app>>]
  /\ Goto(s, "client")
  /\ UNCHANGED <<rooflines, ert>>
-----------------------------------------------------------------------------
SetOutput(s, run, content) ==
  dirs' = IF Counting(s, run) THEN [dirs EXCEPT ![OutDir(s)].counts = content]
                              ELSE [dirs EXCEPT ![OutDir(s)].times = content]

\* run_client: drrun starts the application with the client, which opens its
\* file for overwriting; or nothing starts.
ClientStarts(s) ==
  /\ At(s, "client")
  /\ SetOutput(s, sh[s].runs + 1, Broken)
  /\ sh' = [sh EXCEPT ![s].pc = "running", ![s].runs = @ + 1]
  /\ UNCHANGED <<rooflines, ert>>

ClientDoesNotStart(s) ==
  /\ At(s, "client")
  /\ sh' = [sh EXCEPT ![s].pc = "ran", ![s].runs = @ + 1]
  /\ UNCHANGED files

\* The application ends, and the client completes its document or does not.
ClientEnds(s) ==
  /\ At(s, "running")
  /\ \/ \E o \in Outcomes :
          SetOutput(s, sh[s].runs,
            [by |-> Id(s), run |-> sh[s].runs, app |-> Args(s).app,
             labels |-> o.labels, zero |-> o.zero])
     \/ UNCHANGED dirs
  /\ Goto(s, "ran")
  /\ UNCHANGED <<rooflines, ert>>
-----------------------------------------------------------------------------
(***************************************************************************)
(* run_roofline_client after a client run: which run comes next.  Only the *)
(* runs of the first loop of run_time_analysis are moved away.             *)
(***************************************************************************)
OneRunOnly(s) == Args(s).flops_only \/ Args(s).time_only
InFirstLoop(s) ==
  ~OneRunOnly(s) /\ Analysis(s) > 1 /\ sh[s].runs \in 2 .. Analysis(s) + 1
LastRun(s) == IF OneRunOnly(s) THEN 1
              ELSE IF Analysis(s) > 1 THEN 2 * Analysis(s) + 1 ELSE 2

Output(s) == LET d == dirs[OutDir(s)]
             IN IF Counting(s, sh[s].runs) THEN d.counts ELSE d.times

\* The next run as it would be if one that left no document were repeated.
NextRun_Retries(s) ==
  /\ At(s, "ran") /\ ~InFirstLoop(s)
  /\ LET again == Output(s) \in {NoFile, Broken} IN
     /\ sh[s].runs < LastRun(s) \/ again
     /\ sh' = [sh EXCEPT ![s].pc = "client", ![s].runs = IF again THEN @ - 1 ELSE @]
  /\ UNCHANGED files

NextRun(s) ==
  /\ At(s, "ran") /\ sh[s].runs < LastRun(s) /\ ~InFirstLoop(s)
  /\ Goto(s, "client")
  /\ UNCHANGED files

\* move(roofline_time.xml, roofline_time_<i>.xml) as it would be if it copied.
MoveTimes_Copies(s) ==
  /\ At(s, "ran") /\ InFirstLoop(s)
  /\ LET d == OutDir(s) IN
     IF dirs[d].times = NoFile THEN Fail(s) /\ UNCHANGED dirs
     ELSE /\ dirs' = [dirs EXCEPT ![d].saved = Append(@, dirs[d].times)]
          /\ Goto(s, IF sh[s].runs = Analysis(s) + 1 THEN "statistics" ELSE "client")
  /\ UNCHANGED <<rooflines, ert>>

\* move as it would be if a document that is not there were no error.
MoveTimes_Unchecked(s) ==
  /\ At(s, "ran") /\ InFirstLoop(s)
  /\ LET d == OutDir(s) IN
     dirs' = [dirs EXCEPT ![d].saved = Append(@, dirs[d].times), ![d].times = NoFile]
  /\ Goto(s, IF sh[s].runs = Analysis(s) + 1 THEN "statistics" ELSE "client")
  /\ UNCHANGED <<rooflines, ert>>

\* run_time_analysis, end of an iteration of the first loop: the file is moved
\* out of the way; move raises if the run has not made one.
MoveTimes(s) ==
  /\ At(s, "ran") /\ InFirstLoop(s)
  /\ LET d == OutDir(s) IN
     IF dirs[d].times = NoFile THEN Fail(s) /\ UNCHANGED dirs
     ELSE /\ dirs' = [dirs EXCEPT ![d].saved = Append(@, dirs[d].times),
                                  ![d].times = NoFile]
          /\ Goto(s, IF sh[s].runs = Analysis(s) + 1 THEN "statistics" ELSE "client")
  /\ UNCHANGED <<rooflines, ert>>

\* The moved documents are parsed for the time of every point.
ParseTimes(s) ==
  /\ At(s, "statistics")
  /\ IF Broken \in Range(dirs[OutDir(s)].saved) THEN Fail(s) ELSE Goto(s, "timing")
  /\ UNCHANGED files

\* get_time_info: the program it runs under the given settings.  The
\* condition is the wrong way round.
GetTimeInfo(settings) == IF settings # <<>> THEN <<"app">> ELSE settings \o <<"app">>

\* The application is run without the client, first under no settings and then
\* under drrun.
TimeApplication(s) ==
  /\ At(s, "timing")
  /\ IF Len(sh[s].native) < Analysis(s)
     THEN sh' = [sh EXCEPT ![s].native = Append(@, GetTimeInfo(<<>>))]
     ELSE sh' = [sh EXCEPT ![s].dynamorio = Append(@, GetTimeInfo(<<"drrun">>)),
                           ![s].pc = IF Len(sh[s].dynamorio) + 1 = Analysis(s)
                                     THEN "client" ELSE @]
  /\ UNCHANGED files

\* The last client run of an analysis is over.
EndAnalysis(s) ==
  /\ At(s, "ran") /\ ~OneRunOnly(s) /\ Analysis(s) > 1 /\ sh[s].runs = LastRun(s)
  /\ Goto(s, "csv")
  /\ UNCHANGED files

\* The programs whose times a .csv file gets.
Timed(s, file) ==
  IF file = "native_runtime" THEN sh[s].native
  ELSE IF file = "dynamorio_runtime" THEN sh[s].dynamorio
  ELSE [i \in 1 .. Analysis(s) |-> <<"drrun", "-c", "app">>]

\* save_time_point_statistics and save_time_statistics, one file after the other.
SaveStatistics(s) ==
  /\ At(s, "csv")
  /\ LET file == CsvFiles[sh[s].k]
     IN dirs' = [dirs EXCEPT ![OutDir(s)].csv[file] = Timed(s, file)]
  /\ IF sh[s].k = Len(CsvFiles) THEN Return(s) ELSE sh' = [sh EXCEPT ![s].k = @ + 1]
  /\ UNCHANGED <<rooflines, ert>>

\* Any other recording ends with its last client run.
Recorded(s) ==
  /\ At(s, "ran") /\ sh[s].runs = LastRun(s) /\ (OneRunOnly(s) \/ Analysis(s) <= 1)
  /\ Return(s)
  /\ UNCHANGED files

Record(s) ==
  \/ CheckOutput(s) \/ MakeDirs(s) \/ SaveMeta(s)
  \/ ClientStarts(s) \/ ClientDoesNotStart(s) \/ ClientEnds(s)
  \/ NextRun(s) \/ MoveTimes(s) \/ ParseTimes(s) \/ TimeApplication(s)
  \/ EndAnalysis(s) \/ SaveStatistics(s) \/ Recorded(s)
=============================================================================
