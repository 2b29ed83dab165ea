-------------------------------- MODULE Report --------------------------------
(***************************************************************************)
(* roofline.py report: draws the points of one or more recordings over one *)
(* or more rooflines of the database.  It reads each input while other     *)
(* commands may still be writing there, and writes a .dat file into every  *)
(* input directory before it copies it to the output directory.            *)
(***************************************************************************)
EXTENDS Workspace

MaxColours == 5   \* line styles, get_points

Inputs(s) == Args(s).input_dir
Input(s) == Inputs(s)[sh[s].k]
Lines(s) == Args(s).line
\* The output directory, as checkout_input_args fills it in.
Output_(s) == IF Args(s).output_dir = NoDir THEN Head(Inputs(s)) ELSE Args(s).output_dir

\* get_app_title if it took the last application of the directory.
GetAppTitle_Last(d) == Last(dirs[d].meta)
\* get_app_title: the first application of the directory's meta information.
GetAppTitle(d) == Head(dirs[d].meta)
Title(s) == GetAppTitle(Input(s))
\* get_app_title raises while another report is writing the file.
NoTitle(s) == dirs[Input(s)].meta = <<>>

\* checkout_input_args, and whether the output directory exists.
CheckoutInputArgs(s) ==
  /\ At(s, "args")
  /\ IF /\ Inputs(s) # <<>> /\ Lines(s) # <<>>
        /\ \A i \in DOMAIN Inputs(s) : LET d == dirs[Inputs(s)[i]]
                                       IN d.counts # NoFile /\ d.times # NoFile
        /\ Len(Inputs(s)) > 1 => Args(s).output_dir # NoDir
     THEN Goto(s, IF dirs[Output_(s)].exists THEN "empty" ELSE "makeout")
     ELSE Fail(s)
  /\ UNCHANGED files

\* report: os.makedirs of the output directory, which raises if a recording
\* has made it since.
MakeOutput(s) ==
  /\ At(s, "makeout")
  /\ IF dirs[Output_(s)].exists
     THEN Fail(s) /\ UNCHANGED dirs
     ELSE Goto(s, "empty") /\ dirs' = [dirs EXCEPT ![Output_(s)].exists = TRUE]
  /\ UNCHANGED <<rooflines, ert>>

\* Whether the database has a roofline called l.
HasRoofline(l) == rooflines[l] # NoFile /\ rooflines[l].gnu # Broken

\* copy_empty_roofline: copyfile raises if the roofline is not there, truncates
\* the script ...
CopyEmptyRoofline(s) ==
  /\ At(s, "empty")
  /\ LET l == Lines(s)[1] IN
     IF ~HasRoofline(l) THEN Fail(s) /\ UNCHANGED dirs
     ELSE /\ dirs' = [dirs EXCEPT ![Output_(s)].gnu =
                        [end |-> "empty", lines |-> <<>>, refs |-> <<>>, labels |-> {}]]
          /\ sh' = [sh EXCEPT ![s].pc = "roofline", ![s].source = <<rooflines[l].gnu>>]
  /\ UNCHANGED <<rooflines, ert>>

\* ... and fills it.
FillRoofline(s) ==
  /\ At(s, "roofline")
  /\ dirs' = [dirs EXCEPT ![Output_(s)].gnu.end = "complete",
                          ![Output_(s)].gnu.lines = sh[s].source]
  /\ sh' = [sh EXCEPT ![s].pc = IF Len(Lines(s)) > 1 THEN "continue" ELSE "counts",
                      ![s].source = <<>>]
  /\ UNCHANGED <<rooflines, ert>>

\* add_additional_lines if it did not write the ",\".
ContinuePlot_Skipped(s) ==
  /\ At(s, "continue")
  /\ Goto(s, "tail")
  /\ UNCHANGED files

\* add_additional_lines: ",\" replaces the last byte of the script, ...
ContinuePlot(s) ==
  /\ At(s, "continue")
  /\ LET end == dirs[Output_(s)].gnu.end IN
     IF end = "empty" THEN Fail(s) /\ UNCHANGED dirs
     ELSE /\ dirs' = [dirs EXCEPT ![Output_(s)].gnu.end =
                        IF end = "complete" THEN "continued" ELSE "rejected"]
          /\ Goto(s, "tail")
  /\ UNCHANGED <<rooflines, ert>>

\* ... tail prints the first of three lines of the roofline that comes next, or
\* nothing if it is not there, ...
TailLine(s) ==
  /\ At(s, "tail")
  /\ LET l == Lines(s)[2] IN
     sh' = [sh EXCEPT ![s].pc = "append",
                      ![s].source = IF HasRoofline(l) THEN <<rooflines[l].gnu>> ELSE <<>>]
  /\ UNCHANGED files

(***************************************************************************)
(* ... and then the other two, which may be there although the first was   *)
(* not, and what has been printed is appended to the script.  The file is  *)
(* closed in the loop, so that the write for a third line raises.          *)
(***************************************************************************)
AppendLines(s) ==
  /\ At(s, "append")
  /\ LET g == dirs[Output_(s)].gnu IN
     \/ /\ sh[s].source # <<>>
        /\ dirs' = [dirs EXCEPT ![Output_(s)].gnu =
             [g EXCEPT !.end = IF @ = "continued" THEN "complete" ELSE "rejected",
                       !.lines = @ \o sh[s].source]]
     \/ sh[s].source = <<>> /\ UNCHANGED dirs
     \/ /\ sh[s].source = <<>> /\ HasRoofline(Lines(s)[2])
        /\ \E end \in {"complete", "continued", "rejected"} :
             dirs' = [dirs EXCEPT ![Output_(s)].gnu.end = end]
  /\ IF Len(Lines(s)) > 2 THEN Fail(s)
     ELSE sh' = [sh EXCEPT ![s].pc = "counts", ![s].source = <<>>]
  /\ UNCHANGED <<rooflines, ert>>
-----------------------------------------------------------------------------
\* get_points, after get_app_title: roofline.xml of the input is parsed ...
ReadCounts(s) ==
  /\ At(s, "counts")
  /\ LET d == dirs[Input(s)] IN
     IF NoTitle(s) \/ sh[s].k > MaxColours \/ d.counts \in {NoFile, Broken}
     THEN Fail(s)
     ELSE sh' = [sh EXCEPT ![s].pc = "times", ![s].read = d.counts]
  /\ UNCHANGED files

\* A label must be in the timing document once, and neither the region's
\* bytes nor its time may be zero.
Plottable(counts, times, label) ==
  /\ Cardinality({i \in DOMAIN times.labels : times.labels[i] = label}) = 1
  /\ label \notin times.zero /\ label \notin counts.zero

\* ... and roofline_time.xml next, and the two are combined label by label.
ReadTimes(s) ==
  /\ At(s, "times")
  /\ LET counts == sh[s].read
         times == dirs[Input(s)].times
     IN IF times \in {NoFile, Broken}
           \/ \E label \in Range(counts.labels) : ~Plottable(counts, times, label)
        THEN Fail(s)
        ELSE sh' = [sh EXCEPT ![s].pc = "dat", ![s].current =
               [i \in DOMAIN counts.labels |->
                  [label |-> counts.labels[i], app |-> counts.app,
                   counts |-> counts.by, times |-> times.by]]]
  /\ UNCHANGED files

\* create_dat_file: <title>.dat in the input directory is truncated, where a
\* title with a "/" names a file in a directory that is not there, ...
CreateDatFile(s) ==
  /\ At(s, "dat")
  /\ IF NoTitle(s) \/ Title(s) \in PathApps
     THEN Fail(s) /\ UNCHANGED dirs
     ELSE /\ dirs' = [dirs EXCEPT ![Input(s)].dat[Title(s)] = <<>>]
          /\ sh' = [sh EXCEPT ![s].pc = "points", ![s].title = <<Title(s)>>]
  /\ UNCHANGED <<rooflines, ert>>

\* ... and the points are written.
WritePoints(s) ==
  /\ At(s, "points")
  /\ dirs' = [dirs EXCEPT ![Input(s)].dat[Head(sh[s].title)] = sh[s].current]
  /\ sh' = [sh EXCEPT ![s].pc = "copy", ![s].title = <<>>]
  /\ UNCHANGED <<rooflines, ert>>

\* copy_dat_file: a file that is there already is kept, ...
CopyDatFile(s) ==
  /\ At(s, "copy")
  /\ IF NoTitle(s) THEN Fail(s)
     ELSE IF dirs[Output_(s)].dat[Title(s)] # NoFile THEN Goto(s, "refs")
     ELSE sh' = [sh EXCEPT ![s].pc = "open", ![s].title = <<Title(s)>>]
  /\ UNCHANGED files

\* ... and otherwise copyfile opens the two files ...
OpenDatFile(s) ==
  /\ At(s, "open")
  /\ LET name == Head(sh[s].title) IN
     IF dirs[Input(s)].dat[name] = NoFile THEN Fail(s) /\ UNCHANGED dirs
     ELSE /\ dirs' = [dirs EXCEPT ![Output_(s)].dat[name] = <<>>]
          /\ Goto(s, "fill")
  /\ UNCHANGED <<rooflines, ert>>

\* ... and copies.
FillDatFile(s) ==
  /\ At(s, "fill")
  /\ LET name == Head(sh[s].title) IN
     dirs' = [dirs EXCEPT ![Output_(s)].dat[name] = dirs[Input(s)].dat[name]]
  /\ sh' = [sh EXCEPT ![s].pc = "refs", ![s].title = <<>>]
  /\ UNCHANGED <<rooflines, ert>>

\* The end of an input's iteration if it forgot the inputs before it.
AddDatFileReference_LastOnly(s) ==
  /\ At(s, "refs")
  /\ dirs' = [dirs EXCEPT ![Output_(s)].gnu.refs = Append(@, Title(s))]
  /\ sh' = [sh EXCEPT ![s].point_list = sh[s].current,
                      ![s].k = IF @ = Len(Inputs(s)) THEN @ ELSE @ + 1,
                      ![s].pc = IF sh[s].k = Len(Inputs(s)) THEN "metainfo" ELSE "counts"]
  /\ UNCHANGED <<rooflines, ert>>

\* add_dat_file_reference: ",\" replaces the last byte of the script, which must
\* have one and not be that of another ",\"; and the next input.
AddDatFileReference(s) ==
  /\ At(s, "refs")
  /\ LET g == dirs[Output_(s)].gnu IN
     IF NoTitle(s) \/ g.end = "empty"
     THEN Fail(s) /\ UNCHANGED dirs
     ELSE /\ dirs' = [dirs EXCEPT ![Output_(s)].gnu =
               [g EXCEPT !.end = IF @ = "complete" THEN @ ELSE "rejected",
                         !.refs = Append(@, Title(s))]]
          /\ sh' = [sh EXCEPT ![s].point_list = @ \o sh[s].current,
                              ![s].k = IF @ = Len(Inputs(s)) THEN @ ELSE @ + 1,
                              ![s].pc = IF sh[s].k = Len(Inputs(s)) THEN "metainfo" ELSE "counts"]
  /\ UNCHANGED <<rooflines, ert>>
-----------------------------------------------------------------------------
\* get_and_save_metainfo if it put the further inputs' applications first.
GetMetainfo_Reversed(s) ==
  LET others == [i \in 1 .. Len(Inputs(s)) - 1 |-> GetAppTitle(Inputs(s)[i + 1])]
  IN others \o dirs[Head(Inputs(s))].meta

\* get_and_save_metainfo: all applications of the first input, and the first
\* one of each of the others ...
GetMetainfo(s) ==
  LET others == [i \in 1 .. Len(Inputs(s)) - 1 |-> GetAppTitle(Inputs(s)[i + 1])]
  IN dirs[Head(Inputs(s))].meta \o others

\* ... are written to the output directory, whose file is truncated first.
TruncateMetainfo(s) ==
  /\ At(s, "metainfo")
  /\ IF \E d \in Range(Inputs(s)) : dirs[d].meta = <<>>
     THEN Fail(s) /\ UNCHANGED dirs
     ELSE /\ sh' = [sh EXCEPT ![s].pc = "writemeta", ![s].meta = GetMetainfo(s)]
          /\ dirs' = [dirs EXCEPT ![Output_(s)].meta = <<>>]
  /\ UNCHANGED <<rooflines, ert>>

WriteMetainfo(s) ==
  /\ At(s, "writemeta")
  /\ dirs' = [dirs EXCEPT ![Output_(s)].meta = sh[s].meta]
  /\ Goto(s, "labels")
  /\ UNCHANGED <<rooflines, ert>>

\* add_point_label for every point.
AddPointLabels(s) ==
  /\ At(s, "labels")
  /\ dirs' = [dirs EXCEPT ![Output_(s)].gnu.labels =
                @ \cup {p.label : p \in Range(sh[s].point_list)}]
  /\ Goto(s, "draw")
  /\ UNCHANGED <<rooflines, ert>>

\* gnuplot runs; nobody looks at whether it draws.
Draw(s) ==
  /\ At(s, "draw")
  /\ Return(s)
  /\ UNCHANGED files
\* gnuplot draws what a script shows if its plot command is complete.
Draws(g) == g.end = "complete"

Report(s) ==
  \/ CheckoutInputArgs(s) \/ MakeOutput(s) \/ CopyEmptyRoofline(s) \/ FillRoofline(s)
  \/ ContinuePlot(s) \/ TailLine(s) \/ AppendLines(s) \/ ReadCounts(s) \/ ReadTimes(s)
  \/ CreateDatFile(s) \/ WritePoints(s) \/ CopyDatFile(s) \/ OpenDatFile(s)
  \/ FillDatFile(s) \/ AddDatFileReference(s) \/ TruncateMetainfo(s) \/ WriteMetainfo(s)
  \/ AddPointLabels(s) \/ Draw(s)
===============================================================================
