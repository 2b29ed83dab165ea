----------------------------- MODULE ErtDatabase -----------------------------
(***************************************************************************)
(* roofline.py record_ert: runs the Empirical Roofline Tool and moves its  *)
(* output directory Roofline/Run.001 into the database, under the name     *)
(* that roofline.json in that directory gives.  Everybody's record_ert     *)
(* uses the same configuration and the same output directory.              *)
(***************************************************************************)
EXTENDS Workspace

\* The configuration is copied from the template and given the precision.
CopyConfig(s) ==
  /\ At(s, "template")
  /\ ert' = [ert EXCEPT !.config = NoFile]
  /\ Goto(s, "precision")
  /\ UNCHANGED <<dirs, rooflines>>

SetPrecision(s) ==
  /\ At(s, "precision")
  /\ ert' = [ert EXCEPT !.config = Args(s).precision]
  /\ Goto(s, "ert")
  /\ UNCHANGED <<dirs, rooflines>>

(***************************************************************************)
(* External: the tool reads the configuration and makes Run.001 if there   *)
(* is none.  In the end it has filled Run.001, for the precision that it   *)
(* has read or, if it has read none, for one of its own; or it has used    *)
(* another directory; or it has failed, and Run.001 may be incomplete.     *)
(***************************************************************************)
ToolStarts(s) ==
  /\ At(s, "ert")
  /\ \/ UNCHANGED ert
     \/ ert.run = NoFile /\ ert' = [ert EXCEPT !.run = Broken]
  /\ sh' = [sh EXCEPT ![s].pc = "measuring", ![s].name = ert.config]
  /\ UNCHANGED <<dirs, rooflines>>

ToolEnds(s) ==
  /\ At(s, "measuring")
  /\ \/ UNCHANGED ert
     \/ \E p \in Rooflines :
          /\ sh[s].name \in {p, NoFile}
          /\ ert' = [ert EXCEPT !.run = [by |-> Id(s), precision |-> p]]
  /\ sh' = [sh EXCEPT ![s].pc = "database", ![s].name = NoFile]
  /\ UNCHANGED <<dirs, rooflines>>

\* The database is made if it is not there; os.makedirs raises if another
\* command has made it since.
FindDatabase(s) ==
  /\ At(s, "database")
  /\ Goto(s, IF ert.db THEN "hostname" ELSE "makedb")
  /\ UNCHANGED files

MakeDatabase(s) ==
  /\ At(s, "makedb")
  /\ IF ert.db THEN Fail(s) /\ UNCHANGED ert
     ELSE Goto(s, "hostname") /\ ert' = [ert EXCEPT !.db = TRUE]
  /\ UNCHANGED <<dirs, rooflines>>
-----------------------------------------------------------------------------
\* get_roofline_hostname and get_roofline_precision each read roofline.json,
\* which an incomplete Run.001 does not have.
ReadHostname(s) ==
  /\ At(s, "hostname")
  /\ IF ert.run \in {NoFile, Broken} THEN Fail(s) ELSE Goto(s, "name")
  /\ UNCHANGED files

\* The name if it were that of the precision asked for.
EntryName_Asked(s) == Args(s).precision
\* The name of the roofline's directory in the database.
EntryName(s) == ert.run.precision

ReadPrecision(s) ==
  /\ At(s, "name")
  /\ IF ert.run \in {NoFile, Broken} THEN Fail(s)
     ELSE sh' = [sh EXCEPT ![s].pc = "move", ![s].name = EntryName(s)]
  /\ UNCHANGED files

(***************************************************************************)
(* shutil.move renames what is Run.001 now if the destination is not       *)
(* there, puts it inside a destination that is, and raises if that has a   *)
(* Run.001 or if there is nothing to move.                                 *)
(***************************************************************************)
MoveRoofline(s) ==
  /\ At(s, "move")
  /\ LET there == rooflines[sh[s].name] IN
     IF ert.run = NoFile \/ (there # NoFile /\ there.nested # NoFile)
     THEN Fail(s) /\ UNCHANGED <<rooflines, ert>>
     ELSE /\ rooflines' = [rooflines EXCEPT ![sh[s].name] =
               IF there = NoFile THEN [gnu |-> ert.run, nested |-> NoFile]
                                 ELSE [there EXCEPT !.nested = ert.run]]
          /\ ert' = [ert EXCEPT !.run = NoFile]
          /\ Return(s)
  /\ UNCHANGED dirs

RecordErt(s) ==
  \/ CopyConfig(s) \/ SetPrecision(s) \/ ToolStarts(s) \/ ToolEnds(s) \/ FindDatabase(s)
  \/ MakeDatabase(s) \/ ReadHostname(s) \/ ReadPrecision(s) \/ MoveRoofline(s)
=============================================================================
