# Verification of the roofline tool

TLA+ models of the roofline recorder and reporter, checked with TLC, and
theorems about them proved with TLAPS. Source paths are relative to `src/`.

## The system

`roofline.py record` runs an application under DynamoRIO with the roofline
client, once to count floating point operations and bytes and once (or more) to
take times. Each run writes an XML document of *points*, one per region of
interest. `roofline.py report` joins the two documents and plots the points
below a roofline that `roofline.py record_ert` measured.

| Component | State | Operations | Interaction |
|---|---|---|---|
| `client/point.*` | label, flops, bytes, bytes read, bytes written, start and end time of one region | setters, `reset`, `dump_info` | owned by `ThreadData` |
| `client/thread_data.*` | the current point, the reference buffer and its TLS pointer, the list of finished points | `save_bytes`, `save_floating_points`, `clean_buffer`, `new_point`, `save_point`, `set_time_*`, `save_to_file` | the inserted code writes the buffer, clean calls read it, callbacks start and finish points |
| `client/main.cpp`, callbacks | `in_roi`, `roi_start_detected`, `roi_end_detected`, and the static variables of `event_roi_init` and `get_label_and_assign_id` | `event_roi_init`, `symbol_roi_end`, `event_roi_end`, thread and process events | called by drwrap and DynamoRIO in any thread |
| `client/main.cpp`, instrumentation | none; it decides what a basic block does | `event_app_instruction`, `instrument_instr`, `clean_call` | shares `in_roi` with the callbacks |
| `client/count_fp.hpp` | none | `count_fp_instr` | its result is the argument of the clean call |
| `include/roi_api.h` | none | `_RoiStart`, `_RoiEnd` | wrapped by the client |
| `roofline.py` record | the output directory | `record`, `run_roofline_client`, `run_time_analysis`, `save_meta_information` | runs the client as a process |
| `roofline.py` report | the output directory, the gnuplot file, dat files | `get_points`, `report`, `add_additional_lines`, `copy_dat_file` | reads what record wrote |
| `roofline.py` ERT | the directory of rooflines | `record_ert`, `show_ert` | report copies from it |
| `benchmarks/` | expected counts of known kernels | `execute_command`, `expected_fp`, `expected_bytes` | an application of the client |
| `testing/fp_counter` | one global counter | `inscount` | a client of its own |

What is hard: `in_roi` is shared by all threads; a block's references are
counted by the *next* clean call but its flops by its own; callbacks run between
the clean call of a block and the rest of it; labels are numbered by comparing
strings left behind by the call before; repeated labels are renamed only when
the document is written; the process may exit anywhere; the buffer is filled by
code that never looks for its end; two runs of the application must produce
documents that fit together. Several users may work in the same directories:
the commands check that a directory or a file is there in one step and use it in
another, keep what is there already, do not look at how a client run ended, and
may be killed between any two of their steps.

What makes each component correct:

* client: the document says exactly what its thread executed inside regions, in
  every mode; names are unique, so that the report can join by name; the
  assertions at exit accuse only applications that are at fault;
* instrumentation: a block counts as if it ran in one step at its clean call,
  whatever other threads and callbacks do meanwhile, and no buffer overflows;
* record: a directory holds the files of one recording only; a time analysis that
  ends normally has all of its documents; every command ends;
* report: counters and time of a point are from one recording; the points drawn
  under a title are that application's; no label and no line is missing;
* report, ERT: the script is one that gnuplot draws; the roofline that is found
  under a name has the precision of that name;
* counting: equals the operations that the architecture defines.

## Modules

| Module | Contents |
|---|---|
| `PointData` | class `Point` as a record and operators, the `<point>` element, texts and the numerals in them |
| `ThreadData` | class `ThreadData` as a record and operators; naming of points when written |
| `RoofClient` | the client as a state machine: inserted code, callbacks, thread and process events |
| `RoiMeter` | abstract specification: a meter that adds up what a thread executes |
| `RoofClientMeter` | the refinement mapping from `RoofClient` to `RoiMeter` |
| `MCRoofClient` | small instances for TLC |
| `RoofClient_proofs` | theorems about `RoofClient`: types, flag, counters, numbers of calls |
| `Labels_proofs` | theorems about labels and names, from `RoofClient_proofs` |
| `RoofClientMeter_proofs` | `RoofClient` implements `RoiMeter` |
| `CountFp` | `count_fp.hpp`: the operations counted for one instruction |
| `InsertedCode` | extends `RoofClient` and `CountFp`: blocks run one instruction at a time, with the pointer into the buffer; refines `RoofClient` |
| `MCInsertedCode` | a small instance for TLC |
| `InsertedCode_proofs` | theorems about `InsertedCode`: the buffer, the counting, and that it implements `RoofClient` |
| `Workspace` | the files that the commands of `roofline.py` share, and the state of a command |
| `Recorder`, `Report`, `ErtDatabase` | the steps of `record`, `report` and `record_ert` |
| `Toolchain` | the commands together: what users start in several shells, kills, fairness, the properties |
| `MCToolchain` | small instances for TLC |
| `Toolchain_proofs` | theorems about `Toolchain`: types, who owns which directory, rooflines |
| `Recordings_proofs` | ... what a recording leaves, from `Toolchain_proofs` |
| `Titles_proofs` | ... titles and `.dat` files, from `Recordings_proofs` |
| `Plots_proofs` | ... what a plot shows, from `Titles_proofs` |

### How the model of the client corresponds to the code

* `td[t]` is the `ThreadData` object in the TLS field of thread `t`; its methods
  are operators of the same names in capitals.
* The variables `in_roi`, `roi_start_detected`, `roi_end_detected`,
  `new_point_only_once`, `id` and `last_seen` are the static variables.
* `opt` is the command line, `out_file` the documents written to the output
  file, one for each thread that exited.
* The application is free: `ExecuteBlock` is an ordinary basic block;
  `EnterStart` and `EnterEnd` are the first block of a start delimiter (or of the
  traced function) and of an end delimiter (or the block the traced function
  returns to), up to the callback; `ExitGroup` is a call of `exit`.
* `RoiInitMerged`, `RoiInitSeparate`, `RoiInitAbort` and `RoiInitDelimiter` are
  the branches of `event_roi_init`; `EventRoiEnd` is `event_roi_end`;
  `SymbolRoiEndSeparate` and `SymbolRoiEndMerged` are the branches of
  `symbol_roi_end`. The branch of `event_roi_end` for a traced function and the
  one of `symbol_roi_end` for delimiters are unreachable, because
  `module_load_event` installs each callback only in the other mode.
* `open` and `ran` do not exist in the code. `open` holds the labels of the
  application's open regions, and `ran` what it has executed: a reference is
  executed where the inserted code before it stores its entry, and the flops
  of a block with its rest. They are there for the properties.
* An application passes the same label to `Roi_Start` and `Roi_End`, as
  `README.md` demands.

In `RoofClient`, a step is what runs between two points at which another thread can
matter. A clean call reads `in_roi` once, and everything else an ordinary block
does is local to its thread, so a block is one step. A delimiter is two steps,
the clean call and the callback, because another thread (or an exit) can come
between.

`InsertedCode` takes the blocks apart. `bb[t]` and `pc[t]` say which block a thread
is in and what comes next: the first instruction (preceded by the record of its
reference), the clean call, the other instructions. `buf_ptr[t]` counts the
entries that the TLS pointer has moved on; only clean calls move it back.
`bare[t]` does not exist in the code: it counts the blocks without a clean call
(those that start with an exclusive store) since the last clean call.
Blocks that delimiters and returns lead to are still two steps, the clean call
and the callback, with their entries added. The refinement mapping to `RoofClient`
places a block where its clean call is, or where it begins if it has none, and
adds the references that are still to be recorded to the buffer. A
block that has not reached its clean call has not begun for `RoofClient`.

The sequence that `instrument_instr` inserts for one reference is one step: it
works on registers and on the thread's own buffer. A string instruction, which
`event_bb_app2app` turns into a loop, is a block that runs once for each iteration.

External assumptions. The client's inserted code precedes drwrap's in the same
block (drmgr orders its insertion callbacks by priority; the client has the default one
and drwrap a later one), so the clean call precedes the callback. `DR_ASSERT` aborts a debug
build and does nothing in a release build; the constant `DebugBuild` chooses.

One thread, `Main`, marks regions; the comment at `client/main.cpp:627` and the
limitations in `README.md` assume as much. Other threads execute blocks, so
the flag is written by one thread and read by all, and every interleaving of
these accesses is a behaviour of the model.

### How the model of roofline.py corresponds to the code

* `dirs[d]` is the directory named `d` in the users' working directory, with one
  field for each file the tool reads back: `meta` is `roofline_meta.xml`, `counts`
  and `times` are `roofline.xml` and `roofline_time.xml`, `saved` the
  `roofline_time_<i>.xml`, `dat` the `.dat` files by title, `gnu` the gnuplot
  file. A file is `NoFile`, `Broken` (not well-formed: the client is writing it,
  was killed, or more than one thread wrote to it), or its content.
* A document carries `by`, the command that recorded it, and `run`, the client run
  within that command. The files do not say so; the properties need it.
* `rooflines` is `ert_rooflines/`; `nested` is what `shutil.move` makes of a second
  move. `ert` is what all `record_ert` share: `config` is `roofline_config`, `run` is
  `Roofline/Run.001/` of the Empirical Roofline Tool, `db` whether there is an
  `ert_rooflines/`.
* The gnuplot file is abstracted to what its plot command draws and how it ends
  (`Gnuplot`): `",\"` replaces its last byte (`ContinuePlot`,
  `AddDatFileReference`), and gnuplot rejects a script in which no line follows it.
* `sh[s]` is the Python process that runs in shell `s`: its `pc` stands before a
  function of `roofline.py` or between two file operations of one, its other
  fields are that function's variables. The other shells and `Kill` come between
  any two steps; which operations are one step is said below.
* A client run starts (and truncates its document) or does not; it completes its
  document with some points or leaves it broken. Nothing of that is looked at
  (`sp.call` without a check), so `Recorder` continues in the same way.
* `time_only` and `flops_only`, the analysis with its two loops of client runs, the
  moves between them and the four `.csv` files are all in `Recorder`. What a
  `.csv` holds is abstracted to which program was timed.
* A title is the application's command line. Blanks that become underscores are
  left out; a slash in it makes the `.dat` file impossible to create (`PathApps`).
* `Outcome` says which labels a client run writes, and which of them would stop
  the report (no bytes in one document, no time in the other).

Steps. A step is one operation on a file that another command can see, with what
the process does by itself before the next one: a check, an open that truncates,
the write that fills the file and closes it, a rename, a read, the start or
the end of a client run or of the tool. Some steps stand for more than one operation:

* The writes of `save_meta_information` and of a `.csv` file are one step with
  their open. A truncated `roofline_meta.xml` is to `get_app_title` what a missing one
  is, which is what a new directory has; no command reads the `.csv` files.
* `get_app_title` is one step with the read, check, open or write that follows it.
  The title of a directory changes only if it is `Retitled`, which the properties
  about titles except. `TruncateMetainfo` reads the titles of all inputs and opens the
  output file, `CheckoutInputArgs` looks at all inputs and at the output
  directory. That an input changes between two of these is left out; the
  report reads later what it needs of its inputs, and fails then if it is not there.
* The n timing documents of an analysis are parsed in one step: they are in the
  recording's own directory, and nobody writes to them any more.
* Each run of the application in `get_time_info` is a step, but it touches no file.
* `copyfile` of `roofline_config` is one step, which leaves a file without a
  command's precision; a `sed` that reads the file while it is empty, which takes
  two `record_ert` at the same time, is left out.
* The `sed -i` commands are one step with the write before them
  (`copy_empty_roofline`, the labels in `add_additional_lines`) or with each other
  (`add_point_label`), and so are the last two `tail` commands with the close of the
  script. `add_dat_file_reference` opens without truncation, and is one step.
  Only a second report with the same output directory could tell the difference
  (as a killed report's script is truncated by the next one); there the model is
  coarser than the code, see "Not modelled".
* The plot on the shell is left out, with its process.

`Kill` ends a command together with the process that runs under it.

External assumptions: `drrun` starts the client or nothing; the client opens its
file at once and overwrites it (`client/main.cpp:764`). The Empirical Roofline Tool
reads its configuration when it starts. It fills `Run.001` if there is none; if there
is one, it fills that one again or makes another directory (both are allowed); it
may fail and leave an incomplete one, which has neither `roofline.json` nor `roofline.gnu`.
`copyfile` opens its destination before it fills it. gnuplot draws a script whose
plot command is complete, and no other.

## What the runs check

| Run | Instance | Shows |
|---|---|---|
| `client` | two threads, debug build; nine command lines: delimiters, delimiters for timing, named delimiters, traced function merged, separate, separate for timing, reads only, writes only, and one that makes `get_label_and_assign_id` abort | types; the flag is up exactly in regions, whatever the worker does; separate calls are numbered 1, 2, 3...; no warning about labels; unique names; the assertions of `event_exit` accuse only incomplete applications; and `MeterSpec` |
| `inserted_code` | two threads, four command lines (all references, reads only, writes only with a traced function, separate calls), debug build | `CoarseSpec`: blocks run one instruction at a time count as in `RoofClient`; `NoOverflow`; the flops that the code counts are what the core does, for scalars and full vectors of two widths, single and fused |
| `record` | three users, each with one command: a time analysis and an ordinary recording, or only one half of one, into the same directory, and reports of it by one or two of them | `PointsBelongTogether`, `AnalysisKeepsTimes`, `CountersFinal`, and the liveness property `CommandEnds` |
| `report` | two users with two commands each: reports of one or two inputs over one to three lines, into a directory of their own, an input, or one that is being recorded; a recording; `record_ert` | `DotsAreRecorded`, `MetaNamesTheApp`; when a report has ended, `LabelsComplete` and `LinesShown`: gnuplot draws the script, and the rooflines are on it |
| `record_ert` | one user, three commands: `record_ert` for two precisions | `NameTellsPrecision`, whatever a killed command or a failed tool has left |
| `same_app` | violated | of two recordings of one application only one is plotted |
| `ert_again` | violated | a roofline measured again does not replace the old one |
| `ert_together` | violated | of two `record_ert` at the same time, one moves the other's roofline under the name that it read before |
| `point_reset` | violated | `Point::reset` keeps bytes read and bytes written |
| `recursion` | violated | a recursive traced function is not measured to its end |
| `merged_time` | violated | the time of merged calls is that of the last one |
| `point_names` | violated | regions `a`, `a`, `a1` are written as `a`, `a1`, `a1` |

`MeterSpec` is the property most of the others serve. `RoiMeter` knows nothing of
buffers, flags or labels: while it measures, its reading advances by exactly what
the thread executes; the end of a region appends the reading to the report, or
keeps it when calls are merged; at the thread's exit one document with the whole
report is written. The mapping reads the meter off the current point *plus* the
references that are still in the buffer while a region is open. A reference
counted twice, lost, or counted in the wrong region, a point that is not
initialised, a counter that survives in a reset point, or another thread's work
in this thread's point all violate it. A merged region that is open when the
process exits is reported without the references of its last block, which no
clean call has taken out of the buffer; the abstract specification allows that.

`CoarseSpec` justifies the grain of `RoofClient`: what is checked and proved there
about blocks that run in one step holds when other threads and the flag change
between the instructions of a block. Its blocks are the application's, with the
flops that an Arm core does (`Executed`), while the inserted code adds what
`count_fp_instr` counts; so it checks the counting as well. `Executed` goes by
whether an instruction works on a vector, the code by the name of the register;
the blocks of `inserted_code` have no vectors in d registers.

The properties of `Toolchain` say what a user may rely on although the commands
check and act in separate steps. Two of them need an exception. A report of other
recordings whose output directory is a recording (`Retitled`) replaces its meta
information by theirs, so that later reports of it take another application's
title; `MetaNamesTheApp` and `DotsAreRecorded` except these directories.
A report fails over a third line, a missing first line, a region without bytes or
time, a sixth input and a title with a slash: these are failures in the model as
in the code, and the properties are about reports that end normally.

Three disagreements that modelling brought up have no run of their own.

* `is_vector_instruction` (`client/count_fp.hpp:357`) takes only q registers for
  vectors, so that NEON instructions on the elements of a d register count as one
  operation, although `README.md:141` calls the counting of NEON instructions
  precise. `CountFp` has them (`HalfVector`); `CoarseSpec` does not hold of blocks
  with them.
* `add_additional_lines` (`roofline.py:394`) ends the script in `",\"` before it looks
  for the further rooflines. If one is missing, the next `",\"` follows at once,
  gnuplot rejects the script, and the report ends normally without a plot. The
  model does the same; `LinesShown` is about further rooflines that are there.
* `get_time_info` (`roofline.py:311`) tests its settings the wrong way round
  (`GetTimeInfo`), so that `dynamorio_runtime.csv` holds times of native runs.

Every property has a mutant of the code that violates it under the same
configuration; the mutants stand before the definitions they change, named
`<definition>_<change>`.

### Bounds

* `MaxBlocks` (5, and 4 in `inserted_code`): blocks executed by all threads, delimiters
  included, and not counting ends. Five blocks are two regions with blocks before,
  in and between them, or five empty regions: enough for a value to be carried
  from one region into the next one and for the third point of one name.
* `MaxDepth = 1`: regions do not nest in the passing runs, because the code does
  not support it (see `recursion`, which has `MaxDepth = 2`).
* `MaxTime = 4`: the clock has three ticks, so that a region may take no time,
  begin later than the process, or end later than it begins.
* `DebugBuild`: the passing runs of the client are of a debug build, which checks the
  options and aborts where a release build goes on; the violated ones are of a
  release build, and the theorems are about both.
* Two labels, of one character each; `point_names` adds one with a digit. A text is
  the sequence of its characters and a number is appended as its digits, so that
  `a1` with 1 and `a` with 11 are the same text here as in the code.
* Blocks: one that loads, computes, stores and updates; one that begins with an
  exclusive store and has no clean call. Byte counts are small and distinct
  enough to tell the kinds of reference apart. Delimiter blocks have no flops,
  as the functions of the ROI API have none; a traced function whose first
  block computes is miscounted by that block (its clean call precedes the
  callback), and the block it returns to is counted instead. Blocks without a
  clean call have no flops in the instances either; they would be lost.
* `inserted_code`: `MaxBlocks = 4`, two threads, blocks of one to three
  instructions, `MaxBare = 1` and `MaxRefs = 6 = (MaxBare + 1) * MaxLen`, the least
  that `CapacityAssumption` allows. In the code there is room for 4096 entries, and
  DynamoRIO's blocks have at most a few hundred instructions. `NoOverflow` needs
  the assumption: nothing in the code bounds the blocks without a clean call in a
  row, although compilers put exclusive stores into short loops with a branch
  back to the load.
* `record`: `MaxCommands = 1` in each of three shells, so that each pair of
  commands meets in every order; an analysis of two runs, enough for two moved
  documents and two runs that are not moved; two applications and two
  directories; all documents have one region.
* `report`: `MaxCommands = 2` in each of two shells, enough for a report of what
  a killed report has left; one reporting shell, so that two reports do not write
  one plot at the same time (in `record` they may). One roofline is there from
  the beginning and one may come at any step, also between two of the `tail`
  commands. Documents have one region, or two of which the first stops the report.
* `record_ert`: `MaxCommands = 3` in one shell: one command leaves something,
  the next finds it, and the third finds what that made of it. Two shells
  violate the property (`ert_together`).
* The merged mode is not run for timing in the passing runs; see `merged_time`.

Deadlock is checked in every run: an application that can do nothing more can
always exit, and only a process that has ended stutters; in `Toolchain`, only
shells in which nothing runs.

### Fairness

None is assumed for the client, and no liveness property is stated of it: it never
waits for anything, and whether a region ends is up to the application.

`Toolchain` assumes weak fairness of every shell's `Step`: the operating system
runs the Python process, and what it waits for (the application under the client,
`ert`, `sed`, `gnuplot`) ends. No fairness is assumed of `Begin` (users need not run
anything), of `Kill`, or of a client run being successful. `CommandEnds` follows
because the loops of the recorder count their runs and do not repeat failed ones.
`sp.call` has no timeout: an application or a tool that hangs holds up its command
for ever, which the fairness excludes.

## What is proved

Every invariant that a passing run checks, the action property `CountersFinal` and
the refinement `MeterSpec` are theorems, for every value of the constants that
their named assumptions and hypotheses allow. TLC evaluates the assumptions in
every run. A hypothesis of a theorem (`ASSUME` in its statement) is what the code
needs to keep the promise; each is satisfied in a passing run that checks the
property.

### The client

`RoofClient_proofs`, for every set of threads, every application (any blocks and
labels), every command line and every bound:

* `TypeCorrect`: `Spec => []TypeOK`. `TypeOK` is inductive only together with
  `InCallbackOpen`, that a region is open while a callback is pending, since the
  callbacks take the head of the stack of labels.
* `AbortOnlyIncomplete`: `Spec => []AbortMeansIncomplete`, for any nesting. The
  inductive invariant is `CountsAgree`: the two counters differ by the number of
  regions whose start callback ran and whose end callback has not.
* `RoiFlag`: `Spec => []RoiFlagTracksRegion` if `MaxDepth = 1`, with
  `Len(open) =< 1` as the strengthening.
* `CallsNumbered`: `Spec => []SeparateCallsNumbered` if `MaxDepth = 1`. The
  inductive invariant `Numbering` says what `id` and `last_seen` are while a call
  is in progress and between calls. That the comparison of strings tells the two
  apart is `NumberedInjective`: a name with one number is not the name with
  another.

Flag and counters rest on `StepKinds`: every step leaves flag, counters and open
regions alone, starts a region, ends one, or aborts. `MaxDepth = 1` says that
regions do not nest and the traced function does not call itself. `recursion`
violates what is proved from it otherwise.

`Labels_proofs`, also if `MaxDepth = 1`:

* `LabelsAgree`: `Spec => []NoLabelWarning`. The inductive invariant `Carried`: the
  point in progress carries the label that the end of its region will give to
  `save_point`. Only when the process exits may there be a warning, of a merged
  function that was never called (`NoLabelWarning` excepts it).
* `NamesDiffer`: `Spec => []NamesUnique`. The inductive invariant `Listed`: the
  finished points of separate calls have the numbers 1, 2, 3...; the others have
  labels of the application; and every document written has different names.
  `DocumentDistinct` is the naming itself: of points with labels of the application
  from the second one on the n-th point of a label gets the number n - 1. Numbers
  are appended as digits (`Numeral`). If one name is read as a label with a number
  in two ways, either the labels are the same, and so are the numbers
  (`NumeralInjective`: different numbers have different digits), or one label is
  the other one with the digits that its number begins with, which are a number
  themselves (`NumeralBegins`). Both lemmas go by the least number that would be an
  exception, which needs no induction over an operator.

Their hypotheses: `SeparateCallsAreTraced` is what `get_label_and_assign_id`
asserts (`client/main.cpp:151`); a debug build aborts otherwise, a release
build goes on, and labels its points wrongly. `LabelsDiffer`: no label is
another one followed by a number's digits, which excludes `a` with `a1`, and `a1` with
`a11`; `point_names` is what happens otherwise.

`RoofClientMeter_proofs`:

* `ClientIsAMeter`: `Spec => MeterSpec` if `MaxDepth = 1` and `Exact`. Each step
  of the client is shown to be a step of the meter or to leave it alone. `Sound`
  collects what this needs: the invariants above and `Prepared`, that a
  delimiter's callback finds an empty buffer, that a merged point which has not
  begun is zero, that a timing run counts nothing, and that `Main` has one
  document at most. `Exact` names what an exact measurement demands: delimiters
  are empty functions, blocks without a clean call have no flops, and merged calls
  are not timed (`merged_time`). Bytes are exact for any blocks of the application.

`InsertedCode_proofs`, for every application whose blocks have at most `MaxLen`
instructions:

* `BufferNeverOverflows`: `SpecInserted => []NoOverflow`. `NoOverflow` is not
  inductive: it does not say how much of the current block is still to come.
  `Inv` bounds the pointer at each step of a block by `Room(t)`, what the blocks
  without a clean call since the last clean call can have recorded, plus what the
  current block has recorded so far; for a delimiter it counts what the rest of
  the block will add after the callback. From `CapacityAssumption`, room for
  `(MaxBare + 1) * MaxLen` entries is enough.
* `InsertedTypes`: `SpecInserted => []TypeOKInserted`, from the same invariant.
* `BlocksAreSteps`: `SpecInserted => CoarseSpec` if `Countable`, so what is proved about
  blocks that run in one step holds of blocks that run an instruction at a time.
  `Countable`: the build is for Arm, and no block has a vector in a d register
  (such a one counts as a scalar, see "What the runs check").
  `InstructionCounted` compares `count_fp_instr`, which divides widths, with the
  number of elements that start in a register, for every width.
  `Fine` is the invariant of the refinement: the types, `Inv`, and `Grain`, by which
  only finitely many blocks are in progress, none of them of a thread that has not
  begun or in a timing run. `StartBlockMaps`, `RunInstrMaps` and `RunCleanCallMaps`
  say which steps run a block of `RoofClient`: entering a block without a clean
  call, and the clean call of any other; an instruction is a stutter, because what
  it puts into the buffer is what it takes from the references still to come. The
  steps that the two specifications share do the same to the mapped data
  (`WholeStep`), also an exit that stops another thread within its block
  (`ExitMaps`). That the references and flops of a block are the sums over its
  instructions (`BlockCode`) rests on sums of sequences of any length. These are
  shown by an induction stated with a set in the place of a predicate
  (`Downwards`), which needs no operator as a parameter.

### The commands

For every set of users, commands, directories and documents, with kills at any
step. `Toolchain_proofs`:

* `RecordingsNotMixed`: `Spec => []PointsBelongTogether`. The argument is ownership.
  A shell owns a directory from `MakeDirs`, which only succeeds for one that is not
  there, until its command ends. `Owner`: a shell that owns a directory has written
  every document in it; `SoleOwner`: no two shells own the same one;
  `OneRecording`: also later, the documents of a directory are by one command. A
  report between its two reads is in the state `ReadFrom`: whoever owns the
  directory it reads has also written what it has read, so the second document,
  if there is one, is by the same command. `Keeps` says what a step must preserve
  for this; every step of every command is shown to keep it.
* `ToolchainTypes`: `Spec => []TypeOK`, from the same invariant. It needs `Fits`
  (each process has the arguments and variables that its next step uses) and
  `HasPlot` (the gnuplot file is there while a report adds to it).
* `NamesTellPrecisions`: `Spec => []NameTellsPrecision` if one shell alone runs
  `record_ert` (`OneErtShell`). The inductive invariant adds that the name which a
  shell has read is that of what it is about to move. Nobody else can replace
  `Run.001` between the two; with a second shell somebody can (`ert_together`).

`Recordings_proofs`, from the invariant `RInv`:

* `TimesKept`: `Spec => []AnalysisKeepsTimes`. A recording holds its directory also
  after it has ended, when nobody can own it again (`Held`, `SoleHolder`). `Phase`
  follows the two loops of the analysis: how many client runs have started, how
  many documents have been moved away, and what `roofline_time.xml` is between.
* `CountersStay`: `Spec => CountersFinal`. Only a recording under way writes
  documents, and while its counters are complete it is past the run that writes
  them (`Unrecorded`, `Phase`).

`Titles_proofs`:

* `TitlesRight`: `Spec => []MetaNamesTheApp`. In `TInv`, `NewTitle` is the point: a
  report writes meta information that it read some steps ago, and what it
  writes is still right, because the application of a directory with counters
  does not change and a directory without counters makes the report fail before.
* `DotsRight`: `Spec => []DotsAreRecorded`. That points copied from file to file
  keep their title needs to know that no recording is under way whose points are
  plotted already: `KnownPast` and `KnownNow` say that nothing is known, in
  counters or `.dat` files, of commands to come, nor of a recording that has no counters.

`Plots_proofs`, if reports that may run in different shells have different output
directories (`SeparateReports`; the run `report` has one reporting shell):

* `RooflinesDrawn`: `Spec => []LinesShown` and `LabelsDrawn`: `Spec =>
  []LabelsComplete`. `PInv` says which lines a plot has and how its script ends at
  each step of its report, and which labels the report has read: for the inputs it has done, in its list
  of points, later on the plot. The labels are those of the inputs at the end
  because the counters that were read are final.

The commands begin with any directories that earlier ones can have left; the
assumptions of `Toolchain` say which those are. `RecordingsAssumption`: both
documents of a directory are by one command, and its title is theirs;
`IdsAssumption`: no two directories have counters of one command, and none has
those of a command to come; `DotsAssumption`: the same for the points of
`.dat` files, which are under their titles; `RooflinesAssumption`: rooflines have
the names that `record_ert` gives them. Each says of the first state what a
theorem says of the later ones.

### Only model-checked

* `CommandEnds`, a liveness property: fairness is out of the prover's reach.

## Not modelled

* Source lines and file names of points, which are copied into the document;
  symbol lookup and wrapping (`trace_symbol`, `module_load_event`); the
  registration of events; log output of the `VALIDATE` builds; how thread data is
  allocated and freed.
* Wrap-around of the 64-bit counters, which no run of a program reaches.
* A second thread that marks regions, which the code excludes.
* Coordinates, colours and the texts that `sed` puts into the gnuplot file; the plot
  on the shell (`show_roofline_ascii`), which reads the report's files only;
  `show_ert`, which lists a directory; `ert_graph_is_available` and
  `raw_statistic_analysis`, which nothing calls.
* What a plot holds after two reports have written it at the same time: `record`
  lets them, but a write replaces the whole script there, and the properties
  about plots are checked with one reporting shell.
* Blocks of exclusive stores in a row that are more than `MaxBare`: the buffer
  overflows, and what the program does then is undefined.
* `benchmarks/`, `client/app_example`, `testing/sleeper`: applications, of which
  the model allows any. `testing/fp_counter`: a sample client that the tool
  does not use.

## Plan

Done: the client and its abstract specification, the buffer and the inserted code,
counting, the commands of `roofline.py` with their files, and proofs of all that is
checked but the liveness property above. Left, in order of what matters most:

1. The client's life cycle: event registration, thread data and its allocators.
2. Two reports with one output directory: what their plot can hold.
